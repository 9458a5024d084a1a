------------------------------ MODULE ProofPackage ------------------------------
(***************************************************************************)
(* The portable evidence package of pkg/proof: writing it, reading it back *)
(* and verifying a document against it, up to the exit code of the command *)
(* line.  An encoded package is a record of the fields the reader checks;   *)
(* bytes that only carry a field are left out.                             *)
(***************************************************************************)
EXTENDS Merkle

CONSTANTS MaxPath,      \* path nodes the reader admits: 16
          MaxManifest   \* leaves a manifest may have: 2^16

\* Parse admits the path of every place in the largest manifest.
ASSUME PackageAssumption == MaxPath \in 0 .. 64 /\ MaxManifest \in 1 .. Power2(MaxPath)

Statuses == {"verified", "failed", "unavailable", "unsupported"}

\* A commitment hashes the representation, the document digest and the nonce.
Commit_Unrepresented(w) == [digest |-> w.digest, nonce |-> w.nonce]
Commit(w) == [representation |-> w.representation, digest |-> w.digest, nonce |-> w.nonce]

\* batch.New over ordered commitments.
NewManifest(commitments) == [size |-> Len(commitments), root |-> Root(commitments)]
ManifestValid(m) == m.size \in 1 .. MaxManifest

\* The package of one member of a batch, given the batch's commitments in order.
NewPackage(w, commitments, index) ==
  [witness |-> w, manifest |-> NewManifest(commitments), index |-> index,
   path |-> Path(commitments, index)]

\* MarshalBinary writes a package only if index, manifest and path fit together.
Marshals(p) ==
  /\ ManifestValid(p.manifest)
  /\ p.index < p.manifest.size
  /\ Len(p.path) = PathLength(p.index, p.manifest.size)

\* The bytes: framed is the length and magic, count the path's announced length,
\* profile the algorithm bytes, domains the two domain strings.
Encode(p) ==
  [framed |-> TRUE, version |-> 1, count |-> Len(p.path), anchors |-> 0,
   profile |-> TRUE, domains |-> TRUE, package |-> p]

\* Parse's checks in their order, each with the verdict on failing it; a variant
\* calls a strict parser before it has looked at the algorithms.
Checks_StrictFirst(e) ==
  LET p == e.package IN
  << [holds |-> e.framed, verdict |-> "failed"],
     [holds |-> e.version = 1, verdict |-> "unsupported"],
     [holds |-> e.count <= MaxPath /\ e.count = Len(p.path), verdict |-> "failed"],
     [holds |-> e.anchors = 0, verdict |-> "unsupported"],
     [holds |-> e.domains, verdict |-> "failed"],
     [holds |-> e.profile, verdict |-> "unsupported"],
     [holds |-> ManifestValid(p.manifest), verdict |-> "failed"],
     [holds |-> p.index < p.manifest.size, verdict |-> "failed"],
     [holds |-> e.count = PathLength(p.index, p.manifest.size), verdict |-> "failed"] >>
Checks(e) ==
  LET p == e.package IN
  << [holds |-> e.framed, verdict |-> "failed"],
     [holds |-> e.version = 1, verdict |-> "unsupported"],
     [holds |-> e.count <= MaxPath /\ e.count = Len(p.path), verdict |-> "failed"],
     [holds |-> e.anchors = 0, verdict |-> "unsupported"],
     [holds |-> e.profile, verdict |-> "unsupported"],
     [holds |-> e.domains, verdict |-> "failed"],
     [holds |-> ManifestValid(p.manifest), verdict |-> "failed"],
     [holds |-> p.index < p.manifest.size, verdict |-> "failed"],
     [holds |-> e.count = PathLength(p.index, p.manifest.size), verdict |-> "failed"] >>

\* The format's status: that of the first check that does not hold.
Parse(e) ==
  LET i == CHOOSE i \in 1 .. Len(Checks(e)) + 1 :
             /\ \A j \in 1 .. i - 1 : Checks(e)[j].holds
             /\ i <= Len(Checks(e)) => ~Checks(e)[i].holds
  IN IF i > Len(Checks(e)) THEN "verified" ELSE Checks(e)[i].verdict

\* Verify's report on a document, given by its digest, and an encoded package.
Status(holds) == IF holds THEN "verified" ELSE "failed"
Report(digest, e) ==
  LET p == e.package
      included == Verify(Commit(p.witness), p.index, p.manifest.size, p.path, p.manifest.root)
  IN IF Parse(e) # "verified"
     THEN [format |-> Parse(e), document |-> "unavailable",
           inclusion |-> "unavailable", anchor |-> "unavailable"]
     ELSE [format |-> "verified", document |-> Status(digest = p.witness.digest),
           inclusion |-> Status(included), anchor |-> "unavailable"]

IntegrityVerified(r) ==
  r.format = "verified" /\ r.document = "verified" /\ r.inclusion = "verified"

\* The exit code of "sigmaproof verify" once both files are open; written says that
\* the report could be printed.
ExitCode(r, offline, written) ==
  IF ~written THEN 1
  ELSE IF r.format = "unsupported" THEN 3
  ELSE IF ~IntegrityVerified(r) THEN 1
  ELSE IF ~offline THEN 3 ELSE 0
================================================================================
