----------------------------- MODULE EvidenceExport -----------------------------
(***************************************************************************)
(* The store together with the package format: what UnanchoredPackage      *)
(* makes of the durable records of a frozen member, as MarshalBinary writes *)
(* it and "sigmaproof verify" reads it, while further records are ingested, *)
(* batches frozen and submissions recorded.  The tree is here the real one *)
(* of Merkle, over commitments to the stored witnesses.                    *)
(***************************************************************************)
EXTENDS EvidenceStore, ProofPackage

\* A freeze takes no more records than a manifest may have (storage.MaxBatchEntries
\* and batch.MaxLeaves).
ASSUME ExportAssumption == MaxBatchEntries <= MaxManifest

MembersOf(b) == batches[b].members
MemberCommitments(b) ==
  [i \in DOMAIN MembersOf(b) |-> Commit(evidence[MembersOf(b)[i]].witness)]

\* The records an export succeeds for, and the package it returns.
Exportable(id) == id \in DOMAIN evidence /\ evidence[id].batch # NoBatch /\ PackageSound(id)
UnanchoredPackage(id) ==
  NewPackage(evidence[id].witness, MemberCommitments(evidence[id].batch), evidence[id].index)

\* The offline verdict on a document and the exported bytes of a record.
Accepts(document, id) ==
  ExitCode(Report(Digest(document), Encode(UnanchoredPackage(id))), TRUE, TRUE) = 0

--------------------------------------------------------------------------------
(* Properties *)

(* From the moment it is frozen, every record exports a package that can be
   encoded and that verifies offline for the document it was ingested with and
   for no other document. *)
ExportsProve ==
  \A id \in DOMAIN evidence : Batched(id) =>
    /\ Exportable(id)
    /\ Marshals(UnanchoredPackage(id))
    /\ \A d \in Documents : Accepts(d, id) <=> evidence[id].witness.digest = Digest(d)

(* What is handed over for submission is what the members' packages carry: an
   outbox manifest counts exactly the records that name its batch, and each of
   them exports that manifest with a place of its own in it. *)
Submitted(m) ==
  NewManifest([i \in DOMAIN m.root.leaves |-> Commit(m.root.leaves[i].commits)])
ManifestCovers ==
  \A b \in DOMAIN outbox :
    LET members == {id \in DOMAIN evidence : evidence[id].batch = b} IN
    /\ outbox[b].size = Cardinality(members)
    /\ \A id \in members : UnanchoredPackage(id).manifest = Submitted(outbox[b])
    /\ {UnanchoredPackage(id).index : id \in members} = 0 .. outbox[b].size - 1

(* A package once exported is exported again byte for byte, whatever happens to
   the store afterwards: copies customers keep never part from the service's. *)
KeepsPackages ==
  \A id \in DOMAIN evidence :
    Exportable(id) => Exportable(id)' /\ UnanchoredPackage(id)' = UnanchoredPackage(id)
ExportStable == [][KeepsPackages]_vars
================================================================================
