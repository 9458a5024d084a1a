----------------------------- MODULE PackageHandling -----------------------------
(***************************************************************************)
(* A package is exported for a member of a batch, then passes through files *)
(* and hands that may change fields of it, and is verified.  Before anybody *)
(* touches it, the tree of the batch is examined as well.                   *)
(***************************************************************************)
EXTENDS ProofPackage

CONSTANTS Batches,          \* the batches there may be: sequences of witnesses
          DocumentDigests,  \* digests of documents a package may be verified against
          MaxTampered,      \* bound on the sizes of batches whose packages are changed
          MaxChanges,       \* bound on the fields changed
          BoundarySizes     \* sizes at which only the path length is computed

\* Nonces are random, so no two members have the same witness; batch.New takes at
\* least one commitment and at most MaxLeaves.
IsWitness(w) == w = [representation |-> w.representation, digest |-> w.digest, nonce |-> w.nonce]
ASSUME HandlingAssumption ==
  /\ \A b \in Batches :
       /\ b = [i \in 1 .. Len(b) |-> b[i]] /\ Len(b) \in 1 .. MaxManifest
       /\ \A i \in 1 .. Len(b) : IsWitness(b[i])
       /\ \A i, j \in 1 .. Len(b) : b[i] = b[j] => i = j
  /\ BoundarySizes \subseteq 2 .. MaxManifest

VARIABLES batch,      \* the witnesses of the batch, in order
          exported,   \* the package as written
          received,   \* the encoded package as read
          document,   \* the digest of the document it is verified against
          changes     \* how many fields were changed so far

handlingVars == <<batch, exported, received, document, changes>>

Entries == [i \in DOMAIN batch |-> Commit(batch[i])]

HandlingInit ==
  /\ batch \in Batches
  /\ \E i \in 0 .. Len(batch) - 1 : exported = NewPackage(batch[i + 1], Entries, i)
  /\ received = Encode(exported)
  /\ document = exported.witness.digest
  /\ changes = 0

Framing ==
  \/ received' = [received EXCEPT !.framed = FALSE]
  \/ received' = [received EXCEPT !.version = 2]
  \/ received' = [received EXCEPT !.count = @ + 1]
  \/ received' = [received EXCEPT !.anchors = 1]
  \/ received' = [received EXCEPT !.profile = FALSE]
  \/ received' = [received EXCEPT !.domains = FALSE]
Index == \E i \in 0 .. Len(batch) : received' = [received EXCEPT !.package.index = i]
Size == \E n \in 0 .. MaxTampered : received' = [received EXCEPT !.package.manifest.size = n]
Member == \E i \in DOMAIN batch : received' = [received EXCEPT !.package.witness = batch[i]]
Represented ==
  \E r \in {"original", "derived"} : received' = [received EXCEPT !.package.witness.representation = r]
Siblings == \E i \in 0 .. Len(batch) - 1 :
  LET p == Path(Entries, i) IN
  received' = [received EXCEPT !.package.path = p, !.count = Len(p)]

Change ==
  /\ changes < MaxChanges /\ Len(batch) <= MaxTampered
  /\ \/ (Framing \/ Index \/ Size \/ Member \/ Represented \/ Siblings) /\ UNCHANGED document
     \/ document' \in DocumentDigests /\ UNCHANGED received
  /\ changes' = changes + 1
  /\ UNCHANGED <<batch, exported>>

HandlingNext == Change \/ UNCHANGED handlingVars

HandlingSpec == HandlingInit /\ [][HandlingNext]_handlingVars

--------------------------------------------------------------------------------
(* The tree *)

Tree == Root(Entries)
Untouched == changes = 0

\* Paths to try: that of any leaf, whole, with a node missing, repeated at the
\* end, or with two neighbours exchanged.
Without(p, i) == SubSeq(p, 1, i - 1) \o SubSeq(p, i + 1, Len(p))
Swapped(p, i) == [p EXCEPT ![i] = p[i + 1], ![i + 1] = p[i]]
Variants(p) ==
  {p} \cup {Without(p, i) : i \in DOMAIN p}
      \cup {Append(p, p[i]) : i \in DOMAIN p}
      \cup {Swapped(p, i) : i \in 1 .. Len(p) - 1}

(* merkle.Verify accepts a leaf at a place with a path if and only if it is the
   leaf of that place and the path is the one merkle.Path computes for it: no
   truncated, extended or reordered path passes, and no other leaf. *)
VerifyExact == Untouched =>
  LET size == Len(batch) IN
  \A index \in 0 .. size - 1 : \A path \in Variants(Path(Entries, index)), at \in 0 .. size :
    Verify(Entries[index + 1], at, size, path, Tree)
      <=> at = index /\ path = Path(Entries, index)

(* merkle.Root against the definition of RFC 6962 it cites: the left subtree is
   the largest complete tree smaller than the whole. *)
Complete(n) == \E j \in 0 .. n : n = Power2(j)
LargestComplete(n) ==
  CHOOSE k \in 1 .. n - 1 : Complete(k) /\ \A j \in k + 1 .. n - 1 : ~Complete(j)
Reference(entries) ==
  LET tree[n \in Nat] == [lo \in Nat |->
        IF n = 0 THEN [empty |-> TRUE]
        ELSE IF n = 1 THEN [leaf |-> entries[lo + 1]]
        ELSE LET k == LargestComplete(n) IN
             [left |-> tree[k][lo], right |-> tree[n - k][lo + k]]]
  IN tree[Len(entries)][0]
RootIsReference == Untouched => Tree = Reference(Entries)

(* pathLength, which package.go computes on its own from index and size, is the
   length of the path merkle.Path returns, and even at the largest size a
   manifest may have it fits the nodes Parse admits. *)
PathLengthAgrees == Untouched =>
  /\ \A index \in 0 .. Len(batch) - 1 : PathLength(index, Len(batch)) = Len(Path(Entries, index))
  /\ \A n \in BoundarySizes : \A i \in {0, n \div 2 - 1, n \div 2, n - 2, n - 1} :
       PathLength(i, n) \in 1 .. MaxPath

--------------------------------------------------------------------------------
(* The package *)

(* proof.Verify reports integrity relative to a manifest, which the comments of
   batch.Manifest and merkle.Verify ask the caller to authenticate whole.  With
   the manifest of the export, integrity is reported for nothing but the package
   of some member of that batch, at the member's own place and with its own
   witness and path, and for no document but that member's. *)
VerifiedIsMember ==
  LET p == received.package IN
  p.manifest = exported.manifest /\ IntegrityVerified(Report(document, received))
    => /\ p = NewPackage(batch[p.index + 1], Entries, p.index)
       /\ document = batch[p.index + 1].digest

\* What Parse cannot decide: another version, anchors or algorithms.  It can tell as
\* soon as the bytes have the length their header announces, and of another version
\* it does not even know the length.
Foreign(e) == e.version # 1 \/ e.anchors # 0 \/ ~e.profile
Delimited(e) ==
  e.framed /\ (e.version = 1 => e.count <= MaxPath /\ e.count = Len(e.package.path))

\* The bytes read are a member's package as written, and the document is that member's.
Genuine == \E i \in 0 .. Len(batch) - 1 :
  received = Encode(NewPackage(batch[i + 1], Entries, i)) /\ document = batch[i + 1].digest

(* The exit code is the one the command's table promises, whichever fields were
   changed and in whatever combination: 3 for an unsupported feature even when
   fields the strict parsers reject were changed along with it, 1 when the report
   cannot be written or the bytes have no package's length, and otherwise, under
   the manifest of the export, 1 for everything but a member's untouched package
   with its own document, which is 0 offline and 3 where an anchor is asked for. *)
ExitCodesMean ==
  \A offline, written \in BOOLEAN :
    LET code == ExitCode(Report(document, received), offline, written) IN
    /\ ~written \/ ~Delimited(received) => code = 1
    /\ written /\ Delimited(received) /\ Foreign(received) => code = 3
    /\ written /\ Delimited(received) /\ ~Foreign(received)
         /\ received.package.manifest = exported.manifest
         => code = IF ~Genuine THEN 1 ELSE IF offline THEN 0 ELSE 3

--------------------------------------------------------------------------------
(* What every step keeps, for the proofs *)

\* A package has its fields, the witness those of a witness; its place is a number
\* and its path that of some member.
IsPackage(p) ==
  /\ p = [witness |-> p.witness, manifest |-> p.manifest, index |-> p.index, path |-> p.path]
  /\ IsWitness(p.witness)
  /\ p.manifest = [size |-> p.manifest.size, root |-> p.manifest.root]
  /\ p.index \in Nat
  /\ \E i \in 0 .. Len(batch) - 1 : p.path = Path(Entries, i)

HandlingInvariant ==
  /\ batch \in Batches
  /\ exported.manifest = NewManifest(Entries)
  /\ received = [framed |-> received.framed, version |-> received.version,
                 count |-> received.count, anchors |-> received.anchors,
                 profile |-> received.profile, domains |-> received.domains,
                 package |-> received.package]
  /\ {received.framed, received.profile, received.domains} \subseteq BOOLEAN
  /\ IsPackage(received.package)
==================================================================================
