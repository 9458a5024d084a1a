----------------------------- MODULE EvidenceStore -----------------------------
(***************************************************************************)
(* The transactional store of internal/storage/store.go: the seven buckets *)
(* of one tenant and every write transaction on them.  bbolt runs write    *)
(* transactions one at a time and makes each durable as a whole when it    *)
(* commits, so a transaction that commits is one action and one that       *)
(* returns an error leaves no trace: errors are the negated guards.        *)
(* Buckets are functions whose domain is the set of keys present.          *)
(***************************************************************************)
EXTENDS Integers, Sequences, FiniteSets

CONSTANTS EvidenceIDs,      \* 128-bit random names of evidence records
          BatchIDs,         \* 128-bit random names of batches, ordered as the outbox cursor orders them
          IdempotencyKeys,  \* the caller's ingestion keys
          RequestKeys,      \* the caller's freeze keys
          Sources,          \* (instance, object, version) triples
          Representations,  \* original, derived
          Documents,        \* contents of documents
          Nonces,           \* 256-bit random commitment nonces
          References,       \* opaque provider references
          NoBatch,          \* the empty BatchID of evidence not yet frozen
          NoReference,      \* the empty SubmissionRef
          MaxSequence,      \* the last value of a bucket's 64-bit sequence
          MaxBatchEntries   \* the largest limit of one freeze

ASSUME StoreAssumption ==
  /\ BatchIDs \subseteq Nat
  /\ NoBatch \notin BatchIDs
  /\ MaxSequence \in Nat
  /\ MaxBatchEntries \in Nat \ {0}

VARIABLES tenant,     \* the tenant's bucket has been created
          evidence,   \* id -> evidence record
          keys,       \* idempotency key -> evidence id
          sources,    \* (source, representation) -> evidence id
          pending,    \* sequence number -> id of evidence not yet frozen
          sequence,   \* bbolt's sequence counter of the evidence bucket
          batches,    \* id -> frozen batch
          batchKeys,  \* freeze request key -> batch id
          outbox      \* batch id -> manifest still to be submitted

vars == <<tenant, evidence, keys, sources, pending, sequence, batches, batchKeys, outbox>>

--------------------------------------------------------------------------------
(* Records *)

SubmissionStates == {"not_submitted", "unknown", "submitted"}
SourceKeys == Sources \X Representations

\* Digest, Compute and Manifest stand for SHA-256, commitments and Merkle roots:
\* free constructors, so equal hashes have equal preimages.
Digest(d) == [sha256 |-> d]
Digests == [sha256 : Documents]
Witnesses == [representation : Representations, digest : Digests, nonce : Nonces]
Limits == 1 .. MaxBatchEntries
Compute(w) == [commits |-> w]
Commitments == [commits : Witnesses]
Manifest(cs) == [size |-> Len(cs), root |-> [leaves |-> cs]]
Manifests == [size : Nat, root : [leaves : Seq(Commitments)]]

Evidence == [sequence : 1 .. MaxSequence, source : Sources, witness : Witnesses,
             batch : BatchIDs \cup {NoBatch}, index : Nat]
FrozenBatch == [limit : Limits, manifest : Manifests, members : Seq(EvidenceIDs),
                state : SubmissionStates, ref : References \cup {NoReference}]

\* The source index tells the representations of one source apart.
SourceKey(source, representation) == <<source, representation>>
Keyed(e) == SourceKey(e.source, e.witness.representation)

--------------------------------------------------------------------------------
(* Buckets *)

EmptyBucket == [k \in {} |-> k]
Put(bucket, k, v) == [x \in DOMAIN bucket \cup {k} |-> IF x = k THEN v ELSE bucket[x]]
Delete_Forgotten(bucket, ks) == bucket
Delete(bucket, ks) == [x \in DOMAIN bucket \ ks |-> bucket[x]]
NewID_Unchecked(ids, bucket) == ids
NewID(ids, bucket) == ids \ DOMAIN bucket
IsBucket(f, K, V) == /\ DOMAIN f \subseteq K
                     /\ f \in [DOMAIN f -> V]

Init ==
  /\ tenant = FALSE
  /\ evidence = EmptyBucket
  /\ keys = EmptyBucket
  /\ sources = EmptyBucket
  /\ pending = EmptyBucket
  /\ sequence = 0
  /\ batches = EmptyBucket
  /\ batchKeys = EmptyBucket
  /\ outbox = EmptyBucket

--------------------------------------------------------------------------------
(* Ingestion *)

\* The record a request resolves to, as a set of at most one id: its
\* idempotency key decides, and only an unused key falls back on the source.
Lookup_KeyOnly(key, sk) == IF key \in DOMAIN keys THEN {keys[key]} ELSE {}
Lookup_SourceFirst(key, sk) ==
  IF sk \in DOMAIN sources THEN {sources[sk]}
  ELSE IF key \in DOMAIN keys THEN {keys[key]} ELSE {}
Lookup(key, sk) ==
  IF key \in DOMAIN keys THEN {keys[key]}
  ELSE IF sk \in DOMAIN sources THEN {sources[sk]} ELSE {}

\* A first ingestion takes a fresh id and the next sequence number, and files
\* the record under its key, its source and the pending queue at once.
IngestCreate(key, source, w) ==
  LET sk == SourceKey(source, w.representation) IN
  /\ Lookup(key, sk) = {}
  /\ sequence < MaxSequence
  /\ \E id \in NewID(EvidenceIDs, evidence) :
       /\ evidence' = Put(evidence, id,
            [sequence |-> sequence + 1, source |-> source, witness |-> w,
             batch |-> NoBatch, index |-> 0])
       /\ keys' = Put(keys, key, id)
       /\ sources' = Put(sources, sk, id)
       /\ pending' = Put(pending, sequence + 1, id)
  /\ sequence' = sequence + 1
  /\ tenant' = TRUE
  /\ UNCHANGED <<batches, batchKeys, outbox>>

\* A repetition with the same source and witness answers the record and files
\* it under the request's key too.
IngestExisting(key, source, w) ==
  /\ \E id \in Lookup(key, SourceKey(source, w.representation)) :
       /\ id \in DOMAIN evidence
       /\ evidence[id].source = source
       /\ evidence[id].witness = w
       /\ keys' = Put(keys, key, id)
  /\ UNCHANGED <<tenant, evidence, sources, pending, sequence, batches, batchKeys, outbox>>

\* The requests Ingest refuses with ErrConflict.
IngestConflict(key, source, w) ==
  \E id \in Lookup(key, SourceKey(source, w.representation)) :
    evidence[id].source # source \/ evidence[id].witness # w

Ingest(key, source, w) == IngestCreate(key, source, w) \/ IngestExisting(key, source, w)

--------------------------------------------------------------------------------
(* Freezing *)

\* The pending cursor runs in sequence order; Position counts what it has passed.
Position_NewestFirst(s) == Cardinality({r \in DOMAIN pending : r > s})
Position(s) == Cardinality({r \in DOMAIN pending : r < s})
Scanned_OneMore(limit) == {s \in DOMAIN pending : Position(s) <= limit}
Scanned_Unlimited(limit) == DOMAIN pending
Scanned(limit) == {s \in DOMAIN pending : Position(s) < limit}
EntryAt_Stuck(i) == CHOOSE s \in DOMAIN pending : Position(s) = 0
EntryAt(i) == CHOOSE s \in DOMAIN pending : Position(s) = i
Members(limit) == [i \in 1 .. Cardinality(Scanned(limit)) |-> pending[EntryAt(i - 1)]]

\* What the scan checks of every entry before it uses it; ErrCorrupt otherwise.
ScanSound(limit) ==
  \A s \in Scanned(limit) :
    /\ pending[s] \in DOMAIN evidence
    /\ evidence[pending[s]].sequence = s
    /\ evidence[pending[s]].batch = NoBatch

\* A new request key freezes the oldest pending records, at most limit of them.
FreezeNew(key, limit) ==
  /\ tenant
  /\ key \notin DOMAIN batchKeys
  /\ DOMAIN pending # {}
  /\ ScanSound(limit)
  /\ LET members == Members(limit)
         manifest == Manifest([i \in DOMAIN members |-> Compute(evidence[members[i]].witness)])
         chosen == {pending[s] : s \in Scanned(limit)}
     IN \E b \in NewID(BatchIDs, batches) :
          /\ evidence' = [id \in DOMAIN evidence |->
               IF id \in chosen
               THEN [evidence[id] EXCEPT !.batch = b, !.index = Position(evidence[id].sequence)]
               ELSE evidence[id]]
          /\ pending' = Delete(pending, Scanned(limit))
          /\ batches' = Put(batches, b,
               [limit |-> limit, manifest |-> manifest, members |-> members,
                state |-> "not_submitted", ref |-> NoReference])
          /\ batchKeys' = Put(batchKeys, key, b)
          /\ outbox' = Put(outbox, b, manifest)
  /\ UNCHANGED <<tenant, keys, sources, sequence>>

\* What frozen checks of a batch whenever it is read; ErrCorrupt otherwise.
FrozenSound(b) ==
  /\ Len(batches[b].members) <= batches[b].limit
  /\ Len(batches[b].members) = batches[b].manifest.size

\* A repeated freeze answers its batch and writes nothing; another limit conflicts.
FreezeExisting(key, limit) ==
  /\ tenant
  /\ key \in DOMAIN batchKeys
  /\ FrozenSound(batchKeys[key])
  /\ batches[batchKeys[key]].limit = limit
  /\ UNCHANGED vars

--------------------------------------------------------------------------------
(* Submission progress *)

Regresses_Never(b, state) == FALSE
Regresses(b, state) == batches[b].state = "submitted" /\ state # "submitted"
LeavesOutbox_Unknown(state) == state # "not_submitted"
LeavesOutbox(state) == state = "submitted"

\* The outbox entry is dropped by "submitted" and rewritten by every other state.
RecordSubmission(b, state, ref) ==
  /\ tenant
  /\ b \in DOMAIN batches
  /\ FrozenSound(b)
  /\ ~Regresses(b, state)
  /\ batches' = [batches EXCEPT ![b].state = state, ![b].ref = ref]
  /\ outbox' = IF LeavesOutbox(state) THEN Delete(outbox, {b})
                                      ELSE Put(outbox, b, batches[b].manifest)
  /\ UNCHANGED <<tenant, evidence, keys, sources, pending, sequence, batchKeys>>

Next ==
  \/ \E key \in IdempotencyKeys, source \in Sources, w \in Witnesses : Ingest(key, source, w)
  \/ \E key \in RequestKeys, limit \in Limits : FreezeNew(key, limit) \/ FreezeExisting(key, limit)
  \/ \E b \in BatchIDs, state \in SubmissionStates, ref \in References \cup {NoReference} :
       RecordSubmission(b, state, ref)

Spec == Init /\ [][Next]_vars

--------------------------------------------------------------------------------
(* Reads *)

\* The first entries of the outbox in the order of their batch ids.
OutboxPage_Untried(limit) ==
  {b \in DOMAIN outbox : batches[b].state = "not_submitted" /\ Cardinality({c \in DOMAIN outbox : c < b}) < limit}
OutboxPage(limit) ==
  {b \in DOMAIN outbox : Cardinality({c \in DOMAIN outbox : c < b}) < limit}

\* The checks Outbox makes of an entry before it lists it.
ListingSound(b) ==
  /\ b \in DOMAIN batches
  /\ FrozenSound(b)
  /\ outbox[b] = batches[b].manifest

\* The checks UnanchoredPackage makes of a frozen record before it exports it:
\* the record's place in its batch, each member's back reference, the root.
PackageSound(id) ==
  LET e == evidence[id]
      b == batches[e.batch]
  IN /\ e.batch \in DOMAIN batches
     /\ FrozenSound(e.batch)
     /\ e.index < Len(b.members)
     /\ b.members[e.index + 1] = id
     /\ \A i \in DOMAIN b.members :
          /\ b.members[i] \in DOMAIN evidence
          /\ evidence[b.members[i]].batch = e.batch
          /\ evidence[b.members[i]].index = i - 1
     /\ b.manifest = Manifest([i \in DOMAIN b.members |-> Compute(evidence[b.members[i]].witness)])

--------------------------------------------------------------------------------
(* Properties *)

Batched(id) == evidence[id].batch # NoBatch

(* Every bucket holds records of its type under keys of its type. *)
TypeOK ==
  /\ tenant \in BOOLEAN
  /\ IsBucket(evidence, EvidenceIDs, Evidence)
  /\ IsBucket(keys, IdempotencyKeys, EvidenceIDs)
  /\ IsBucket(sources, SourceKeys, EvidenceIDs)
  /\ IsBucket(pending, 1 .. MaxSequence, EvidenceIDs)
  /\ sequence \in 0 .. MaxSequence
  /\ IsBucket(batches, BatchIDs, FrozenBatch)
  /\ IsBucket(batchKeys, RequestKeys, BatchIDs)
  /\ IsBucket(outbox, BatchIDs, Manifests)

(* ingest's two indexes never part from the records: a source has one record,
   filed under it, and every idempotency key names a record that exists, so no
   request can be lost between an index and the evidence bucket. *)
IndexesAgree ==
  /\ \A sk \in DOMAIN sources : sources[sk] \in DOMAIN evidence /\ Keyed(evidence[sources[sk]]) = sk
  /\ \A id \in DOMAIN evidence : Keyed(evidence[id]) \in DOMAIN sources /\ sources[Keyed(evidence[id])] = id
  /\ \A key \in DOMAIN keys : keys[key] \in DOMAIN evidence

(* ingest numbers records 1, 2, ... without a gap or a repetition, and freeze
   takes from the queue exactly what it puts into a batch: a record waits in
   the queue, under its own number, or has a batch, never both or neither. *)
PendingOrBatched ==
  /\ {evidence[id].sequence : id \in DOMAIN evidence} = 1 .. sequence
  /\ \A id1, id2 \in DOMAIN evidence : evidence[id1].sequence = evidence[id2].sequence => id1 = id2
  /\ \A s \in DOMAIN pending : pending[s] \in DOMAIN evidence /\ evidence[pending[s]].sequence = s
  /\ \A id \in DOMAIN evidence : Batched(id) <=> evidence[id].sequence \notin DOMAIN pending

(* Freezing is first come, first served: whatever was batched is older than
   whatever still waits, and the members of a batch are consecutive. *)
FreezeOrder ==
  /\ \A id \in DOMAIN evidence, s \in DOMAIN pending : Batched(id) => evidence[id].sequence < s
  /\ \A b \in DOMAIN batches : \A i \in 1 .. Len(batches[b].members) - 1 :
       evidence[batches[b].members[i + 1]].sequence = evidence[batches[b].members[i]].sequence + 1

(* The outbox is exactly the batches not known to be submitted, each with the
   manifest it was frozen with: no work is lost, none is done twice over. *)
OutboxExact ==
  /\ DOMAIN outbox = {b \in DOMAIN batches : batches[b].state # "submitted"}
  /\ \A b \in DOMAIN outbox : outbox[b] = batches[b].manifest

(* The consistency checks of freeze, RecordSubmission, Outbox, Batch and
   UnanchoredPackage never fire: no sequence of legal calls makes any of them
   report ErrCorrupt. *)
NeverCorrupt ==
  /\ \A limit \in Limits : ScanSound(limit) /\ \A b \in OutboxPage(limit) : ListingSound(b)
  /\ \A b \in DOMAIN batches : FrozenSound(b)
  /\ \A id \in DOMAIN evidence : Batched(id) => PackageSound(id)

(* What a record commits to is written once: a step never drops a record, never
   changes its number, source or witness, and never moves it out of a batch. *)
KeepsEvidence ==
  \A id \in DOMAIN evidence :
    /\ id \in DOMAIN evidence'
    /\ evidence'[id].sequence = evidence[id].sequence
    /\ evidence'[id].source = evidence[id].source
    /\ evidence'[id].witness = evidence[id].witness
    /\ Batched(id) => evidence'[id] = evidence[id]
EvidenceImmutable == [][KeepsEvidence]_vars

(* A freeze is answered once and for all: its request key keeps its batch and
   the batch keeps its limit, members and exact manifest, whatever is recorded
   of its submission; and "submitted" is never taken back. *)
KeepsFreezes ==
  /\ \A key \in DOMAIN batchKeys : key \in DOMAIN batchKeys' /\ batchKeys'[key] = batchKeys[key]
  /\ \A b \in DOMAIN batches :
       /\ b \in DOMAIN batches'
       /\ batches'[b].limit = batches[b].limit
       /\ batches'[b].members = batches[b].members
       /\ batches'[b].manifest = batches[b].manifest
       /\ batches[b].state = "submitted" => batches'[b].state = "submitted"
FreezeImmutable == [][KeepsFreezes]_vars

(* An idempotency key is bound once: it never moves to another record. *)
KeepsKeys == \A key \in DOMAIN keys : key \in DOMAIN keys' /\ keys'[key] = keys[key]
KeysStable == [][KeepsKeys]_vars

(* The queue is the tail of the numbers given out: freezing takes from its
   front and ingestion adds at its end. *)
QueueIsTail == \E head \in 0 .. sequence : DOMAIN pending = head + 1 .. sequence

(* A batch and its members name each other: each member of a batch carries the
   batch and its place in it, each frozen record is at its place in its batch,
   and the manifest commits to the members in that order. *)
BatchesSound ==
  /\ \A b \in DOMAIN batches :
       LET members == batches[b].members IN
       /\ Len(members) \in 1 .. batches[b].limit
       /\ \A i \in 1 .. Len(members) :
            /\ members[i] \in DOMAIN evidence
            /\ evidence[members[i]].batch = b
            /\ evidence[members[i]].index = i - 1
       /\ batches[b].manifest =
            Manifest([i \in 1 .. Len(members) |-> Compute(evidence[members[i]].witness)])
  /\ \A id \in DOMAIN evidence : Batched(id) =>
       /\ evidence[id].batch \in DOMAIN batches
       /\ evidence[id].index < Len(batches[evidence[id].batch].members)
       /\ batches[evidence[id].batch].members[evidence[id].index + 1] = id

\* Request keys and batches name each other.
KeysNameBatches ==
  /\ \A key \in DOMAIN batchKeys : batchKeys[key] \in DOMAIN batches
  /\ \A b \in DOMAIN batches : \E key \in DOMAIN batchKeys : batchKeys[key] = b
  /\ \A key1, key2 \in DOMAIN batchKeys : batchKeys[key1] = batchKeys[key2] => key1 = key2

(* The inductive invariant: every property above follows from it, and every
   transaction of ingest, freeze and RecordSubmission preserves it. *)
StoreInvariant ==
  /\ TypeOK
  /\ IndexesAgree
  /\ PendingOrBatched
  /\ FreezeOrder
  /\ OutboxExact
  /\ QueueIsTail
  /\ BatchesSound

--------------------------------------------------------------------------------
(* The store implements the ledger *)

\* The record numbered n, and the interval of numbers a batch holds.
Numbered(n) == CHOOSE id \in DOMAIN evidence : evidence[id].sequence = n
Interval(b) ==
  [first   |-> evidence[b.members[1]].sequence,
   last    |-> evidence[b.members[Len(b.members)]].sequence,
   limit   |-> b.limit,
   settled |-> b.state = "submitted"]

Ledger == INSTANCE EvidenceLedger WITH
  MaxSize <- MaxSequence,
  MaxCut <- MaxBatchEntries,
  log <- [n \in 1 .. sequence |->
            [about |-> Keyed(evidence[Numbered(n)]), witness |-> evidence[Numbered(n)].witness]],
  head <- sequence - Cardinality(DOMAIN pending),
  cuts <- [key \in DOMAIN batchKeys |-> Interval(batches[batchKeys[key]])]

(* Every run of the store is a run of the ledger: one entry per source, cut in
   order, each cut as large as its limit and the queue allow, and permanent. *)
ImplementsLedger == Ledger!Spec
================================================================================
