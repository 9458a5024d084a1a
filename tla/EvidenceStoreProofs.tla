-------------------------- MODULE EvidenceStoreProofs --------------------------
(***************************************************************************)
(* Machine-checked proofs about EvidenceStore, for every value of its      *)
(* constants.                                                              *)
(***************************************************************************)
EXTENDS EvidenceStore, FiniteSetTheorems, TLAPS

--------------------------------------------------------------------------------
(* Buckets *)

(* The empty bucket is a bucket of any type. *)
LEMMA EmptyIsBucket ==
  ASSUME NEW K, NEW V
  PROVE  IsBucket(EmptyBucket, K, V) /\ DOMAIN EmptyBucket = {}
BY DEF IsBucket, EmptyBucket

--------------------------------------------------------------------------------
(* The pending cursor *)

(* How many numbers an interval holds. *)
LEMMA IntervalSize ==
  ASSUME NEW a \in Int, NEW b \in Int, a <= b + 1
  PROVE  Cardinality(a .. b) = b - a + 1
<1>1. Cardinality(a .. b) = IF a > b THEN 0 ELSE b - a + 1
  BY FS_Interval, Zenon
<1> QED BY <1>1

(* The cursor's position in a queue that is an interval is the distance from
   its start. *)
LEMMA PositionInInterval ==
  ASSUME NEW head \in Nat, NEW n \in Nat, DOMAIN pending = head + 1 .. n,
         NEW s \in DOMAIN pending
  PROVE  Position(s) = s - head - 1
<1>1. {r \in DOMAIN pending : r < s} = head + 1 .. s - 1
  OBVIOUS
<1>2. Cardinality(head + 1 .. s - 1) = s - head - 1
  <2>1. head + 1 \in Int /\ s - 1 \in Int /\ head + 1 <= s
    OBVIOUS
  <2>2. Cardinality(head + 1 .. s - 1) = (s - 1) - (head + 1) + 1
    BY <2>1, IntervalSize
  <2> QED BY <2>1, <2>2
<1> QED BY <1>1, <1>2 DEF Position

(* How many entries a freeze of at most limit takes from a queue of n - head. *)
Taken(head, n, limit) == IF head + limit <= n THEN limit ELSE n - head

(* A freeze takes the first entries of the queue, in order. *)
LEMMA ScanInterval ==
  ASSUME NEW head \in Nat, NEW n \in Nat, DOMAIN pending = head + 1 .. n, head <= n,
         NEW limit \in Nat \ {0}
  PROVE  LET m == Taken(head, n, limit) IN
         /\ m \in 0 .. limit /\ head + m <= n /\ (head < n => m > 0)
         /\ Scanned(limit) = head + 1 .. head + m
         /\ Members(limit) = [i \in 1 .. m |-> pending[head + i]]
<1> DEFINE m == Taken(head, n, limit)
<1>1. m \in 0 .. limit /\ head + m <= n /\ (head < n => m > 0)
  BY DEF Taken
<1>2. Scanned(limit) = head + 1 .. head + m
  <2>1. \A s \in DOMAIN pending : Position(s) = s - head - 1
    BY PositionInInterval
  <2> QED BY <2>1 DEF Scanned, Taken
<1>3. Cardinality(Scanned(limit)) = m
  <2>1. head + 1 \in Int /\ head + m \in Int /\ head + 1 <= head + m + 1
    BY <1>1
  <2> HIDE DEF m
  <2>2. Cardinality(head + 1 .. head + m) = (head + m) - (head + 1) + 1
    BY <2>1, IntervalSize
  <2> QED BY <1>1, <1>2, <2>2
<1>4. \A i \in 1 .. m : EntryAt(i - 1) = head + i
  <2> SUFFICES ASSUME NEW i \in 1 .. m
               PROVE  EntryAt(i - 1) = head + i
    OBVIOUS
  <2> HIDE DEF m
  <2>1. head + i \in DOMAIN pending
    BY <1>1
  <2>2. \A s \in DOMAIN pending : Position(s) = s - head - 1
    BY PositionInInterval
  <2>3. \A s \in DOMAIN pending : Position(s) = i - 1 <=> s = head + i
    BY <2>2, <1>1
  <2> QED BY <2>1, <2>3 DEF EntryAt
<1>5. Members(limit) = [i \in 1 .. m |-> pending[head + i]]
  <2> HIDE DEF m
  <2> QED BY <1>3, <1>4 DEF Members
<1> QED BY <1>1, <1>2, <1>5
--------------------------------------------------------------------------------
(* The invariant holds at first *)

(* An empty database satisfies the invariant. *)
LEMMA InitInvariant == Init => StoreInvariant
<1> SUFFICES ASSUME Init PROVE StoreInvariant
  OBVIOUS
<1> USE EmptyIsBucket DEF Init
<1>1. TypeOK
  <2>1. /\ IsBucket(evidence, EvidenceIDs, Evidence)
        /\ IsBucket(keys, IdempotencyKeys, EvidenceIDs)
        /\ IsBucket(sources, SourceKeys, EvidenceIDs)
        /\ IsBucket(pending, 1 .. MaxSequence, EvidenceIDs)
        /\ IsBucket(batches, BatchIDs, FrozenBatch)
        /\ IsBucket(batchKeys, RequestKeys, BatchIDs)
        /\ IsBucket(outbox, BatchIDs, Manifests)
    BY Zenon
  <2>2. tenant \in BOOLEAN
    BY Zenon
  <2>3. sequence \in 0 .. MaxSequence
    BY StoreAssumption
  <2> QED BY <2>1, <2>2, <2>3, Zenon DEF TypeOK
<1>2. IndexesAgree /\ FreezeOrder /\ OutboxExact /\ BatchesSound
  BY DEF IndexesAgree, FreezeOrder, OutboxExact, BatchesSound
<1>3. PendingOrBatched
  BY DEF PendingOrBatched
<1>4. QueueIsTail
  <2>1. DOMAIN pending = 0 + 1 .. sequence /\ 0 \in 0 .. sequence
    OBVIOUS
  <2> QED BY <2>1 DEF QueueIsTail
<1> QED BY <1>1, <1>2, <1>3, <1>4 DEF StoreInvariant

--------------------------------------------------------------------------------
(* Ingestion preserves it *)

(* What a first ingestion does to each bucket. *)
LEMMA CreateEffect ==
  ASSUME TypeOK,
         NEW key \in IdempotencyKeys, NEW source \in Sources, NEW w \in Witnesses,
         IngestCreate(key, source, w)
  PROVE  \E id \in EvidenceIDs \ DOMAIN evidence :
           LET sk == SourceKey(source, w.representation)
               n == sequence + 1
           IN /\ n \in 1 .. MaxSequence /\ sk \in SourceKeys /\ sequence' = n
              /\ sk \notin DOMAIN sources /\ key \notin DOMAIN keys
              /\ IsBucket(evidence', EvidenceIDs, Evidence)
              /\ DOMAIN evidence' = DOMAIN evidence \cup {id}
              /\ evidence'[id] = [sequence |-> n, source |-> source, witness |-> w,
                                  batch |-> NoBatch, index |-> 0]
              /\ \A x \in DOMAIN evidence : evidence'[x] = evidence[x]
              /\ IsBucket(keys', IdempotencyKeys, EvidenceIDs)
              /\ DOMAIN keys' = DOMAIN keys \cup {key}
              /\ keys'[key] = id
              /\ \A x \in DOMAIN keys : keys'[x] = keys[x]
              /\ IsBucket(sources', SourceKeys, EvidenceIDs)
              /\ DOMAIN sources' = DOMAIN sources \cup {sk}
              /\ sources'[sk] = id
              /\ \A x \in DOMAIN sources : sources'[x] = sources[x]
              /\ IsBucket(pending', 1 .. MaxSequence, EvidenceIDs)
              /\ DOMAIN pending' = DOMAIN pending \cup {n}
              /\ pending'[n] = id
              /\ \A x \in DOMAIN pending : x # n => pending'[x] = pending[x]
<1> DEFINE sk == SourceKey(source, w.representation)
           n == sequence + 1
           rec == [sequence |-> n, source |-> source, witness |-> w,
                   batch |-> NoBatch, index |-> 0]
<1>1. n \in 1 .. MaxSequence /\ sk \in SourceKeys /\ sequence' = n
  BY StoreAssumption DEF TypeOK, IngestCreate, SourceKey, SourceKeys, Witnesses
<1>2. sk \notin DOMAIN sources /\ key \notin DOMAIN keys
  BY DEF IngestCreate, Lookup
<1>3. PICK id \in EvidenceIDs \ DOMAIN evidence :
        /\ evidence' = Put(evidence, id, rec)
        /\ keys' = Put(keys, key, id)
        /\ sources' = Put(sources, sk, id)
        /\ pending' = Put(pending, n, id)
  BY DEF IngestCreate, NewID
<1>4. rec \in Evidence
  BY <1>1 DEF Evidence
<1>5. /\ IsBucket(evidence, EvidenceIDs, Evidence)
      /\ IsBucket(keys, IdempotencyKeys, EvidenceIDs)
      /\ IsBucket(sources, SourceKeys, EvidenceIDs)
      /\ IsBucket(pending, 1 .. MaxSequence, EvidenceIDs)
  BY DEF TypeOK
<1> HIDE DEF n, rec, sk
<1>6. /\ IsBucket(evidence', EvidenceIDs, Evidence)
      /\ DOMAIN evidence' = DOMAIN evidence \cup {id}
      /\ evidence'[id] = rec
      /\ \A x \in DOMAIN evidence : x # id => evidence'[x] = evidence[x]
  BY <1>3, <1>4, <1>5 DEF IsBucket, Put
<1>7. /\ IsBucket(keys', IdempotencyKeys, EvidenceIDs)
      /\ DOMAIN keys' = DOMAIN keys \cup {key}
      /\ keys'[key] = id
      /\ \A x \in DOMAIN keys : x # key => keys'[x] = keys[x]
  BY <1>3, <1>5 DEF IsBucket, Put
<1>8. /\ IsBucket(sources', SourceKeys, EvidenceIDs)
      /\ DOMAIN sources' = DOMAIN sources \cup {sk}
      /\ sources'[sk] = id
      /\ \A x \in DOMAIN sources : x # sk => sources'[x] = sources[x]
  BY <1>1, <1>3, <1>5 DEF IsBucket, Put
<1>9. /\ IsBucket(pending', 1 .. MaxSequence, EvidenceIDs)
      /\ DOMAIN pending' = DOMAIN pending \cup {n}
      /\ pending'[n] = id
      /\ \A x \in DOMAIN pending : x # n => pending'[x] = pending[x]
  BY <1>1, <1>3, <1>5 DEF IsBucket, Put
<1> QED BY <1>1, <1>2, <1>6, <1>7, <1>8, <1>9 DEF n, rec, sk

(* A first ingestion preserves the invariant. *)
LEMMA CreateInvariant ==
  ASSUME StoreInvariant,
         NEW key \in IdempotencyKeys, NEW source \in Sources, NEW w \in Witnesses,
         IngestCreate(key, source, w)
  PROVE  StoreInvariant'
<1> DEFINE sk == SourceKey(source, w.representation)
           n == sequence + 1
<1>1. TypeOK /\ IndexesAgree /\ PendingOrBatched /\ FreezeOrder
      /\ OutboxExact /\ QueueIsTail /\ BatchesSound
  BY DEF StoreInvariant
<1>2. PICK id \in EvidenceIDs \ DOMAIN evidence :
              /\ n \in 1 .. MaxSequence /\ sk \in SourceKeys /\ sequence' = n
              /\ sk \notin DOMAIN sources /\ key \notin DOMAIN keys
              /\ IsBucket(evidence', EvidenceIDs, Evidence)
              /\ DOMAIN evidence' = DOMAIN evidence \cup {id}
              /\ evidence'[id] = [sequence |-> n, source |-> source, witness |-> w,
                                  batch |-> NoBatch, index |-> 0]
              /\ \A x \in DOMAIN evidence : evidence'[x] = evidence[x]
              /\ IsBucket(keys', IdempotencyKeys, EvidenceIDs)
              /\ DOMAIN keys' = DOMAIN keys \cup {key}
              /\ keys'[key] = id
              /\ \A x \in DOMAIN keys : keys'[x] = keys[x]
              /\ IsBucket(sources', SourceKeys, EvidenceIDs)
              /\ DOMAIN sources' = DOMAIN sources \cup {sk}
              /\ sources'[sk] = id
              /\ \A x \in DOMAIN sources : sources'[x] = sources[x]
              /\ IsBucket(pending', 1 .. MaxSequence, EvidenceIDs)
              /\ DOMAIN pending' = DOMAIN pending \cup {n}
              /\ pending'[n] = id
              /\ \A x \in DOMAIN pending : x # n => pending'[x] = pending[x]
  BY <1>1, CreateEffect
<1>3. tenant' = TRUE /\ batches' = batches /\ batchKeys' = batchKeys /\ outbox' = outbox
  BY DEF IngestCreate
<1>4. PICK head \in 0 .. sequence : DOMAIN pending = head + 1 .. sequence
  BY <1>1 DEF QueueIsTail
<1>5. sequence \in Nat /\ n = sequence + 1
  BY <1>1, StoreAssumption DEF TypeOK
<1>6. \A x \in DOMAIN evidence : evidence[x].sequence \in 1 .. sequence
  BY <1>1 DEF PendingOrBatched
<1> HIDE DEF n
<1>7. TypeOK'
  BY <1>1, <1>2, <1>3 DEF TypeOK
<1>8. IndexesAgree'
  <2>1. Keyed(evidence'[id]) = sk
    BY <1>2 DEF Keyed
  <2>2. \A x \in DOMAIN evidence : Keyed(evidence'[x]) = Keyed(evidence[x])
    BY <1>2
  <2> HIDE DEF sk
  <2> QED BY <1>1, <1>2, <2>1, <2>2 DEF IndexesAgree
<1>9. PendingOrBatched'
  <2>1. {evidence'[x].sequence : x \in DOMAIN evidence'} = 1 .. sequence'
    <3>1. {evidence[x].sequence : x \in DOMAIN evidence} = 1 .. sequence
      BY <1>1 DEF PendingOrBatched
    <3>2. 1 .. sequence' = (1 .. sequence) \cup {n}
      BY <1>2, <1>5
    <3> QED BY <1>2, <3>1, <3>2
  <2>2. \A id1, id2 \in DOMAIN evidence' :
          evidence'[id1].sequence = evidence'[id2].sequence => id1 = id2
    BY <1>1, <1>2, <1>5, <1>6 DEF PendingOrBatched
  <2>3. \A s \in DOMAIN pending' :
          pending'[s] \in DOMAIN evidence' /\ evidence'[pending'[s]].sequence = s
    BY <1>1, <1>2 DEF PendingOrBatched
  <2>4. \A x \in DOMAIN evidence' : Batched(x)' <=> evidence'[x].sequence \notin DOMAIN pending'
    BY <1>1, <1>2, <1>5, <1>6 DEF PendingOrBatched, Batched
  <2> QED BY <2>1, <2>2, <2>3, <2>4 DEF PendingOrBatched
<1>10. FreezeOrder'
  <2>1. \A x \in DOMAIN evidence', s \in DOMAIN pending' : Batched(x)' => evidence'[x].sequence < s
    BY <1>1, <1>2, <1>5, <1>6 DEF FreezeOrder, Batched
  <2>2. \A b \in DOMAIN batches' : \A i \in 1 .. Len(batches'[b].members) - 1 :
          evidence'[batches'[b].members[i + 1]].sequence = evidence'[batches'[b].members[i]].sequence + 1
    <3> SUFFICES ASSUME NEW b \in DOMAIN batches, NEW i \in 1 .. Len(batches[b].members) - 1
                 PROVE  evidence'[batches[b].members[i + 1]].sequence
                          = evidence'[batches[b].members[i]].sequence + 1
      BY <1>3
    <3>1. Len(batches[b].members) \in Nat
      BY <1>1 DEF TypeOK, IsBucket, FrozenBatch
    <3>2. i \in 1 .. Len(batches[b].members) /\ i + 1 \in 1 .. Len(batches[b].members)
      BY <3>1
    <3>3. batches[b].members[i] \in DOMAIN evidence /\ batches[b].members[i + 1] \in DOMAIN evidence
      BY <1>1, <3>2 DEF BatchesSound
    <3> QED BY <1>1, <1>2, <3>3 DEF FreezeOrder
  <2> QED BY <2>1, <2>2 DEF FreezeOrder
<1>11. OutboxExact'
  BY <1>1, <1>3 DEF OutboxExact
<1>12. QueueIsTail'
  <2>1. DOMAIN pending' = head + 1 .. sequence' /\ head \in 0 .. sequence'
    BY <1>2, <1>4, <1>5
  <2> QED BY <2>1 DEF QueueIsTail
<1>13. BatchesSound'
  <2>1. ASSUME NEW b \in DOMAIN batches
        PROVE  LET members == batches[b].members IN
               /\ Len(members) \in 1 .. batches[b].limit
               /\ \A i \in 1 .. Len(members) :
                    /\ members[i] \in DOMAIN evidence'
                    /\ evidence'[members[i]].batch = b
                    /\ evidence'[members[i]].index = i - 1
               /\ batches[b].manifest =
                    Manifest([i \in 1 .. Len(members) |-> Compute(evidence'[members[i]].witness)])
    <3> DEFINE members == batches[b].members
    <3>1. /\ Len(members) \in 1 .. batches[b].limit
          /\ \A i \in 1 .. Len(members) :
               /\ members[i] \in DOMAIN evidence
               /\ evidence[members[i]].batch = b
               /\ evidence[members[i]].index = i - 1
          /\ batches[b].manifest =
               Manifest([i \in 1 .. Len(members) |-> Compute(evidence[members[i]].witness)])
      BY <1>1 DEF BatchesSound
    <3> HIDE DEF members
    <3>2. \A i \in 1 .. Len(members) : evidence'[members[i]] = evidence[members[i]]
      BY <1>2, <3>1
    <3>3. [i \in 1 .. Len(members) |-> Compute(evidence'[members[i]].witness)]
            = [i \in 1 .. Len(members) |-> Compute(evidence[members[i]].witness)]
      BY <3>2
    <3> QED BY <1>2, <3>1, <3>2, <3>3 DEF members
  <2>2. ASSUME NEW x \in DOMAIN evidence', Batched(x)'
        PROVE  /\ evidence'[x].batch \in DOMAIN batches
               /\ evidence'[x].index < Len(batches[evidence'[x].batch].members)
               /\ batches[evidence'[x].batch].members[evidence'[x].index + 1] = x
    <3>1. x \in DOMAIN evidence /\ evidence'[x] = evidence[x]
      BY <1>2, <2>2 DEF Batched
    <3> QED BY <1>1, <2>2, <3>1 DEF BatchesSound, Batched
  <2> QED BY <1>3, <2>1, <2>2 DEF BatchesSound
<1> QED BY <1>7, <1>8, <1>9, <1>10, <1>11, <1>12, <1>13 DEF StoreInvariant

(* A repeated ingestion preserves the invariant: it files one more key. *)
LEMMA ExistingInvariant ==
  ASSUME StoreInvariant,
         NEW key \in IdempotencyKeys, NEW source \in Sources, NEW w \in Witnesses,
         IngestExisting(key, source, w)
  PROVE  StoreInvariant'
<1>1. PICK id \in DOMAIN evidence : keys' = Put(keys, key, id)
  BY DEF IngestExisting
<1>2. UNCHANGED <<tenant, evidence, sources, pending, sequence, batches, batchKeys, outbox>>
  BY DEF IngestExisting
<1>3. TypeOK /\ IndexesAgree /\ PendingOrBatched /\ FreezeOrder
      /\ OutboxExact /\ QueueIsTail /\ BatchesSound
  BY DEF StoreInvariant
<1>4. IsBucket(keys, IdempotencyKeys, EvidenceIDs) /\ id \in EvidenceIDs
  BY <1>3 DEF TypeOK, IsBucket
<1>5. /\ IsBucket(keys', IdempotencyKeys, EvidenceIDs)
      /\ DOMAIN keys' = DOMAIN keys \cup {key}
      /\ keys'[key] = id
      /\ \A x \in DOMAIN keys : x # key => keys'[x] = keys[x]
  BY <1>1, <1>4 DEF IsBucket, Put
<1>6. TypeOK'
  BY <1>2, <1>3, <1>5 DEF TypeOK
<1>7. IndexesAgree'
  BY <1>2, <1>3, <1>5 DEF IndexesAgree
<1>8. PendingOrBatched'
  BY <1>2, <1>3 DEF PendingOrBatched, Batched
<1>9. FreezeOrder'
  BY <1>2, <1>3 DEF FreezeOrder, Batched
<1>10. OutboxExact' /\ QueueIsTail'
  BY <1>2, <1>3 DEF OutboxExact, QueueIsTail
<1>11. BatchesSound'
  BY <1>2, <1>3 DEF BatchesSound, Batched
<1> QED BY <1>6, <1>7, <1>8, <1>9, <1>10, <1>11 DEF StoreInvariant
--------------------------------------------------------------------------------
(* Recording submission progress preserves it *)

(* RecordSubmission changes the state and reference of one batch and nothing
   else of any batch. *)
LEMMA RecordEffect ==
  ASSUME TypeOK, NEW b \in BatchIDs, NEW state \in SubmissionStates,
         NEW ref \in References \cup {NoReference}, RecordSubmission(b, state, ref)
  PROVE  /\ IsBucket(batches', BatchIDs, FrozenBatch)
         /\ DOMAIN batches' = DOMAIN batches
         /\ batches'[b].state = state
         /\ \A x \in DOMAIN batches : x # b => batches'[x] = batches[x]
         /\ \A x \in DOMAIN batches : /\ batches'[x].limit = batches[x].limit
                                      /\ batches'[x].members = batches[x].members
                                      /\ batches'[x].manifest = batches[x].manifest
<1>1. b \in DOMAIN batches /\ batches' = [batches EXCEPT ![b].state = state, ![b].ref = ref]
  BY DEF RecordSubmission
<1>2. DOMAIN batches \subseteq BatchIDs /\ batches \in [DOMAIN batches -> FrozenBatch]
  BY DEF TypeOK, IsBucket
<1>3. batches' \in [DOMAIN batches -> FrozenBatch]
  BY <1>1, <1>2 DEF FrozenBatch
<1>4. \A x \in DOMAIN batches : batches[x] \in FrozenBatch
  BY <1>2
<1>5. \A x \in DOMAIN batches :
        batches'[x] = IF x = b THEN [batches[b] EXCEPT !.state = state, !.ref = ref] ELSE batches[x]
  BY <1>1, <1>2
<1> QED BY <1>1, <1>2, <1>3, <1>4, <1>5 DEF IsBucket, FrozenBatch

(* Recording submission progress preserves the invariant. *)
LEMMA RecordInvariant ==
  ASSUME StoreInvariant, NEW b \in BatchIDs, NEW state \in SubmissionStates,
         NEW ref \in References \cup {NoReference}, RecordSubmission(b, state, ref)
  PROVE  StoreInvariant'
<1>1. TypeOK /\ IndexesAgree /\ PendingOrBatched /\ FreezeOrder
      /\ OutboxExact /\ QueueIsTail /\ BatchesSound
  BY DEF StoreInvariant
<1>2. UNCHANGED <<tenant, evidence, keys, sources, pending, sequence, batchKeys>>
  BY DEF RecordSubmission
<1>3. /\ IsBucket(batches', BatchIDs, FrozenBatch)
      /\ DOMAIN batches' = DOMAIN batches
      /\ batches'[b].state = state
      /\ \A x \in DOMAIN batches : x # b => batches'[x] = batches[x]
      /\ \A x \in DOMAIN batches : /\ batches'[x].limit = batches[x].limit
                                   /\ batches'[x].members = batches[x].members
                                   /\ batches'[x].manifest = batches[x].manifest
  BY <1>1, RecordEffect
<1>4. b \in DOMAIN batches /\ ~(batches[b].state = "submitted" /\ state # "submitted")
  BY DEF RecordSubmission, Regresses
<1>5. /\ IsBucket(outbox, BatchIDs, Manifests)
      /\ batches[b].manifest \in Manifests
  BY <1>1, <1>4 DEF TypeOK, IsBucket, FrozenBatch
<1>6. IsBucket(outbox', BatchIDs, Manifests) /\ OutboxExact'
  <2>1. CASE state = "submitted"
    <3>1. outbox' = Delete(outbox, {b})
      BY <2>1 DEF RecordSubmission, LeavesOutbox
    <3>2. /\ IsBucket(outbox', BatchIDs, Manifests)
          /\ DOMAIN outbox' = DOMAIN outbox \ {b}
          /\ \A x \in DOMAIN outbox \ {b} : outbox'[x] = outbox[x]
      BY <1>5, <3>1 DEF IsBucket, Delete
    <3> QED BY <1>1, <1>3, <1>4, <2>1, <3>2 DEF OutboxExact
  <2>2. CASE state # "submitted"
    <3>1. outbox' = Put(outbox, b, batches[b].manifest)
      BY <2>2 DEF RecordSubmission, LeavesOutbox
    <3>2. /\ IsBucket(outbox', BatchIDs, Manifests)
          /\ DOMAIN outbox' = DOMAIN outbox \cup {b}
          /\ outbox'[b] = batches[b].manifest
          /\ \A x \in DOMAIN outbox : x # b => outbox'[x] = outbox[x]
      BY <1>5, <3>1 DEF IsBucket, Put
    <3> QED BY <1>1, <1>3, <1>4, <2>2, <3>2 DEF OutboxExact
  <2> QED BY <2>1, <2>2
<1>7. TypeOK'
  BY <1>1, <1>2, <1>3, <1>6 DEF TypeOK
<1>8. IndexesAgree' /\ PendingOrBatched' /\ QueueIsTail'
  BY <1>1, <1>2 DEF IndexesAgree, PendingOrBatched, QueueIsTail, Batched
<1>9. FreezeOrder'
  BY <1>1, <1>2, <1>3 DEF FreezeOrder, Batched
<1>10. BatchesSound'
  BY <1>1, <1>2, <1>3 DEF BatchesSound, Batched
<1> QED BY <1>6, <1>7, <1>8, <1>9, <1>10 DEF StoreInvariant

--------------------------------------------------------------------------------
(* Freezing preserves it *)

\* What a freeze does to each bucket, in a queue of the numbers after head: the
\* first m entries leave it and become the members of a new batch b.
FreezesAt(key, limit, head, m, b) ==
  LET members == [i \in 1 .. m |-> pending[head + i]]
      manifest == Manifest([i \in 1 .. m |-> Compute(evidence[members[i]].witness)])
      taken == head + 1 .. head + m
  IN /\ DOMAIN pending = head + 1 .. sequence /\ head + m <= sequence
     /\ evidence' = [id \in DOMAIN evidence |->
          IF evidence[id].sequence \in taken
          THEN [evidence[id] EXCEPT !.batch = b, !.index = evidence[id].sequence - head - 1]
          ELSE evidence[id]]
     /\ pending' = Delete(pending, taken)
     /\ batches' = Put(batches, b,
          [limit |-> limit, manifest |-> manifest, members |-> members,
           state |-> "not_submitted", ref |-> NoReference])
     /\ batchKeys' = Put(batchKeys, key, b)
     /\ outbox' = Put(outbox, b, manifest)

(* Every freeze is one of the whole limit, or of the whole queue. *)
LEMMA FreezeEffect ==
  ASSUME StoreInvariant, NEW key \in RequestKeys, NEW limit \in Limits, FreezeNew(key, limit)
  PROVE  \E head \in 0 .. sequence, m \in 1 .. limit, b \in BatchIDs \ DOMAIN batches :
           m = Taken(head, sequence, limit) /\ FreezesAt(key, limit, head, m, b)
<1>1. TypeOK /\ PendingOrBatched /\ QueueIsTail
  BY DEF StoreInvariant
<1>2. PICK head \in 0 .. sequence : DOMAIN pending = head + 1 .. sequence
  BY <1>1 DEF QueueIsTail
<1>3. sequence \in Nat /\ head \in Nat /\ head <= sequence /\ limit \in Nat \ {0}
  BY <1>1, <1>2, StoreAssumption DEF TypeOK, Limits
<1>4. head < sequence
  <2>1. DOMAIN pending # {}
    BY DEF FreezeNew
  <2> QED BY <1>2, <1>3, <2>1
<1> DEFINE m == Taken(head, sequence, limit)
           taken == head + 1 .. head + m
           members == [i \in 1 .. m |-> pending[head + i]]
           manifest == Manifest([i \in 1 .. m |-> Compute(evidence[members[i]].witness)])
<1>5. /\ m \in 1 .. limit /\ head + m <= sequence
      /\ Scanned(limit) = taken
      /\ Members(limit) = members
  <2> HIDE DEF m
  <2>1. /\ m \in 0 .. limit /\ head + m <= sequence /\ (head < sequence => m > 0)
        /\ Scanned(limit) = head + 1 .. head + m
        /\ Members(limit) = [i \in 1 .. m |-> pending[head + i]]
    BY <1>2, <1>3, ScanInterval DEF m
  <2> QED BY <1>3, <1>4, <2>1
<1>size. m = Taken(head, sequence, limit)
  OBVIOUS
<1> HIDE DEF m
<1>6. \A id \in DOMAIN evidence :
        id \in {pending[s] : s \in Scanned(limit)} <=> evidence[id].sequence \in taken
  <2> SUFFICES ASSUME NEW id \in DOMAIN evidence
               PROVE  id \in {pending[s] : s \in Scanned(limit)} <=> evidence[id].sequence \in taken
    OBVIOUS
  <2>1. ASSUME NEW s \in taken, id = pending[s]
        PROVE  evidence[id].sequence \in taken
    <3>1. s \in DOMAIN pending
      BY <1>2, <1>3, <1>5
    <3>2. evidence[pending[s]].sequence = s
      BY <1>1, <3>1 DEF PendingOrBatched
    <3> QED BY <2>1, <3>2
  <2>2. ASSUME evidence[id].sequence \in taken
        PROVE  pending[evidence[id].sequence] = id
    BY <1>1, <1>2, <1>3, <1>5, <2>2 DEF PendingOrBatched
  <2> QED BY <1>5, <2>1, <2>2
<1>7. \A id \in DOMAIN evidence :
        evidence[id].sequence \in taken => Position(evidence[id].sequence) = evidence[id].sequence - head - 1
  BY <1>2, <1>3, <1>5, PositionInInterval
<1>8. DOMAIN Members(limit) = 1 .. m
  BY <1>5
<1>9. PICK b \in BatchIDs \ DOMAIN batches :
        /\ evidence' = [id \in DOMAIN evidence |->
             IF id \in {pending[s] : s \in Scanned(limit)}
             THEN [evidence[id] EXCEPT !.batch = b, !.index = Position(evidence[id].sequence)]
             ELSE evidence[id]]
        /\ pending' = Delete(pending, Scanned(limit))
        /\ batches' = Put(batches, b,
             [limit |-> limit,
              manifest |-> Manifest([i \in DOMAIN Members(limit) |->
                                       Compute(evidence[Members(limit)[i]].witness)]),
              members |-> Members(limit),
              state |-> "not_submitted", ref |-> NoReference])
        /\ batchKeys' = Put(batchKeys, key, b)
        /\ outbox' = Put(outbox, b, Manifest([i \in DOMAIN Members(limit) |->
                                                 Compute(evidence[Members(limit)[i]].witness)]))
  BY DEF FreezeNew, NewID
<1>10. evidence' = [id \in DOMAIN evidence |->
         IF evidence[id].sequence \in taken
         THEN [evidence[id] EXCEPT !.batch = b, !.index = evidence[id].sequence - head - 1]
         ELSE evidence[id]]
  BY <1>6, <1>7, <1>9
<1>11. Manifest([i \in DOMAIN Members(limit) |-> Compute(evidence[Members(limit)[i]].witness)]) = manifest
  BY <1>5, <1>8
<1>12. FreezesAt(key, limit, head, m, b)
  BY <1>2, <1>5, <1>9, <1>10, <1>11 DEF FreezesAt
<1> QED BY <1>2, <1>5, <1>9, <1>12, <1>size

(* Freezing preserves the invariant. *)
LEMMA FreezeInvariant ==
  ASSUME StoreInvariant, NEW key \in RequestKeys, NEW limit \in Limits, FreezeNew(key, limit)
  PROVE  StoreInvariant'
<1>1. TypeOK /\ IndexesAgree /\ PendingOrBatched /\ FreezeOrder
      /\ OutboxExact /\ QueueIsTail /\ BatchesSound
  BY DEF StoreInvariant
<1>2. UNCHANGED <<tenant, keys, sources, sequence>>
  BY DEF FreezeNew
<1>3. PICK head \in 0 .. sequence, m \in 1 .. limit, b \in BatchIDs \ DOMAIN batches :
        FreezesAt(key, limit, head, m, b)
  BY FreezeEffect
<1> USE DEF FreezesAt
<1> DEFINE members == [i \in 1 .. m |-> pending[head + i]]
           manifest == Manifest([i \in 1 .. m |-> Compute(evidence[members[i]].witness)])
           taken == head + 1 .. head + m
           fresh == [limit |-> limit, manifest |-> manifest, members |-> members,
                     state |-> "not_submitted", ref |-> NoReference]
<1>4. /\ sequence \in Nat /\ head \in Nat /\ m \in Nat /\ m > 0 /\ m <= limit
      /\ limit \in Limits /\ limit \in Nat /\ head + m <= sequence
  <2>1. head \in 0 .. sequence /\ m \in 1 .. limit /\ head + m <= sequence
    BY <1>3, Zenon
  <2> QED BY <1>1, <2>1, StoreAssumption DEF TypeOK, Limits
<1>5. DOMAIN pending = head + 1 .. sequence /\ taken \subseteq DOMAIN pending
  <2>1. DOMAIN pending = head + 1 .. sequence
    BY <1>3, Zenon
  <2> QED BY <1>4, <2>1
<1>6. b \in BatchIDs /\ b \notin DOMAIN batches /\ b # NoBatch
  BY <1>3, StoreAssumption
<1>7. /\ IsBucket(evidence, EvidenceIDs, Evidence)
      /\ IsBucket(pending, 1 .. MaxSequence, EvidenceIDs)
      /\ IsBucket(batches, BatchIDs, FrozenBatch)
      /\ IsBucket(batchKeys, RequestKeys, BatchIDs)
      /\ IsBucket(outbox, BatchIDs, Manifests)
  BY <1>1 DEF TypeOK
<1>8. \A id \in DOMAIN evidence : evidence[id] \in Evidence /\ evidence[id].sequence \in 1 .. sequence
  BY <1>1, <1>7 DEF IsBucket, PendingOrBatched
<1>9. /\ DOMAIN evidence' = DOMAIN evidence
      /\ \A id \in DOMAIN evidence :
           /\ evidence'[id] \in Evidence
           /\ evidence'[id].sequence = evidence[id].sequence
           /\ evidence'[id].source = evidence[id].source
           /\ evidence'[id].witness = evidence[id].witness
           /\ evidence[id].sequence \in taken =>
                evidence'[id].batch = b /\ evidence'[id].index = evidence[id].sequence - head - 1
           /\ evidence[id].sequence \notin taken => evidence'[id] = evidence[id]
  <2> SUFFICES ASSUME NEW id \in DOMAIN evidence
               PROVE  /\ evidence'[id] \in Evidence
                      /\ evidence'[id].sequence = evidence[id].sequence
                      /\ evidence'[id].source = evidence[id].source
                      /\ evidence'[id].witness = evidence[id].witness
                      /\ evidence[id].sequence \in taken =>
                           evidence'[id].batch = b /\ evidence'[id].index = evidence[id].sequence - head - 1
                      /\ evidence[id].sequence \notin taken => evidence'[id] = evidence[id]
    BY <1>3
  <2>1. evidence[id] \in Evidence
    BY <1>8
  <2>2. CASE evidence[id].sequence \in taken
    <3>1. evidence'[id] = [evidence[id] EXCEPT !.batch = b, !.index = evidence[id].sequence - head - 1]
      BY <1>3, <2>2
    <3>2. evidence[id].sequence - head - 1 \in Nat
      BY <1>4, <2>2
    <3> QED BY <1>6, <2>1, <2>2, <3>1, <3>2 DEF Evidence
  <2>3. CASE evidence[id].sequence \notin taken
    BY <1>3, <2>1, <2>3
  <2> QED BY <2>2, <2>3
<1>10. \A i \in 1 .. m : /\ head + i \in DOMAIN pending
                         /\ members[i] = pending[head + i]
                         /\ members[i] \in DOMAIN evidence
                         /\ members[i] \in EvidenceIDs
                         /\ evidence[members[i]].sequence = head + i
                         /\ evidence[members[i]].witness \in Witnesses
  <2> SUFFICES ASSUME NEW i \in 1 .. m
               PROVE  /\ head + i \in DOMAIN pending
                      /\ pending[head + i] \in DOMAIN evidence
                      /\ pending[head + i] \in EvidenceIDs
                      /\ evidence[pending[head + i]].sequence = head + i
                      /\ evidence[pending[head + i]].witness \in Witnesses
    OBVIOUS
  <2>1. head + i \in DOMAIN pending
    BY <1>4, <1>5
  <2>2. pending[head + i] \in DOMAIN evidence /\ evidence[pending[head + i]].sequence = head + i
    BY <1>1, <2>1 DEF PendingOrBatched
  <2> QED BY <1>7, <1>8, <2>1, <2>2 DEF IsBucket, Evidence
<1>11. /\ members \in Seq(EvidenceIDs) /\ Len(members) = m
       /\ manifest \in Manifests
       /\ fresh \in FrozenBatch
  <2>1. members \in Seq(EvidenceIDs) /\ Len(members) = m
    BY <1>4, <1>10
  <2> DEFINE leaves == [i \in 1 .. m |-> Compute(evidence[members[i]].witness)]
  <2>2. \A i \in 1 .. m : Compute(evidence[members[i]].witness) \in Commitments
    BY <1>10 DEF Compute, Commitments
  <2>3. leaves \in Seq(Commitments) /\ Len(leaves) = m
    <3> HIDE DEF members
    <3> QED BY <1>4, <2>2
  <2>4. manifest \in Manifests
    <3> HIDE DEF leaves
    <3>1. Manifest(leaves) \in Manifests
      BY <1>4, <2>3 DEF Manifest, Manifests
    <3> QED BY <3>1 DEF leaves
  <2> HIDE DEF members, manifest
  <2>5. fresh \in FrozenBatch
    BY <1>4, <2>1, <2>4 DEF FrozenBatch, SubmissionStates
  <2> QED BY <2>1, <2>4, <2>5
<1> HIDE DEF members, manifest, fresh
<1>12. pending' = Delete(pending, taken) /\ batches' = Put(batches, b, fresh)
       /\ batchKeys' = Put(batchKeys, key, b) /\ outbox' = Put(outbox, b, manifest)
  BY <1>3 DEF members, manifest, fresh
<1>13. /\ IsBucket(pending', 1 .. MaxSequence, EvidenceIDs)
       /\ DOMAIN pending' = head + m + 1 .. sequence
       /\ \A s \in DOMAIN pending' : pending'[s] = pending[s]
  <2>1. /\ IsBucket(pending', 1 .. MaxSequence, EvidenceIDs)
        /\ DOMAIN pending' = DOMAIN pending \ taken
        /\ \A s \in DOMAIN pending' : pending'[s] = pending[s]
    <3> HIDE DEF taken
    <3> QED BY <1>7, <1>12 DEF IsBucket, Delete
  <2> QED BY <1>4, <1>5, <2>1
<1>14. /\ IsBucket(batches', BatchIDs, FrozenBatch)
       /\ DOMAIN batches' = DOMAIN batches \cup {b}
       /\ batches'[b] = fresh
       /\ \A x \in DOMAIN batches : batches'[x] = batches[x]
  BY <1>6, <1>7, <1>11, <1>12 DEF IsBucket, Put
<1>15. IsBucket(batchKeys', RequestKeys, BatchIDs)
  BY <1>6, <1>7, <1>12 DEF IsBucket, Put
<1>16. /\ IsBucket(outbox', BatchIDs, Manifests)
       /\ DOMAIN outbox' = DOMAIN outbox \cup {b}
       /\ outbox'[b] = manifest
       /\ \A x \in DOMAIN outbox : x # b => outbox'[x] = outbox[x]
  BY <1>6, <1>7, <1>11, <1>12 DEF IsBucket, Put
<1>17. fresh.limit = limit /\ fresh.manifest = manifest /\ fresh.members = members
       /\ fresh.state = "not_submitted"
  BY DEF fresh
<1>18. IsBucket(evidence', EvidenceIDs, Evidence)
  <2>1. evidence' = [id \in DOMAIN evidence' |-> evidence'[id]]
    BY <1>3
  <2> QED BY <1>7, <1>9, <2>1 DEF IsBucket
<1>19. TypeOK'
  BY <1>1, <1>2, <1>13, <1>14, <1>15, <1>16, <1>18 DEF TypeOK
<1>20. IndexesAgree'
  <2>1. \A id \in DOMAIN evidence : Keyed(evidence'[id]) = Keyed(evidence[id])
    BY <1>9 DEF Keyed
  <2> QED BY <1>1, <1>2, <1>9, <2>1 DEF IndexesAgree
<1>21. \A id \in DOMAIN evidence : evidence[id].sequence \in taken => ~Batched(id)
  BY <1>1, <1>5 DEF PendingOrBatched
<1>22. PendingOrBatched'
  <2>1. {evidence'[id].sequence : id \in DOMAIN evidence'} = 1 .. sequence'
    <3>1. {evidence[id].sequence : id \in DOMAIN evidence} = 1 .. sequence
      BY <1>1 DEF PendingOrBatched
    <3> QED BY <1>2, <1>9, <3>1
  <2>2. \A id1, id2 \in DOMAIN evidence' :
          evidence'[id1].sequence = evidence'[id2].sequence => id1 = id2
    BY <1>1, <1>9 DEF PendingOrBatched
  <2>3. \A s \in DOMAIN pending' :
          pending'[s] \in DOMAIN evidence' /\ evidence'[pending'[s]].sequence = s
    <3> SUFFICES ASSUME NEW s \in DOMAIN pending'
                 PROVE  pending[s] \in DOMAIN evidence /\ evidence'[pending[s]].sequence = s
      BY <1>9, <1>13
    <3>1. s \in DOMAIN pending
      BY <1>4, <1>5, <1>13
    <3> QED BY <1>1, <1>9, <3>1 DEF PendingOrBatched
  <2>4. \A id \in DOMAIN evidence' : Batched(id)' <=> evidence'[id].sequence \notin DOMAIN pending'
    <3> SUFFICES ASSUME NEW id \in DOMAIN evidence
                 PROVE  evidence'[id].batch # NoBatch <=> evidence[id].sequence \notin DOMAIN pending'
      BY <1>9 DEF Batched
    <3>1. CASE evidence[id].sequence \in taken
      <4>1. evidence'[id].batch = b
        BY <1>9, <3>1
      <4>2. evidence[id].sequence \notin DOMAIN pending'
        BY <1>4, <1>13, <3>1
      <4> QED BY <1>6, <4>1, <4>2
    <3>2. CASE evidence[id].sequence \notin taken
      <4>1. evidence'[id] = evidence[id]
        BY <1>9, <3>2
      <4>2. evidence[id].sequence \in DOMAIN pending' <=> evidence[id].sequence \in DOMAIN pending
        BY <1>4, <1>5, <1>8, <1>13, <3>2
      <4> QED BY <1>1, <4>1, <4>2 DEF PendingOrBatched, Batched
    <3> QED BY <3>1, <3>2
  <2> QED BY <2>1, <2>2, <2>3, <2>4 DEF PendingOrBatched
<1>23. ASSUME NEW x \in DOMAIN batches
       PROVE  /\ Len(batches[x].members) \in 1 .. batches[x].limit
              /\ \A i \in 1 .. Len(batches[x].members) :
                   /\ batches[x].members[i] \in DOMAIN evidence
                   /\ evidence[batches[x].members[i]].batch = x
                   /\ evidence[batches[x].members[i]].index = i - 1
                   /\ evidence'[batches[x].members[i]] = evidence[batches[x].members[i]]
              /\ batches[x].manifest =
                   Manifest([i \in 1 .. Len(batches[x].members) |->
                               Compute(evidence[batches[x].members[i]].witness)])
  <2>1. /\ Len(batches[x].members) \in 1 .. batches[x].limit
        /\ \A i \in 1 .. Len(batches[x].members) :
             /\ batches[x].members[i] \in DOMAIN evidence
             /\ evidence[batches[x].members[i]].batch = x
             /\ evidence[batches[x].members[i]].index = i - 1
        /\ batches[x].manifest =
             Manifest([i \in 1 .. Len(batches[x].members) |->
                         Compute(evidence[batches[x].members[i]].witness)])
    BY <1>1 DEF BatchesSound
  <2>2. x # NoBatch
    BY <1>7, StoreAssumption DEF IsBucket
  <2>3. \A i \in 1 .. Len(batches[x].members) :
          evidence'[batches[x].members[i]] = evidence[batches[x].members[i]]
    BY <1>9, <1>21, <2>1, <2>2 DEF Batched
  <2> QED BY <2>1, <2>3
<1>24. FreezeOrder'
  <2>1. \A id \in DOMAIN evidence', s \in DOMAIN pending' : Batched(id)' => evidence'[id].sequence < s
    <3> SUFFICES ASSUME NEW id \in DOMAIN evidence, Batched(id)', NEW s \in DOMAIN pending'
                 PROVE  evidence[id].sequence < s
      BY <1>9
    <3>1. evidence[id].sequence \notin DOMAIN pending'
      BY <1>9, <1>22 DEF PendingOrBatched
    <3> QED BY <1>4, <1>8, <1>13, <3>1
  <2>2. ASSUME NEW x \in DOMAIN batches', NEW i \in 1 .. Len(batches'[x].members) - 1
        PROVE  evidence'[batches'[x].members[i + 1]].sequence = evidence'[batches'[x].members[i]].sequence + 1
    <3>1. CASE x = b
      <4>1. i \in 1 .. m /\ i + 1 \in 1 .. m /\ batches'[x].members = members
        BY <1>4, <1>11, <1>14, <1>17, <3>1
      <4>2. /\ evidence'[members[i]].sequence = head + i
            /\ evidence'[members[i + 1]].sequence = head + (i + 1)
        BY <1>9, <1>10, <4>1
      <4> QED BY <1>4, <4>1, <4>2
    <3>2. CASE x \in DOMAIN batches
      <4>1. batches'[x] = batches[x] /\ Len(batches[x].members) \in Nat
        BY <1>7, <1>14, <3>2 DEF IsBucket, FrozenBatch
      <4>2. i \in 1 .. Len(batches[x].members) /\ i + 1 \in 1 .. Len(batches[x].members)
        BY <2>2, <4>1
      <4>3. evidence[batches[x].members[i + 1]].sequence = evidence[batches[x].members[i]].sequence + 1
        BY <1>1, <2>2, <3>2, <4>1 DEF FreezeOrder
      <4>4. /\ evidence'[batches[x].members[i]] = evidence[batches[x].members[i]]
            /\ evidence'[batches[x].members[i + 1]] = evidence[batches[x].members[i + 1]]
        BY <1>23, <3>2, <4>2
      <4> QED BY <4>1, <4>3, <4>4
    <3> QED BY <1>14, <3>1, <3>2
  <2> QED BY <2>1, <2>2 DEF FreezeOrder
<1>25. OutboxExact'
  BY <1>1, <1>6, <1>14, <1>16, <1>17 DEF OutboxExact
<1>26. QueueIsTail'
  <2>1. head + m \in 0 .. sequence' /\ DOMAIN pending' = (head + m) + 1 .. sequence'
    BY <1>2, <1>4, <1>13
  <2> QED BY <2>1 DEF QueueIsTail
<1>27. BatchesSound'
  <2>1. ASSUME NEW x \in DOMAIN batches'
        PROVE  /\ Len(batches'[x].members) \in 1 .. batches'[x].limit
               /\ \A i \in 1 .. Len(batches'[x].members) :
                    /\ batches'[x].members[i] \in DOMAIN evidence'
                    /\ evidence'[batches'[x].members[i]].batch = x
                    /\ evidence'[batches'[x].members[i]].index = i - 1
               /\ batches'[x].manifest =
                    Manifest([i \in 1 .. Len(batches'[x].members) |->
                                Compute(evidence'[batches'[x].members[i]].witness)])
    <3>1. CASE x = b
      <4>1. \A i \in 1 .. m : /\ evidence'[members[i]].batch = b
                              /\ evidence'[members[i]].index = i - 1
                              /\ evidence'[members[i]].witness = evidence[members[i]].witness
        BY <1>4, <1>9, <1>10
      <4>2. [i \in 1 .. m |-> Compute(evidence'[members[i]].witness)]
              = [i \in 1 .. m |-> Compute(evidence[members[i]].witness)]
        BY <4>1
      <4>3. manifest = Manifest([i \in 1 .. m |-> Compute(evidence'[members[i]].witness)])
        BY <4>2 DEF manifest
      <4> QED BY <1>4, <1>9, <1>10, <1>11, <1>14, <1>17, <3>1, <4>1, <4>3
    <3>2. CASE x \in DOMAIN batches
      <4>1. batches'[x] = batches[x]
        BY <1>14, <3>2
      <4>2. [i \in 1 .. Len(batches[x].members) |-> Compute(evidence'[batches[x].members[i]].witness)]
              = [i \in 1 .. Len(batches[x].members) |-> Compute(evidence[batches[x].members[i]].witness)]
        BY <1>23, <3>2
      <4> QED BY <1>9, <1>23, <3>2, <4>1, <4>2
    <3> QED BY <1>14, <3>1, <3>2
  <2>2. ASSUME NEW id \in DOMAIN evidence', Batched(id)'
        PROVE  /\ evidence'[id].batch \in DOMAIN batches'
               /\ evidence'[id].index < Len(batches'[evidence'[id].batch].members)
               /\ batches'[evidence'[id].batch].members[evidence'[id].index + 1] = id
    <3>1. CASE evidence[id].sequence \in taken
      <4>1. evidence'[id].batch = b /\ evidence'[id].index = evidence[id].sequence - head - 1
        BY <1>9, <3>1
      <4>2. PICK i \in 1 .. m : evidence[id].sequence = head + i
        <5>1. evidence[id].sequence - head \in 1 .. m
          BY <1>4, <3>1
        <5> QED BY <1>4, <3>1, <5>1
      <4>3. members[i] = id
        BY <1>1, <1>9, <1>10, <4>2 DEF PendingOrBatched
      <4> QED BY <1>4, <1>11, <1>14, <1>17, <4>1, <4>2, <4>3
    <3>2. CASE evidence[id].sequence \notin taken
      <4>1. id \in DOMAIN evidence /\ evidence'[id] = evidence[id] /\ Batched(id)
        BY <1>9, <2>2, <3>2 DEF Batched
      <4> QED BY <1>1, <1>14, <4>1 DEF BatchesSound
    <3> QED BY <3>1, <3>2
  <2> QED BY <2>1, <2>2 DEF BatchesSound
<1> QED BY <1>19, <1>20, <1>22, <1>24, <1>25, <1>26, <1>27 DEF StoreInvariant
--------------------------------------------------------------------------------
(* Theorems *)

(* Every transaction of the store preserves the invariant. *)
LEMMA NextInvariant == StoreInvariant /\ [Next]_vars => StoreInvariant'
<1> SUFFICES ASSUME StoreInvariant, [Next]_vars PROVE StoreInvariant'
  OBVIOUS
<1>1. ASSUME NEW key \in IdempotencyKeys, NEW source \in Sources, NEW w \in Witnesses,
             Ingest(key, source, w)
      PROVE  StoreInvariant'
  BY <1>1, CreateInvariant, ExistingInvariant DEF Ingest
<1>2. ASSUME NEW key \in RequestKeys, NEW limit \in Limits, FreezeNew(key, limit)
      PROVE  StoreInvariant'
  BY <1>2, FreezeInvariant
<1>3. ASSUME NEW b \in BatchIDs, NEW state \in SubmissionStates,
             NEW ref \in References \cup {NoReference}, RecordSubmission(b, state, ref)
      PROVE  StoreInvariant'
  BY <1>3, RecordInvariant
<1>4. ASSUME UNCHANGED vars
      PROVE  StoreInvariant'
  BY <1>4 DEF vars, StoreInvariant, TypeOK, IndexesAgree, PendingOrBatched, FreezeOrder,
              OutboxExact, QueueIsTail, BatchesSound, Batched
<1>5. ASSUME NEW key \in RequestKeys, NEW limit \in Limits, FreezeExisting(key, limit)
      PROVE  StoreInvariant'
  BY <1>4, <1>5 DEF FreezeExisting
<1> QED BY <1>1, <1>2, <1>3, <1>4, <1>5 DEF Next

(* The invariant holds in every reachable state of the store, whatever the
   sequence of ingest, freeze and RecordSubmission transactions. *)
THEOREM Invariance == Spec => []StoreInvariant
<1> QED BY InitInvariant, NextInvariant, PTL DEF Spec

(* Every bucket always holds records of its type. *)
THEOREM TypeCorrect == Spec => []TypeOK
<1>1. StoreInvariant => TypeOK
  BY DEF StoreInvariant
<1> QED BY <1>1, Invariance, PTL

(* ingest never lets the two indexes and the records part. *)
THEOREM IndexesAlwaysAgree == Spec => []IndexesAgree
<1>1. StoreInvariant => IndexesAgree
  BY DEF StoreInvariant
<1> QED BY <1>1, Invariance, PTL

(* ingest and freeze never lose a record between the queue and the batches,
   never put it in both, and never number two records alike. *)
THEOREM AlwaysPendingOrBatched == Spec => []PendingOrBatched
<1>1. StoreInvariant => PendingOrBatched
  BY DEF StoreInvariant
<1> QED BY <1>1, Invariance, PTL

(* freeze always takes the oldest records, in order, without a gap. *)
THEOREM AlwaysFreezeOrder == Spec => []FreezeOrder
<1>1. StoreInvariant => FreezeOrder
  BY DEF StoreInvariant
<1> QED BY <1>1, Invariance, PTL

(* The outbox is always exactly the batches freeze made and RecordSubmission
   has not recorded as submitted, with their manifests. *)
THEOREM OutboxAlwaysExact == Spec => []OutboxExact
<1>1. StoreInvariant => OutboxExact
  BY DEF StoreInvariant
<1> QED BY <1>1, Invariance, PTL

(* The corruption checks of freeze, Outbox and UnanchoredPackage hold wherever
   the invariant does. *)
LEMMA InvariantNeverCorrupt == StoreInvariant => NeverCorrupt
<1> SUFFICES ASSUME StoreInvariant PROVE NeverCorrupt
  OBVIOUS
<1>1. TypeOK /\ PendingOrBatched /\ OutboxExact /\ BatchesSound
  BY DEF StoreInvariant
<1>2. \A limit \in Limits : ScanSound(limit)
  BY <1>1 DEF ScanSound, Scanned, PendingOrBatched, Batched
<1>3. \A b \in DOMAIN batches : FrozenSound(b)
  <2> SUFFICES ASSUME NEW b \in DOMAIN batches PROVE FrozenSound(b)
    OBVIOUS
  <2>1. batches[b] \in FrozenBatch
    BY <1>1 DEF TypeOK, IsBucket
  <2>2. /\ Len(batches[b].members) \in 1 .. batches[b].limit
        /\ batches[b].manifest =
             Manifest([i \in 1 .. Len(batches[b].members) |-> Compute(evidence[batches[b].members[i]].witness)])
    BY <1>1 DEF BatchesSound
  <2>3. batches[b].manifest.size = Len(batches[b].members)
    BY <2>1, <2>2 DEF Manifest, FrozenBatch
  <2> QED BY <2>1, <2>2, <2>3 DEF FrozenSound, FrozenBatch, Limits
<1>4. \A limit \in Limits : \A b \in OutboxPage(limit) : ListingSound(b)
  BY <1>1, <1>3 DEF OutboxPage, ListingSound, OutboxExact
<1>5. ASSUME NEW id \in DOMAIN evidence, Batched(id)
      PROVE  PackageSound(id)
  <2> DEFINE b == batches[evidence[id].batch]
  <2>1. /\ evidence[id].batch \in DOMAIN batches
        /\ evidence[id].index < Len(b.members)
        /\ b.members[evidence[id].index + 1] = id
    BY <1>1, <1>5 DEF BatchesSound
  <2>2. b.members \in Seq(EvidenceIDs)
    BY <1>1, <2>1 DEF TypeOK, IsBucket, FrozenBatch
  <2>3. DOMAIN b.members = 1 .. Len(b.members)
    BY <2>2
  <2>4. \A i \in DOMAIN b.members :
          /\ b.members[i] \in DOMAIN evidence
          /\ evidence[b.members[i]].batch = evidence[id].batch
          /\ evidence[b.members[i]].index = i - 1
    BY <1>1, <2>1, <2>3 DEF BatchesSound
  <2>5. b.manifest = Manifest([i \in DOMAIN b.members |-> Compute(evidence[b.members[i]].witness)])
    <3>1. b.manifest = Manifest([i \in 1 .. Len(b.members) |-> Compute(evidence[b.members[i]].witness)])
      BY <1>1, <2>1 DEF BatchesSound
    <3> QED BY <2>3, <3>1
  <2> QED BY <1>3, <2>1, <2>4, <2>5 DEF PackageSound
<1> QED BY <1>2, <1>3, <1>4, <1>5 DEF NeverCorrupt

(* No sequence of legal calls makes freeze, RecordSubmission, Outbox, Batch or
   UnanchoredPackage report ErrCorrupt. *)
THEOREM NeverReportsCorrupt == Spec => []NeverCorrupt
<1> QED BY Invariance, InvariantNeverCorrupt, PTL

(* Every transaction keeps what records commit to. *)
LEMMA EvidenceKept == ASSUME StoreInvariant, Next PROVE KeepsEvidence
<1>1. TypeOK /\ PendingOrBatched
  BY DEF StoreInvariant
<1>2. ASSUME NEW key \in IdempotencyKeys, NEW source \in Sources, NEW w \in Witnesses,
             IngestCreate(key, source, w)
      PROVE  KeepsEvidence
  <2>1. PICK id \in EvidenceIDs \ DOMAIN evidence :
          /\ DOMAIN evidence' = DOMAIN evidence \cup {id}
          /\ \A x \in DOMAIN evidence : evidence'[x] = evidence[x]
    BY <1>1, <1>2, CreateEffect
  <2> QED BY <2>1 DEF KeepsEvidence
<1>3. ASSUME NEW key \in RequestKeys, NEW limit \in Limits, FreezeNew(key, limit)
      PROVE  KeepsEvidence
  <2> DEFINE chosen == {pending[s] : s \in Scanned(limit)}
  <2>1. PICK b \in BatchIDs : evidence' = [id \in DOMAIN evidence |->
          IF id \in chosen
          THEN [evidence[id] EXCEPT !.batch = b, !.index = Position(evidence[id].sequence)]
          ELSE evidence[id]]
    BY <1>3 DEF FreezeNew, NewID
  <2>2. \A id \in chosen : ~Batched(id)
    <3>1. ScanSound(limit)
      BY <1>3 DEF FreezeNew
    <3> QED BY <3>1 DEF ScanSound, Batched
  <2>3. \A id \in DOMAIN evidence : evidence[id] \in Evidence
    BY <1>1 DEF TypeOK, IsBucket
  <2> HIDE DEF chosen
  <2> QED BY <2>1, <2>2, <2>3 DEF KeepsEvidence, Evidence
<1>4. CASE UNCHANGED evidence
  BY <1>4 DEF KeepsEvidence
<1> QED BY <1>2, <1>3, <1>4
     DEF Next, Ingest, IngestExisting, FreezeExisting, RecordSubmission, vars

(* ingest, freeze and RecordSubmission never drop or rewrite what a record
   commits to, nor move it out of its batch. *)
THEOREM EvidenceNeverRewritten == Spec => EvidenceImmutable
<1>1. StoreInvariant /\ [Next]_vars => [KeepsEvidence]_vars
  BY EvidenceKept
<1> QED BY <1>1, Invariance, PTL DEF Spec, EvidenceImmutable

(* Every transaction keeps request keys, frozen batches and "submitted". *)
LEMMA FreezesKept == ASSUME StoreInvariant, Next PROVE KeepsFreezes
<1>1. TypeOK
  BY DEF StoreInvariant
<1>2. ASSUME NEW key \in RequestKeys, NEW limit \in Limits, FreezeNew(key, limit)
      PROVE  KeepsFreezes
  <2>1. key \notin DOMAIN batchKeys
    BY <1>2 DEF FreezeNew
  <2>2. PICK b \in BatchIDs \ DOMAIN batches : \E batch :
          batches' = Put(batches, b, batch) /\ batchKeys' = Put(batchKeys, key, b)
    BY <1>2 DEF FreezeNew, NewID
  <2> QED BY <2>1, <2>2 DEF KeepsFreezes, Put
<1>3. ASSUME NEW b \in BatchIDs, NEW state \in SubmissionStates,
             NEW ref \in References \cup {NoReference}, RecordSubmission(b, state, ref)
      PROVE  KeepsFreezes
  <2>1. /\ DOMAIN batches' = DOMAIN batches
        /\ batches'[b].state = state
        /\ \A x \in DOMAIN batches : x # b => batches'[x] = batches[x]
        /\ \A x \in DOMAIN batches : /\ batches'[x].limit = batches[x].limit
                                     /\ batches'[x].members = batches[x].members
                                     /\ batches'[x].manifest = batches[x].manifest
    BY <1>1, <1>3, RecordEffect
  <2>2. batchKeys' = batchKeys /\ ~(batches[b].state = "submitted" /\ state # "submitted")
    BY <1>3 DEF RecordSubmission, Regresses
  <2> QED BY <2>1, <2>2 DEF KeepsFreezes
<1>4. CASE UNCHANGED <<batches, batchKeys>>
  BY <1>4 DEF KeepsFreezes
<1> QED BY <1>2, <1>3, <1>4
     DEF Next, Ingest, IngestCreate, IngestExisting, FreezeExisting, vars

(* A request key keeps its batch, a batch its limit, members and manifest, and
   RecordSubmission never takes "submitted" back. *)
THEOREM FreezesNeverRewritten == Spec => FreezeImmutable
<1>1. StoreInvariant /\ [Next]_vars => [KeepsFreezes]_vars
  BY FreezesKept
<1> QED BY <1>1, Invariance, PTL DEF Spec, FreezeImmutable

(* Every transaction keeps the records idempotency keys name. *)
LEMMA KeysKept == ASSUME StoreInvariant, Next PROVE KeepsKeys
<1>1. TypeOK
  BY DEF StoreInvariant
<1>2. ASSUME NEW key \in IdempotencyKeys, NEW source \in Sources, NEW w \in Witnesses,
             IngestCreate(key, source, w)
      PROVE  KeepsKeys
  <2>1. DOMAIN keys' = DOMAIN keys \cup {key} /\ \A x \in DOMAIN keys : keys'[x] = keys[x]
    BY <1>1, <1>2, CreateEffect
  <2> QED BY <2>1 DEF KeepsKeys
<1>3. ASSUME NEW key \in IdempotencyKeys, NEW source \in Sources, NEW w \in Witnesses,
             IngestExisting(key, source, w)
      PROVE  KeepsKeys
  BY <1>3 DEF IngestExisting, Lookup, Put, KeepsKeys
<1>4. CASE UNCHANGED keys
  BY <1>4 DEF KeepsKeys
<1> QED BY <1>2, <1>3, <1>4
     DEF Next, Ingest, FreezeNew, FreezeExisting, RecordSubmission, vars

(* ingest never moves an idempotency key to another record. *)
THEOREM KeysNeverMove == Spec => KeysStable
<1>1. StoreInvariant /\ [Next]_vars => [KeepsKeys]_vars
  BY KeysKept
<1> QED BY <1>1, Invariance, PTL DEF Spec, KeysStable

--------------------------------------------------------------------------------
(* The store implements the ledger: every transaction is a Record, a Cut or a
   Settle of EvidenceLedger, or changes nothing the ledger knows of. *)

LedgerSound == StoreInvariant /\ KeysNameBatches

\* The mapped variables.
Log == [n \in 1 .. sequence |->
          [about |-> Keyed(evidence[Numbered(n)]), witness |-> evidence[Numbered(n)].witness]]
Front == sequence - Cardinality(DOMAIN pending)
Cuts == [key \in DOMAIN batchKeys |-> Interval(batches[batchKeys[key]])]

LEMMA KeysNameBatchesInit == Init => KeysNameBatches
  BY DEF Init, EmptyBucket, KeysNameBatches

LEMMA KeysNameBatchesNext == LedgerSound /\ [Next]_vars => KeysNameBatches'
<1>1. ASSUME LedgerSound, NEW key \in RequestKeys, NEW limit \in Limits, FreezeNew(key, limit)
      PROVE  KeysNameBatches'
  <2>1. key \notin DOMAIN batchKeys
    BY <1>1 DEF FreezeNew
  <2>2. PICK b \in BatchIDs \ DOMAIN batches : \E batch :
          batches' = Put(batches, b, batch) /\ batchKeys' = Put(batchKeys, key, b)
    BY <1>1 DEF FreezeNew, NewID
  <2>3. QED
    BY <1>1, <2>1, <2>2 DEF LedgerSound, KeysNameBatches, Put
<1>2. LedgerSound /\ UNCHANGED batchKeys /\ DOMAIN batches' = DOMAIN batches => KeysNameBatches'
  BY DEF LedgerSound, KeysNameBatches
<1>3. ASSUME LedgerSound, NEW b \in BatchIDs, NEW state \in SubmissionStates,
             NEW ref \in References \cup {NoReference}, RecordSubmission(b, state, ref)
      PROVE  KeysNameBatches'
  <2>1. DOMAIN batches' = DOMAIN batches
    BY <1>3, RecordEffect DEF LedgerSound, StoreInvariant
  <2>2. QED
    BY <1>2, <1>3, <2>1 DEF RecordSubmission
<1>4. QED
  BY <1>1, <1>2, <1>3 DEF Next, Ingest, IngestCreate, IngestExisting, FreezeExisting, vars

--------------------------------------------------------------------------------
(* What the mapped variables are *)

(* The record with a number is the record with that number. *)
LEMMA NumberedIs ==
  ASSUME StoreInvariant
  PROVE  /\ \A id \in DOMAIN evidence : Numbered(evidence[id].sequence) = id
         /\ \A n \in 1 .. sequence : Numbered(n) \in DOMAIN evidence /\ evidence[Numbered(n)].sequence = n
<1>1. PendingOrBatched
  BY DEF StoreInvariant
<1>2. ASSUME NEW id \in DOMAIN evidence PROVE Numbered(evidence[id].sequence) = id
  BY <1>1 DEF PendingOrBatched, Numbered
<1>3. ASSUME NEW n \in 1 .. sequence
      PROVE  Numbered(n) \in DOMAIN evidence /\ evidence[Numbered(n)].sequence = n
  <2>1. \E id \in DOMAIN evidence : evidence[id].sequence = n
    BY <1>1 DEF PendingOrBatched
  <2>2. QED
    BY <2>1 DEF Numbered
<1>4. QED
  BY <1>2, <1>3

(* Numbers name the records they named before. *)
LEMMA NumberedKept ==
  ASSUME StoreInvariant, StoreInvariant', KeepsEvidence, NEW n \in 1 .. sequence
  PROVE  Numbered(n)' = Numbered(n)
<1>1. Numbered(n) \in DOMAIN evidence /\ evidence[Numbered(n)].sequence = n
  BY NumberedIs
<1>2. PICK id \in DOMAIN evidence : id = Numbered(n)
  BY <1>1
<1>3. id \in DOMAIN evidence' /\ evidence'[id].sequence = n
  BY <1>1, <1>2 DEF KeepsEvidence
<1>4. \A x, y \in DOMAIN evidence' : evidence'[x].sequence = evidence'[y].sequence => x = y
  BY DEF StoreInvariant, PendingOrBatched
<1>5. Numbered(n)' = id
  BY <1>3, <1>4 DEF Numbered
<1>6. QED
  BY <1>2, <1>5

(* The entries of the log stay, whatever a transaction does. *)
LEMMA EntriesKept ==
  ASSUME StoreInvariant, StoreInvariant', KeepsEvidence, NEW n \in 1 .. sequence, n \in 1 .. sequence'
  PROVE  Log'[n] = Log[n]
<1>1. Numbered(n)' = Numbered(n) /\ Numbered(n) \in DOMAIN evidence
  BY NumberedKept, NumberedIs
<1>2. Log'[n] = [about |-> Keyed(evidence'[Numbered(n)]), witness |-> evidence'[Numbered(n)].witness]
  BY <1>1 DEF Log, Keyed
<1>3. QED
  BY <1>1, <1>2 DEF Log, KeepsEvidence, Keyed

(* The front of the queue is what has been cut. *)
LEMMA HeadIs ==
  ASSUME NEW head \in Nat, sequence \in Nat, head <= sequence, DOMAIN pending = head + 1 .. sequence
  PROVE  Front = head
<1>1. Cardinality(head + 1 .. sequence) = sequence - (head + 1) + 1
  BY IntervalSize
<1>2. QED
  BY <1>1 DEF Front

(* A batch that stays as it is keeps its cut. *)
LEMMA IntervalKept ==
  ASSUME LedgerSound, KeepsEvidence, NEW b \in DOMAIN batches,
         NEW c, batches'[c].members = batches[b].members, batches'[c].limit = batches[b].limit
  PROVE  Interval(batches[c])' = [Interval(batches[b]) EXCEPT !.settled = (batches'[c].state = "submitted")]
<1> DEFINE members == batches[b].members
<1>1. batches[b].limit \in Nat \ {0}
  <2>1. batches[b] \in FrozenBatch
    BY DEF LedgerSound, StoreInvariant, TypeOK, IsBucket
  <2>2. QED
    BY <2>1, StoreAssumption DEF FrozenBatch, Limits
<1>2. Len(members) \in 1 .. batches[b].limit /\ \A i \in 1 .. Len(members) : members[i] \in DOMAIN evidence
  BY DEF LedgerSound, StoreInvariant, BatchesSound
<1>3. 1 \in 1 .. Len(members) /\ Len(members) \in 1 .. Len(members)
  BY <1>1, <1>2
<1>4. \A i \in {1, Len(members)} : evidence'[members[i]].sequence = evidence[members[i]].sequence
  BY <1>2, <1>3 DEF KeepsEvidence
<1>5. QED
  BY <1>4 DEF Interval

LEMMA IntervalStays ==
  ASSUME LedgerSound, KeepsEvidence, NEW b \in DOMAIN batches, batches'[b] = batches[b]
  PROVE  Interval(batches[b])' = Interval(batches[b])
  BY IntervalKept DEF Interval

--------------------------------------------------------------------------------
(* Steps *)

(* A first ingestion is recorded at the end of the log. *)
LEMMA CreateRecords ==
  ASSUME LedgerSound, NEW key \in IdempotencyKeys, NEW source \in Sources, NEW w \in Witnesses,
         IngestCreate(key, source, w)
  PROVE  Ledger!Record(SourceKey(source, w.representation), w)
<1> DEFINE sk == SourceKey(source, w.representation)
<1>1. StoreInvariant /\ Next
  BY DEF LedgerSound, Next, Ingest
<1>2. StoreInvariant' /\ KeepsEvidence
  BY <1>1, NextInvariant, EvidenceKept
<1>3. TypeOK /\ IndexesAgree /\ QueueIsTail /\ sequence \in Nat
  BY <1>1, StoreAssumption DEF StoreInvariant, TypeOK
<1>4. PICK n \in Nat : n = sequence + 1
  BY <1>3
<1>5. PICK id \in EvidenceIDs \ DOMAIN evidence :
        /\ n \in 1 .. MaxSequence /\ sequence' = n
        /\ sk \notin DOMAIN sources
        /\ DOMAIN evidence' = DOMAIN evidence \cup {id}
        /\ evidence'[id] = [sequence |-> n, source |-> source, witness |-> w,
                            batch |-> NoBatch, index |-> 0]
        /\ DOMAIN pending' = DOMAIN pending \cup {n}
  <2>1. PICK id \in EvidenceIDs \ DOMAIN evidence :
          /\ evidence' = Put(evidence, id, [sequence |-> sequence + 1, source |-> source, witness |-> w,
                                            batch |-> NoBatch, index |-> 0])
          /\ pending' = Put(pending, sequence + 1, id)
    BY DEF IngestCreate, NewID
  <2>2. sequence < MaxSequence /\ sequence' = sequence + 1 /\ sk \notin DOMAIN sources
    BY DEF IngestCreate, Lookup
  <2>3. QED
    BY <1>3, <1>4, <2>1, <2>2, StoreAssumption DEF Put
<1>6. UNCHANGED <<batches, batchKeys>>
  BY DEF IngestCreate
<1>7. Log' = Append(Log, [about |-> sk, witness |-> w])
  <2>1. id \in DOMAIN evidence' /\ evidence'[id].sequence = n /\ n \in 1 .. sequence'
    BY <1>3, <1>4, <1>5
  <2>2. \A x, y \in DOMAIN evidence' : evidence'[x].sequence = evidence'[y].sequence => x = y
    BY <1>2 DEF StoreInvariant, PendingOrBatched
  <2>3. Numbered(n)' = id
    BY <2>1, <2>2 DEF Numbered
  <2>4. Log'[n] = [about |-> sk, witness |-> w]
    BY <1>5, <2>1, <2>3 DEF Log, Keyed
  <2>5. \A m \in 1 .. sequence : Log'[m] = Log[m]
    BY <1>1, <1>2, <1>3, <1>4, <1>5, EntriesKept
  <2>6. Log' = [m \in 1 .. n |-> Log'[m]] /\ Log = [m \in 1 .. sequence |-> Log[m]]
    BY <1>5 DEF Log
  <2>7. Len(Log) = sequence
    BY <1>3, <2>6
  <2>8. QED
    BY <1>3, <1>4, <2>4, <2>5, <2>6, <2>7
<1>8. Front' = Front
  <2>1. PICK head \in 0 .. sequence : DOMAIN pending = head + 1 .. sequence
    BY <1>3 DEF QueueIsTail
  <2>2. DOMAIN pending' = head + 1 .. sequence' /\ sequence' \in Nat /\ head <= sequence'
    BY <1>3, <1>4, <1>5, <2>1
  <2>3. Front = head
    BY <1>3, <2>1, HeadIs
  <2>4. Cardinality(head + 1 .. sequence') = sequence' - (head + 1) + 1
    BY <2>1, <2>2, IntervalSize
  <2>5. QED
    BY <2>1, <2>2, <2>3, <2>4 DEF Front
<1>9. Cuts' = Cuts
  <2>1. \A k \in DOMAIN batchKeys : Interval(batches[batchKeys[k]])' = Interval(batches[batchKeys[k]])
    BY <1>2, <1>6, IntervalKept DEF LedgerSound, KeysNameBatches, Interval
  <2>2. QED
    BY <1>6, <2>1 DEF Cuts
<1>10. \A i \in DOMAIN Log : Log[i].about # sk
  BY <1>1, <1>3, <1>5, NumberedIs DEF IndexesAgree, Log
<1>11. Len(Log) < MaxSequence
  BY <1>3, <1>4, <1>5, StoreAssumption DEF Log
<1>12. QED
  BY <1>7, <1>8, <1>9, <1>10, <1>11 DEF Ledger!Record, Log, Front, Cuts

(* A freeze cuts the oldest entries, as many as its limit and the queue allow. *)
LEMMA FreezeCuts ==
  ASSUME LedgerSound, NEW key \in RequestKeys, NEW limit \in Limits, FreezeNew(key, limit)
  PROVE  Ledger!Cut(key, limit)
<1>1. StoreInvariant /\ Next
  BY DEF LedgerSound, Next
<1>2. StoreInvariant' /\ KeepsEvidence /\ KeepsFreezes
  BY <1>1, NextInvariant, EvidenceKept, FreezesKept
<1>3. TypeOK /\ PendingOrBatched /\ sequence \in Nat /\ limit \in Nat \ {0}
  BY <1>1, StoreAssumption DEF StoreInvariant, TypeOK, Limits
<1>4. UNCHANGED sequence /\ key \notin DOMAIN batchKeys
  BY DEF FreezeNew
<1>4a. PICK head \in 0 .. sequence, m \in 1 .. limit, b \in BatchIDs \ DOMAIN batches :
        m = Taken(head, sequence, limit) /\ FreezesAt(key, limit, head, m, b)
  BY <1>1, FreezeEffect
<1>5. /\ head \in 0 .. sequence /\ m \in 1 .. limit /\ b \in BatchIDs \ DOMAIN batches
      /\ DOMAIN pending = head + 1 .. sequence /\ head + m <= sequence
      /\ m = Taken(head, sequence, limit)
      /\ pending' = Delete(pending, head + 1 .. head + m)
      /\ batchKeys' = Put(batchKeys, key, b)
      /\ \E manifest : batches' = Put(batches, b,
           [limit |-> limit, manifest |-> manifest, members |-> [i \in 1 .. m |-> pending[head + i]],
            state |-> "not_submitted", ref |-> NoReference])
  BY <1>4a DEF FreezesAt
<1> DEFINE members == [i \in 1 .. m |-> pending[head + i]]
<1>6. head \in Nat /\ m \in Nat /\ 1 <= m /\ head < sequence
  BY <1>3, <1>5
<1>7. Log' = Log
  <2>1. \A n \in 1 .. sequence : Log'[n] = Log[n]
    BY <1>1, <1>2, <1>4, EntriesKept
  <2>2. Log' = [n \in 1 .. sequence |-> Log'[n]] /\ Log = [n \in 1 .. sequence |-> Log[n]]
    BY <1>4 DEF Log
  <2>3. QED
    BY <2>1, <2>2
<1>8. Front = head
  BY <1>3, <1>5, <1>6, HeadIs
<1>9. Front' = head + m
  <2>1. DOMAIN pending' = head + m + 1 .. sequence
    BY <1>3, <1>5, <1>6 DEF Delete
  <2>2. PICK next \in Nat : next = head + m + 1
    BY <1>6
  <2>3. next <= sequence + 1 /\ sequence \in Int /\ next \in Int
    BY <1>3, <1>5, <1>6, <2>2
  <2>4. Cardinality(next .. sequence) = sequence - next + 1
    BY <2>3, IntervalSize
  <2>5. QED
    BY <1>3, <1>4, <1>6, <2>1, <2>2, <2>4 DEF Front
<1> DEFINE cut == [first |-> head + 1, last |-> head + m, limit |-> limit, settled |-> FALSE]
<1>10. Interval(batches[b])' = cut
  <2>1. /\ batches'[b].members = members /\ batches'[b].limit = limit
        /\ batches'[b].state = "not_submitted"
    BY <1>5 DEF Put
  <2>2. Len(members) = m /\ members[1] = pending[head + 1] /\ members[m] = pending[head + m]
    BY <1>6
  <2>3. \A s \in {head + 1, head + m} :
          pending[s] \in DOMAIN evidence /\ evidence[pending[s]].sequence = s
    BY <1>3, <1>5, <1>6 DEF PendingOrBatched
  <2>4. \A s \in {head + 1, head + m} : evidence'[pending[s]].sequence = s
    BY <1>2, <2>3 DEF KeepsEvidence
  <2> HIDE DEF members
  <2>5. QED
    BY <2>1, <2>2, <2>4 DEF Interval
<1>11. Cuts' = [k \in DOMAIN Cuts \cup {key} |-> IF k = key THEN cut ELSE Cuts[k]]
  <2>1. \A k \in DOMAIN batchKeys :
          /\ batchKeys'[k] = batchKeys[k] /\ batchKeys[k] \in DOMAIN batches
          /\ batches'[batchKeys[k]] = batches[batchKeys[k]]
    BY <1>4, <1>5 DEF Put, LedgerSound, KeysNameBatches
  <2>2. \A c \in DOMAIN batches :
          batches'[c] = batches[c] => Interval(batches[c])' = Interval(batches[c])
    BY <1>2, IntervalStays
  <2>3. \A k \in DOMAIN batchKeys : Cuts'[k] = Cuts[k]
    BY <1>5, <2>1, <2>2 DEF Cuts, Put
  <2>4. Cuts'[key] = cut
    BY <1>5, <1>10 DEF Cuts, Put
  <2>5. Cuts' = [k \in DOMAIN batchKeys \cup {key} |-> Cuts'[k]] /\ DOMAIN Cuts = DOMAIN batchKeys
    BY <1>5 DEF Cuts, Put
  <2> HIDE DEF cut
  <2>6. QED
    BY <1>4, <2>3, <2>4, <2>5
<1>12. /\ Len(Log) = sequence
       /\ head + m = IF head + limit <= sequence THEN head + limit ELSE sequence
  BY <1>3, <1>5, <1>6 DEF Log, Taken
<1>13. key \notin DOMAIN Cuts
  BY <1>4 DEF Cuts
<1>14. QED
  BY <1>6, <1>7, <1>8, <1>9, <1>11, <1>12, <1>13 DEF Ledger!Cut, Log, Front, Cuts

(* Recording progress settles a cut or changes nothing the ledger knows of. *)
LEMMA RecordSettles ==
  ASSUME LedgerSound, NEW b \in BatchIDs, NEW state \in SubmissionStates,
         NEW ref \in References \cup {NoReference}, RecordSubmission(b, state, ref)
  PROVE  (\E key \in RequestKeys : Ledger!Settle(key)) \/ UNCHANGED <<Log, Front, Cuts>>
<1>1. StoreInvariant /\ TypeOK /\ Next /\ b \in DOMAIN batches
  BY DEF LedgerSound, StoreInvariant, Next, RecordSubmission
<1>2. UNCHANGED <<evidence, pending, sequence, batchKeys>>
  BY DEF RecordSubmission
<1>3. KeepsEvidence
  BY <1>1, EvidenceKept
<1>4. Log' = Log /\ Front' = Front
  BY <1>2 DEF Log, Front, Numbered, Keyed
<1>5. /\ batches'[b].state = state
      /\ \A x \in DOMAIN batches : x # b => batches'[x] = batches[x]
      /\ \A x \in DOMAIN batches : batches'[x].limit = batches[x].limit /\ batches'[x].members = batches[x].members
  BY <1>1, RecordEffect
<1>6. PICK key \in DOMAIN batchKeys : batchKeys[key] = b
  BY <1>1 DEF LedgerSound, KeysNameBatches
<1>7. \A k \in DOMAIN batchKeys : batchKeys[k] \in DOMAIN batches /\ (batchKeys[k] = b => k = key)
  BY <1>6 DEF LedgerSound, KeysNameBatches
<1>8. ASSUME NEW k \in DOMAIN batchKeys, k # key PROVE Cuts'[k] = Cuts[k]
  <2>1. batches'[batchKeys[k]] = batches[batchKeys[k]]
    BY <1>5, <1>7, <1>8
  <2>2. QED
    BY <1>2, <2>1 DEF Cuts, Interval
<1>9. Cuts'[key] = [Cuts[key] EXCEPT !.settled = (state = "submitted")]
  BY <1>1, <1>2, <1>5, <1>6 DEF Cuts, Interval
<1>10. Cuts' = [k \in DOMAIN batchKeys |-> Cuts'[k]] /\ Cuts = [k \in DOMAIN batchKeys |-> Cuts[k]]
  BY <1>2 DEF Cuts
<1>11. key \in RequestKeys
  BY <1>1 DEF TypeOK, IsBucket
<1>12. CASE state = "submitted"
  <2>1. Cuts' = [Cuts EXCEPT ![key].settled = TRUE]
    BY <1>8, <1>9, <1>10, <1>12
  <2>2. Ledger!Settle(key)
    BY <1>4, <1>10, <2>1 DEF Ledger!Settle, Log, Front, Cuts
  <2>3. QED
    BY <1>11, <2>2
<1>13. CASE state # "submitted"
  <2>1. batches[b].state # "submitted"
    BY <1>13 DEF RecordSubmission, Regresses
  <2>2. Cuts[key].settled = FALSE
    BY <1>6, <2>1 DEF Cuts, Interval
  <2>3. Cuts'[key] = Cuts[key]
    BY <1>9, <1>13, <2>2 DEF Cuts, Interval
  <2>4. QED
    BY <1>4, <1>8, <1>10, <2>3
<1>14. QED
  BY <1>12, <1>13

LEMMA StepLedger == LedgerSound /\ [Next]_vars => [Ledger!Next]_(Ledger!vars)
<1>1. UNCHANGED <<Log, Front, Cuts>> => UNCHANGED Ledger!vars
  BY DEF Log, Front, Cuts, Ledger!vars
<1>2. UNCHANGED <<evidence, pending, sequence, batches, batchKeys>> => UNCHANGED <<Log, Front, Cuts>>
  BY DEF Log, Front, Cuts, Numbered, Keyed, Interval
<1>3. ASSUME LedgerSound, NEW key \in IdempotencyKeys, NEW source \in Sources, NEW w \in Witnesses,
             IngestCreate(key, source, w)
      PROVE  Ledger!Next
  <2>1. SourceKey(source, w.representation) \in SourceKeys
    BY DEF SourceKey, SourceKeys, Witnesses
  <2>2. QED
    BY <1>3, <2>1, CreateRecords DEF Ledger!Next
<1>4. ASSUME LedgerSound, NEW key \in RequestKeys, NEW limit \in Limits, FreezeNew(key, limit)
      PROVE  Ledger!Next
  BY <1>4, FreezeCuts DEF Ledger!Next, Limits
<1>5. ASSUME LedgerSound, NEW b \in BatchIDs, NEW state \in SubmissionStates,
             NEW ref \in References \cup {NoReference}, RecordSubmission(b, state, ref)
      PROVE  [Ledger!Next]_(Ledger!vars)
  BY <1>1, <1>5, RecordSettles DEF Ledger!Next
<1>6. QED
  BY <1>1, <1>2, <1>3, <1>4, <1>5 DEF Next, Ingest, IngestExisting, FreezeExisting, vars

(* Every run of the store is a run of the ledger. *)
THEOREM StoreIsLedger == Spec => ImplementsLedger
<1>1. Init => LedgerSound
  BY InitInvariant, KeysNameBatchesInit DEF LedgerSound
<1>2. LedgerSound /\ [Next]_vars => LedgerSound'
  BY NextInvariant, KeysNameBatchesNext DEF LedgerSound
<1>3. Init => Ledger!Init
  <2>1. Init => /\ sequence = 0 /\ DOMAIN pending = {} /\ DOMAIN batchKeys = {}
    BY DEF Init, EmptyBucket
  <2>2. Init => Log = <<>> /\ Front = 0 /\ Cuts = [key \in {} |-> 0]
    BY <2>1, FS_EmptySet DEF Log, Front, Cuts
  <2>3. QED
    BY <2>2 DEF Ledger!Init, Log, Front, Cuts
<1>4. QED
  BY <1>1, <1>2, <1>3, StepLedger, PTL DEF Spec, ImplementsLedger, Ledger!Spec
================================================================================
