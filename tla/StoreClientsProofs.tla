--------------------------- MODULE StoreClientsProofs ---------------------------
(***************************************************************************)
(* Proofs about what uses the store, for any number of workers, clients,   *)
(* batches and records: submission workers, who forget no batch, and the   *)
(* HTTP handlers, whose answers agree with one another.                    *)
(***************************************************************************)
EXTENDS OutboxWorker, HTTPSession, PackageProofs

--------------------------------------------------------------------------------
(* Workers: what a worker holds is what the batch was frozen with, and
   "submitted" is only ever recorded of what the provider has. *)

Known == {"listed", "unknown", "not_submitted", "submitted"}
Tasks == [batch : BatchIDs, manifest : Manifests, known : Known]

\* A worker holds a batch's own manifest, and knows it submitted only if it is.
TaskSound(t) ==
  t # NoTask =>
    /\ t \in Tasks
    /\ t.batch \in DOMAIN batches
    /\ t.manifest = batches[t.batch].manifest
    /\ t.known = "submitted" => t.manifest \in provider
TasksSound == task = [w \in Workers |-> task[w]] /\ \A w \in Workers : TaskSound(task[w])

\* What is recorded as submitted is with the provider.
SubmittedArrived ==
  \A b \in DOMAIN batches : batches[b].state = "submitted" => batches[b].manifest \in provider

WorkersSound == StoreInvariant /\ TasksSound /\ SubmittedArrived

(* The store's outbox then has whatever may be missing. *)
LEMMA SoundForgetsNothing == WorkersSound => NothingForgotten
  BY DEF WorkersSound, SubmittedArrived, StoreInvariant, OutboxExact, NothingForgotten

(* A step of a worker that leaves the store alone. *)
LEMMA WorkerSound ==
  ASSUME WorkersSound, NEW w \in Workers,
         Take(w) \/ Accepted(w) \/ Refused(w) \/ Unanswered(w) \/ Die(w)
  PROVE  WorkersSound'
<1> USE DEF WorkersSound
<1>1. UNCHANGED vars /\ provider \subseteq provider'
  BY DEF Take, Accepted, Refused, Unanswered, Die, Sending
<1>2. StoreInvariant' /\ SubmittedArrived'
  BY <1>1, NextInvariant DEF SubmittedArrived, vars
<1>3. ASSUME NEW t, task' = [task EXCEPT ![w] = t], TaskSound(t)' PROVE TasksSound'
  BY <1>1, <1>3 DEF TasksSound, TaskSound, vars
<1>4. CASE Take(w)
  <2>1. PICK b \in DOMAIN outbox :
          /\ ListingSound(b)
          /\ task' = [task EXCEPT ![w] = [batch |-> b, manifest |-> outbox[b], known |-> "listed"]]
    BY <1>4 DEF Take, OutboxPage
  <2>2. b \in BatchIDs /\ outbox[b] \in Manifests
    BY DEF StoreInvariant, TypeOK, IsBucket
  <2>3. QED
    BY <1>1, <1>2, <1>3, <2>1, <2>2 DEF ListingSound, TaskSound, Tasks, Known, vars
<1>5. ASSUME NEW known \in Known, Sending(w), Learns(w, known),
             known = "submitted" => task[w].manifest \in provider'
      PROVE  TasksSound'
  <2>1. task[w] \in Tasks /\ TaskSound(task[w])
    BY <1>5 DEF Sending, TasksSound, TaskSound
  <2>2. [task[w] EXCEPT !.known = known] \in Tasks
    BY <2>1 DEF Tasks
  <2>3. task' = [task EXCEPT ![w] = [task[w] EXCEPT !.known = known]]
    BY <1>5 DEF Learns
  <2>4. QED
    BY <1>1, <1>3, <1>5, <2>1, <2>2, <2>3 DEF TaskSound, Tasks, Sending, vars
<1>6. CASE Accepted(w) \/ Refused(w) \/ Unanswered(w)
  BY <1>2, <1>5, <1>6 DEF Accepted, Refused, Unanswered, Known
<1>7. CASE Die(w)
  BY <1>2, <1>3, <1>7 DEF Die, TaskSound
<1>8. QED
  BY <1>4, <1>6, <1>7

(* A transaction of the store keeps batches and what workers hold of them. *)
LEMMA TasksKept ==
  ASSUME WorkersSound, Next, UNCHANGED provider,
         NEW t, TaskSound(t)
  PROVE  TaskSound(t)'
  BY FreezesKept DEF WorkersSound, KeepsFreezes, TaskSound

(* A worker records what it knows. *)
LEMMA RecordSound == ASSUME WorkersSound, NEW w \in Workers, Record(w) PROVE WorkersSound'
<1> USE DEF WorkersSound
<1> DEFINE t == task[w]
<1>1. /\ t \in Tasks /\ t.batch \in BatchIDs /\ t.known \in SubmissionStates
      /\ t.known = "submitted" => batches[t.batch].manifest \in provider
      /\ UNCHANGED provider /\ task' = [task EXCEPT ![w] = NoTask]
  BY DEF Record, TasksSound, TaskSound, Tasks, Known, SubmissionStates
<1>2. CASE UNCHANGED vars
  <2>1. StoreInvariant'
    BY <1>2, NextInvariant
  <2>2. QED
    BY <1>1, <1>2, <2>1 DEF vars, TasksSound, TaskSound, SubmittedArrived
<1>3. ASSUME NEW ref \in References \cup {NoReference}, RecordSubmission(t.batch, t.known, ref)
      PROVE  WorkersSound'
  <2>1. Next
    BY <1>1, <1>3 DEF Next
  <2>2. StoreInvariant'
    BY <2>1, NextInvariant
  <2>3. TasksSound'
    BY <1>1, <2>1, TasksKept DEF TasksSound, TaskSound
  <2>4. /\ DOMAIN batches' = DOMAIN batches
        /\ batches'[t.batch].state = t.known
        /\ \A x \in DOMAIN batches : x # t.batch => batches'[x] = batches[x]
        /\ \A x \in DOMAIN batches : batches'[x].manifest = batches[x].manifest
    BY <1>1, <1>3, RecordEffect DEF StoreInvariant
  <2>5. SubmittedArrived'
    BY <1>1, <2>4 DEF SubmittedArrived
  <2>6. QED
    BY <2>2, <2>3, <2>5
<1>4. QED
  BY <1>2, <1>3 DEF Record

(* What callers choose afresh is one of the names there are. *)
LEMMA FreshAmong == ASSUME NEW names, NEW used, NEW x \in Fresh(names, used) PROVE x \in names
  BY DEF Fresh

(* Other callers ingest and freeze. *)
LEMMA CallersSound == WorkersSound /\ Callers => WorkersSound'
<1> SUFFICES ASSUME WorkersSound, Callers PROVE WorkersSound'
  OBVIOUS
<1> USE DEF WorkersSound
<1>1. UNCHANGED <<task, provider>>
  BY DEF Callers
<1>2. ASSUME NEW key \in IdempotencyKeys, NEW source \in Sources, NEW w \in Witnesses,
             IngestCreate(key, source, w)
      PROVE  Next /\ UNCHANGED batches
  BY <1>2 DEF Next, Ingest, IngestCreate
<1>3. ASSUME NEW key \in RequestKeys, NEW limit \in Limits, FreezeNew(key, limit)
      PROVE  Next /\ \A b \in DOMAIN batches' :
               (b \in DOMAIN batches /\ batches'[b] = batches[b]) \/ batches'[b].state = "not_submitted"
  <2>1. \E b \in BatchIDs : \E f : f.state = "not_submitted" /\ batches' = Put(batches, b, f)
    BY <1>3 DEF FreezeNew, NewID
  <2>2. QED
    BY <1>3, <2>1 DEF Next, Put
<1>4. Next /\ \A b \in DOMAIN batches' :
        (b \in DOMAIN batches /\ batches'[b] = batches[b]) \/ batches'[b].state = "not_submitted"
  BY <1>2, <1>3, FreshAmong DEF Callers
<1>5. StoreInvariant' /\ SubmittedArrived'
  BY <1>1, <1>4, NextInvariant DEF SubmittedArrived
<1>6. TasksSound'
  BY <1>1, <1>4, TasksKept DEF TasksSound
<1>7. QED
  BY <1>5, <1>6

(* WorkersSound holds however workers send, learn, record late and die. *)
THEOREM WorkerInvariance == WorkerSpec => []WorkersSound
<1>1. WorkerInit => WorkersSound
  <2>1. WorkerInit => DOMAIN batches = {}
    BY DEF WorkerInit, Init, EmptyBucket
  <2>2. QED
    BY <2>1, InitInvariant DEF WorkerInit, WorkersSound, TasksSound, TaskSound, SubmittedArrived
<1>2. WorkersSound /\ UNCHANGED workerVars => WorkersSound'
  <2>1. WorkersSound /\ UNCHANGED workerVars => StoreInvariant'
    BY NextInvariant DEF workerVars, WorkersSound
  <2>2. QED
    BY <2>1 DEF workerVars, vars, WorkersSound, TasksSound, TaskSound, SubmittedArrived
<1>3. WorkersSound /\ [WorkerNext]_workerVars => WorkersSound'
  BY <1>2, WorkerSound, RecordSound, CallersSound DEF WorkerNext
<1>4. QED
  BY <1>1, <1>3, PTL DEF WorkerSpec

(* What the provider may still lack is in the outbox, with its own manifest. *)
THEOREM NothingEverForgotten == WorkerSpec => []NothingForgotten
  BY WorkerInvariance, SoundForgetsNothing, PTL

--------------------------------------------------------------------------------
(* Handlers *)

\* An answer as a handler makes it: every claim is one of the present store, and
\* what a refusal says is missing is missing.
Truthful(a) ==
  /\ \A r \in a.records : r.id \in DOMAIN evidence /\ r = RecordClaim(r.id)
  /\ \A b \in a.batches : b.batch \in DOMAIN batches /\ b = BatchClaim(b.batch)
  /\ \A l \in a.listed : l.batch \in DOMAIN outbox /\ l.manifest = outbox[l.batch]
  /\ \A p \in a.packages : p.id \in DOMAIN evidence /\ Batched(p.id) /\ p = PackageClaim(p.id)
  /\ a.code = "not_found" => a.about \cap (DOMAIN evidence \cup DOMAIN batches) = {}
  /\ a.code = "not_batched" => a.about \cap {id \in DOMAIN evidence : Batched(id)} = {}
  /\ a.code = "internal_error" => a.endpoint = "ingest" /\ sequence = MaxSequence

(* writeStorageError has a code of its own for every error but ErrCorrupt. *)
LEMMA ErrorCodes ==
  /\ writeStorageError("ErrInvalid") = "invalid_request"
  /\ writeStorageError("ErrConflict") = "conflict"
  /\ writeStorageError("ErrNotFound") = "not_found"
  /\ writeStorageError("ErrNotBatched") = "not_batched"
  /\ writeStorageError("ErrEmpty") = "no_pending_evidence"
  BY DEF writeStorageError

(* A refusal that names nothing is truthful, whatever its reason but ErrCorrupt. *)
LEMMA RefusalTruthful ==
  ASSUME NEW endpoint, NEW about, NEW err \in {"ErrInvalid", "ErrConflict", "ErrNotFound", "ErrNotBatched", "ErrEmpty"},
         Refuse(endpoint, about, err),
         err = "ErrNotFound" => about \cap (DOMAIN evidence \cup DOMAIN batches) = {},
         err = "ErrNotBatched" => about \cap {id \in DOMAIN evidence : Batched(id)} = {}
  PROVE  [Next]_vars /\ Truthful(answer)'
<1>1. answer' = Answer(endpoint, writeStorageError(err), about, {}, {}, {}, {}) /\ UNCHANGED vars
  BY DEF Refuse
<1>2. /\ answer'.code = writeStorageError(err) /\ answer'.about = about
      /\ answer'.records = {} /\ answer'.batches = {} /\ answer'.listed = {} /\ answer'.packages = {}
  BY <1>1 DEF Answer
<1> QED BY <1>1, <1>2, ErrorCodes DEF Truthful, vars, Batched

(* Ingestion answers the record as it stands in the store afterwards. *)
LEMMA IngestTruthful ==
  ASSUME StoreInvariant, NEW key \in IdempotencyKeys, NEW s \in Sources, NEW r \in Representations,
         NEW d \in Documents, ingest(key, s, r, d)
  PROVE  [Next]_vars /\ Truthful(answer)'
<1> DEFINE sk == SourceKey(s, r)
<1>1. ASSUME NEW n \in Nonces,
             IngestCreate(key, s, [representation |-> r, digest |-> Digest(d), nonce |-> n]),
             answer' = Answer("ingest", "created", {}, {RecordClaim(keys[key])'}, {}, {}, {})
      PROVE  [Next]_vars /\ Truthful(answer)'
  <2> DEFINE w == [representation |-> r, digest |-> Digest(d), nonce |-> n]
  <2>1. w \in Witnesses
    BY DEF Witnesses, Digests, Digest
  <2> HIDE DEF w
  <2>2. IngestCreate(key, s, w)
    BY <1>1 DEF w
  <2>3. Next
    BY <2>1, <2>2 DEF Next, Ingest
  <2>4. StoreInvariant'
    BY <2>3, NextInvariant
  <2>5. key \in DOMAIN keys'
    BY <2>2 DEF IngestCreate, Put
  <2>6. PICK id : id = keys'[key]
    OBVIOUS
  <2>7. id \in DOMAIN evidence'
    BY <2>4, <2>5, <2>6 DEF StoreInvariant, IndexesAgree
  <2>8. answer' = Answer("ingest", "created", {}, {RecordClaim(id)'}, {}, {}, {})
    BY <1>1, <2>6 DEF RecordClaim, Keyed, SourceKey, Batched
  <2>9. RecordClaim(id)'.id = id
    BY DEF RecordClaim
  <2> QED BY <2>3, <2>7, <2>8, <2>9 DEF Truthful, Answer
<1>2. ASSUME NEW id \in Lookup(key, sk),
             answer' = Answer("ingest", "ok", {}, {RecordClaim(id)}, {}, {}, {}), UNCHANGED vars
      PROVE  [Next]_vars /\ Truthful(answer)'
  <2>1. id \in DOMAIN evidence
    BY DEF Lookup, StoreInvariant, IndexesAgree
  <2>2. RecordClaim(id)' = RecordClaim(id) /\ RecordClaim(id).id = id
    BY <1>2 DEF RecordClaim, Keyed, SourceKey, Batched, vars
  <2> QED BY <1>2, <2>1, <2>2 DEF Truthful, Answer, vars
<1>3. Refuse("ingest", {}, "ErrConflict") => [Next]_vars /\ Truthful(answer)'
  BY RefusalTruthful
<1>4. ASSUME sequence = MaxSequence, Refuse("ingest", {}, "ErrCorrupt")
      PROVE  [Next]_vars /\ Truthful(answer)'
  <2>1. answer' = Answer("ingest", "internal_error", {}, {}, {}, {}, {}) /\ UNCHANGED vars
    BY <1>4 DEF Refuse, writeStorageError
  <2> QED BY <1>4, <2>1 DEF Truthful, Answer, vars
<1> QED BY <1>1, <1>2, <1>3, <1>4 DEF ingest, FreshNonces

(* Freezing answers the batch its key names afterwards. *)
LEMMA FreezeTruthful ==
  ASSUME LedgerSound, NEW key \in RequestKeys, NEW limit \in Limits \cup {0}, freeze(key, limit)
  PROVE  [Next]_vars /\ Truthful(answer)'
<1>1. CASE FreezeError(key, limit) # "nil"
  <2>1. Refuse("freeze", {}, FreezeError(key, limit))
    BY <1>1 DEF freeze
  <2>2. FreezeError(key, limit) \in {"ErrInvalid", "ErrNotFound", "ErrConflict", "ErrEmpty"}
    <3>1. limit \in Limits => ScanSound(limit)
      BY InvariantNeverCorrupt DEF NeverCorrupt, LedgerSound
    <3>2. key \in DOMAIN batchKeys => batchKeys[key] \in DOMAIN batches
        BY DEF LedgerSound, KeysNameBatches
    <3>3. key \in DOMAIN batchKeys => FrozenSound(batchKeys[key])
      BY <3>2, InvariantNeverCorrupt DEF NeverCorrupt, LedgerSound
    <3> QED BY <1>1, <3>1, <3>3 DEF FreezeError
  <2> QED BY <2>1, <2>2, RefusalTruthful
<1>2. CASE FreezeError(key, limit) = "nil"
  <2>1. limit \in Limits
    BY <1>2 DEF FreezeError
  <2>2. /\ FreezeNew(key, limit) \/ FreezeExisting(key, limit)
        /\ answer' = Answer("freeze", "created", {}, {}, {BatchClaim(batchKeys[key])'}, {}, {})
    BY <1>2 DEF freeze
  <2>3. Next
    BY <2>1, <2>2 DEF Next
  <2>4. KeysNameBatches'
    BY <2>3, KeysNameBatchesNext
  <2>5. key \in DOMAIN batchKeys'
    BY <2>2 DEF FreezeNew, FreezeExisting, Put, vars
  <2>6. PICK b : b = batchKeys'[key]
    OBVIOUS
  <2>7. b \in DOMAIN batches'
    BY <2>4, <2>5, <2>6 DEF KeysNameBatches
  <2>8. answer' = Answer("freeze", "created", {}, {}, {BatchClaim(b)'}, {}, {})
    BY <2>2, <2>6 DEF BatchClaim
  <2>9. BatchClaim(b)'.batch = b
    BY DEF BatchClaim
  <2> QED BY <2>3, <2>7, <2>8, <2>9 DEF Truthful, Answer
<1> QED BY <1>1, <1>2

(* The read transactions answer what they find, or say what is missing. *)
LEMMA ReadTruthful ==
  ASSUME NEW endpoint, NEW about, NEW err \in {"nil", "ErrInvalid", "ErrNotFound", "ErrNotBatched"}, NEW response,
         Read(endpoint, about, err, response),
         err = "nil" => Truthful(response),
         err = "ErrNotFound" => about \cap (DOMAIN evidence \cup DOMAIN batches) = {},
         err = "ErrNotBatched" => about \cap {id \in DOMAIN evidence : Batched(id)} = {}
  PROVE  [Next]_vars /\ Truthful(answer)'
<1>1. CASE err = "nil"
  <2>1. answer' = response /\ UNCHANGED vars
    BY <1>1 DEF Read
  <2>2. UNCHANGED <<evidence, batches, outbox, sequence>>
    BY <2>1 DEF vars
  <2>3. \A x : RecordClaim(x)' = RecordClaim(x) /\ BatchClaim(x)' = BatchClaim(x)
               /\ PackageClaim(x)' = PackageClaim(x)
    BY <2>2 DEF RecordClaim, BatchClaim, PackageClaim, Keyed, SourceKey, Batched
  <2> QED BY <1>1, <2>1, <2>2, <2>3 DEF Truthful, Batched
<1>2. CASE err # "nil"
  BY <1>2, RefusalTruthful DEF Read
<1> QED BY <1>1, <1>2

LEMMA ReadsTruthful ==
  ASSUME LedgerSound
  PROVE  /\ \A b \in BatchIDs : batchStatus(b) => [Next]_vars /\ Truthful(answer)'
         /\ \A limit \in Limits \cup {0} : outboxPage(limit) => [Next]_vars /\ Truthful(answer)'
         /\ \A id \in EvidenceIDs : evidenceStatus(id) \/ packageExport(id) => [Next]_vars /\ Truthful(answer)'
<1>1. NeverCorrupt /\ OutboxExact /\ TypeOK
  BY InvariantNeverCorrupt DEF LedgerSound, StoreInvariant
<1>2. DOMAIN evidence \subseteq EvidenceIDs /\ DOMAIN batches \subseteq BatchIDs
  BY <1>1 DEF TypeOK, IsBucket
<1>3. ASSUME NEW b \in BatchIDs, batchStatus(b) PROVE [Next]_vars /\ Truthful(answer)'
  <2> DEFINE response == Answer("batch", "ok", {b}, {}, {BatchClaim(b)}, {}, {})
  <2>1. BatchError(b) \in {"nil", "ErrNotFound"} /\ (BatchError(b) = "nil" <=> b \in DOMAIN batches)
    BY <1>1 DEF BatchError, NeverCorrupt
  <2>2. BatchError(b) = "ErrNotFound" => {b} \cap (DOMAIN evidence \cup DOMAIN batches) = {}
    BY <1>2, <2>1, SessionAssumption
  <2>3. BatchError(b) = "nil" => Truthful(response)
    BY <2>1 DEF Truthful, Answer, BatchClaim
  <2>4. Read("batch", {b}, BatchError(b), response)
    BY <1>3 DEF batchStatus
  <2> HIDE DEF response
  <2> QED BY <2>1, <2>2, <2>3, <2>4, ReadTruthful
<1>4. ASSUME NEW limit \in Limits \cup {0}, outboxPage(limit) PROVE [Next]_vars /\ Truthful(answer)'
  <2> DEFINE response == Answer("outbox", "ok", {}, {}, {}, {ListedClaim(b) : b \in OutboxPage(limit)}, {})
             err == IF queryLimit(limit) # "nil" THEN queryLimit(limit) ELSE OutboxError(limit)
  <2>1. err \in {"nil", "ErrInvalid", "ErrNotFound"}
    BY <1>1 DEF queryLimit, OutboxError, NeverCorrupt
  <2>2. \A b \in OutboxPage(limit) :
          b \in DOMAIN outbox /\ ListedClaim(b).batch = b /\ ListedClaim(b).manifest = outbox[b]
    BY DEF OutboxPage, ListedClaim
  <2>3. Truthful(response)
    BY <2>2 DEF Truthful, Answer
  <2>4. Read("outbox", {}, err, response)
    BY <1>4 DEF outboxPage
  <2> HIDE DEF response, err
  <2> QED BY <2>1, <2>3, <2>4, ReadTruthful
<1>5. ASSUME NEW id \in EvidenceIDs, evidenceStatus(id) PROVE [Next]_vars /\ Truthful(answer)'
  <2> DEFINE response == Answer("evidence", "ok", {id}, {RecordClaim(id)}, {}, {}, {})
  <2>1. /\ EvidenceError(id) \in {"nil", "ErrNotFound"}
        /\ EvidenceError(id) = "nil" <=> id \in DOMAIN evidence
    BY DEF EvidenceError
  <2>2. EvidenceError(id) = "ErrNotFound" => {id} \cap (DOMAIN evidence \cup DOMAIN batches) = {}
    BY <1>2, <2>1, SessionAssumption
  <2>3. EvidenceError(id) = "nil" => Truthful(response)
    BY <2>1 DEF Truthful, Answer, RecordClaim
  <2>4. Read("evidence", {id}, EvidenceError(id), response)
    BY <1>5 DEF evidenceStatus
  <2> HIDE DEF response
  <2> QED BY <2>1, <2>2, <2>3, <2>4, ReadTruthful
<1>6. ASSUME NEW id \in EvidenceIDs, packageExport(id) PROVE [Next]_vars /\ Truthful(answer)'
  <2> DEFINE response == Answer("package", "ok", {id}, {}, {}, {}, {PackageClaim(id)})
  <2>1. /\ ExportError(id) \in {"nil", "ErrNotFound", "ErrNotBatched"}
        /\ ExportError(id) = "nil" => id \in DOMAIN evidence /\ Batched(id)
        /\ ExportError(id) = "ErrNotFound" => id \notin DOMAIN evidence
        /\ ExportError(id) = "ErrNotBatched" => ~Batched(id)
    <3>1. id \in DOMAIN evidence /\ Batched(id) => PackageSound(id) /\ Marshals(UnanchoredPackage(id))
      BY <1>1, PackageOf DEF LedgerSound, NeverCorrupt
    <3> QED BY <3>1 DEF ExportError
  <2>2. ExportError(id) = "ErrNotFound" => {id} \cap (DOMAIN evidence \cup DOMAIN batches) = {}
    BY <1>2, <2>1, SessionAssumption
  <2>3. ExportError(id) = "nil" => Truthful(response)
    BY <2>1 DEF Truthful, Answer, PackageClaim
  <2>4. Read("package", {id}, ExportError(id), response)
    BY <1>6 DEF packageExport
  <2>5. ExportError(id) = "ErrNotBatched" => {id} \cap {x \in DOMAIN evidence : Batched(x)} = {}
    BY <2>1
  <2> HIDE DEF response
  <2> QED BY <2>1, <2>2, <2>3, <2>4, <2>5, ReadTruthful
<1> QED BY <1>3, <1>4, <1>5, <1>6

(* Whatever is asked, the handler leaves the store as one transaction does and
   answers truthfully of it. *)
LEMMA ServeTruthful == LedgerSound /\ Serve => [Next]_vars /\ Truthful(answer)'
<1>1. ASSUME LedgerSound, Serve PROVE [Next]_vars /\ Truthful(answer)'
  <2>1. StoreInvariant
    BY <1>1 DEF LedgerSound
  <2> QED BY <1>1, <2>1, IngestTruthful, FreezeTruthful, ReadsTruthful DEF Serve
<1> QED BY <1>1

--------------------------------------------------------------------------------
(* What was answered stands *)

(* A transaction takes nothing back of what an answer said. *)
LEMMA StandsKept ==
  ASSUME StoreInvariant, [Next]_vars, NEW a, Stands(a)
  PROVE  Stands(a)'
<1>1. CASE UNCHANGED vars
  <2>1. \A x : RecordClaim(x)' = RecordClaim(x) /\ PackageClaim(x)' = PackageClaim(x)
    BY <1>1 DEF RecordClaim, PackageClaim, Keyed, SourceKey, Batched, vars
  <2> QED BY <1>1, <2>1 DEF Stands, Keyed, SourceKey, Batched, vars
<1>2. CASE Next
  <2>1. KeepsEvidence /\ KeepsFreezes
    BY <1>2, EvidenceKept, FreezesKept
  <2>2. TypeOK /\ BatchesSound
    BY DEF StoreInvariant
  <2>3. ASSUME NEW id \in DOMAIN evidence, Batched(id)
        PROVE  RecordClaim(id)' = RecordClaim(id) /\ PackageClaim(id)' = PackageClaim(id)
    <3>1. evidence'[id] = evidence[id]
      BY <2>1, <2>3 DEF KeepsEvidence
    <3>2. evidence[id].batch \in DOMAIN batches
      BY <2>2, <2>3 DEF BatchesSound
    <3>3. batches'[evidence[id].batch].manifest = batches[evidence[id].batch].manifest
      BY <2>1, <3>2 DEF KeepsFreezes
    <3> QED BY <3>1, <3>3 DEF RecordClaim, PackageClaim, Keyed, SourceKey, Batched
  <2>4. \A r \in a.records :
          /\ r.id \in DOMAIN evidence'
          /\ r.sequence = evidence'[r.id].sequence /\ r.source = Keyed(evidence'[r.id])
          /\ r.batch # NoBatch => r = RecordClaim(r.id)'
    <3> SUFFICES ASSUME NEW r \in a.records
        PROVE  /\ r.id \in DOMAIN evidence'
               /\ r.sequence = evidence'[r.id].sequence /\ r.source = Keyed(evidence'[r.id])
               /\ r.batch # NoBatch => r = RecordClaim(r.id)'
      OBVIOUS
    <3>1. /\ r.id \in DOMAIN evidence
          /\ r.sequence = evidence[r.id].sequence /\ r.source = Keyed(evidence[r.id])
          /\ r.batch # NoBatch => r = RecordClaim(r.id)
      BY DEF Stands
    <3>2. r.batch # NoBatch => Batched(r.id)
      BY <3>1 DEF RecordClaim, Batched
    <3> QED BY <2>1, <2>3, <3>1, <3>2 DEF KeepsEvidence, Keyed, SourceKey
  <2>5. \A b \in a.batches :
          /\ b.batch \in DOMAIN batches'
          /\ b.members = batches'[b.batch].members /\ b.limit = batches'[b.batch].limit
          /\ b.manifest = batches'[b.batch].manifest
          /\ b.state = "submitted" => batches'[b.batch].state = "submitted"
    BY <2>1 DEF Stands, KeepsFreezes
  <2>6. \A l \in a.listed : l.batch \in DOMAIN batches'
    BY <2>1 DEF Stands, KeepsFreezes
  <2>7. \A p \in a.packages : p.id \in DOMAIN evidence' /\ Batched(p.id)' /\ p = PackageClaim(p.id)'
    BY <2>1, <2>3 DEF Stands, KeepsEvidence, Batched
  <2> QED BY <2>4, <2>5, <2>6, <2>7 DEF Stands, Keyed, SourceKey
<1> QED BY <1>1, <1>2

(* A truthful answer stands. *)
LEMMA TruthStands == ASSUME StoreInvariant', NEW a, Truthful(a)' PROVE Stands(a)'
<1>1. OutboxExact'
  BY DEF StoreInvariant
<1>2. \A r \in a.records : r.sequence = evidence'[r.id].sequence /\ r.source = Keyed(evidence'[r.id])
  BY DEF Truthful, RecordClaim, Keyed, SourceKey
<1>3. \A b \in a.batches :
        /\ b.members = batches'[b.batch].members /\ b.limit = batches'[b.batch].limit
        /\ b.manifest = batches'[b.batch].manifest
        /\ b.state = "submitted" => batches'[b.batch].state = "submitted"
  BY DEF Truthful, BatchClaim, batchState
<1> QED BY <1>1, <1>2, <1>3 DEF Truthful, Stands, OutboxExact, Keyed, SourceKey

--------------------------------------------------------------------------------
(* Answers compared *)

(* A truthful answer goes back on nothing in one that stands. *)
LEMMA TruthAdvances ==
  ASSUME StoreInvariant', Stands(memory)', Truthful(answer)'
  PROVE  AnswersAdvance'
<1> DEFINE m == memory'
           a == answer'
<1>1. OutboxExact'
  BY DEF StoreInvariant
<1>2. ASSUME NEW r1 \in m.records, NEW r2 \in a.records, r1.id = r2.id
      PROVE  r2.sequence = r1.sequence /\ r2.source = r1.source /\ (r1.batch # NoBatch => r2 = r1)
  <2>1. r2 = RecordClaim(r2.id)'
    BY DEF Truthful
  <2>2. r2.sequence = evidence'[r2.id].sequence /\ r2.source = Keyed(evidence'[r2.id])
    BY <2>1 DEF RecordClaim, Keyed, SourceKey
  <2>3. /\ r1.sequence = evidence'[r1.id].sequence /\ r1.source = Keyed(evidence'[r1.id])
        /\ r1.batch # NoBatch => r1 = RecordClaim(r1.id)'
    BY DEF Stands, Keyed, SourceKey
  <2>4. RecordClaim(r1.id)' = RecordClaim(r2.id)'
    BY <1>2 DEF RecordClaim, Keyed, SourceKey, Batched
  <2> QED BY <1>2, <2>1, <2>2, <2>3, <2>4
<1>3. ASSUME NEW b1 \in m.batches, NEW b2 \in a.batches, b1.batch = b2.batch
      PROVE  /\ b2.members = b1.members /\ b2.limit = b1.limit /\ b2.manifest = b1.manifest
             /\ b1.state = "submitted" => b2.state = "submitted"
  <2>1. b2 = BatchClaim(b2.batch)'
    BY DEF Truthful
  <2>2. /\ b2.members = batches'[b2.batch].members /\ b2.limit = batches'[b2.batch].limit
        /\ b2.manifest = batches'[b2.batch].manifest
        /\ batches'[b2.batch].state = "submitted" => b2.state = "submitted"
    BY <2>1 DEF BatchClaim, batchState
  <2> QED BY <1>3, <2>2 DEF Stands
<1>4. ASSUME NEW b \in m.batches, NEW l \in a.listed, b.batch = l.batch
      PROVE  l.manifest = b.manifest /\ b.state # "submitted"
  <2>1. l.batch \in DOMAIN outbox' /\ l.manifest = outbox'[l.batch]
    BY DEF Truthful
  <2>2. l.manifest = batches'[l.batch].manifest /\ batches'[l.batch].state # "submitted"
    BY <1>1, <2>1 DEF OutboxExact
  <2> QED BY <1>4, <2>2 DEF Stands
<1> QED BY <1>2, <1>3, <1>4 DEF AnswersAdvance

(* What the batches of the store say of their members. *)
LEMMA MemberOfBatch ==
  ASSUME StoreInvariant', NEW b \in DOMAIN batches', NEW i \in 1 .. Len(batches'[b].members)
  PROVE  /\ batches'[b].members[i] \in DOMAIN evidence'
         /\ evidence'[batches'[b].members[i]].batch = b
         /\ evidence'[batches'[b].members[i]].index = i - 1
<1>1. BatchesSound'
  BY DEF StoreInvariant
<1>2. \A x \in DOMAIN batches' : \A j \in 1 .. Len(batches'[x].members) :
        /\ batches'[x].members[j] \in DOMAIN evidence'
        /\ evidence'[batches'[x].members[j]].batch = x
        /\ evidence'[batches'[x].members[j]].index = j - 1
  BY <1>1, Zenon DEF BatchesSound
<1> QED BY <1>2, Zenon

(* Every name in an answer that stands is of something that exists. *)
LEMMA ToldExists ==
  ASSUME StoreInvariant', NEW m, Stands(m)'
  PROVE  /\ Told(m) \subseteq DOMAIN evidence'
         /\ ToldBatches(m) \subseteq DOMAIN batches'
         /\ \A id \in ToldFrozen(m) : id \in DOMAIN evidence' /\ evidence'[id].batch # NoBatch
<1>1. BatchesSound' /\ TypeOK'
  BY DEF StoreInvariant
<1>2. NoBatch \notin DOMAIN batches'
  BY <1>1, StoreAssumption DEF TypeOK, IsBucket
<1>3. ASSUME NEW r \in m.records
      PROVE  r.id \in DOMAIN evidence' /\ (r.batch # NoBatch =>
               evidence'[r.id].batch # NoBatch /\ r.batch \in DOMAIN batches')
  <2>1. r.id \in DOMAIN evidence' /\ (r.batch # NoBatch => r = RecordClaim(r.id)')
    BY DEF Stands
  <2>2. r.batch # NoBatch => r.batch = evidence'[r.id].batch
    BY <2>1 DEF RecordClaim
  <2> QED BY <1>1, <2>1, <2>2 DEF BatchesSound, Batched
<1>4. ASSUME NEW b \in m.batches, NEW i \in DOMAIN b.members
      PROVE  b.members[i] \in DOMAIN evidence' /\ evidence'[b.members[i]].batch # NoBatch
  <2>1. b.batch \in DOMAIN batches' /\ b.members = batches'[b.batch].members
    BY DEF Stands
  <2>2. batches'[b.batch].members \in Seq(EvidenceIDs)
    BY <1>1, <2>1 DEF TypeOK, IsBucket, FrozenBatch
  <2>3. i \in 1 .. Len(batches'[b.batch].members)
    BY <2>1, <2>2
  <2>4. /\ batches'[b.batch].members[i] \in DOMAIN evidence'
        /\ evidence'[batches'[b.batch].members[i]].batch = b.batch
    BY <2>1, <2>3, MemberOfBatch, Zenon
  <2> QED BY <1>2, <2>1, <2>4
<1>5. \A b \in m.batches \cup m.listed : b.batch \in DOMAIN batches'
  BY DEF Stands
<1>6. \A p \in m.packages : p.id \in DOMAIN evidence' /\ evidence'[p.id].batch # NoBatch
  BY DEF Stands, Batched
<1>7. Told(m) \subseteq DOMAIN evidence'
  BY <1>3, <1>4, <1>6 DEF Told
<1>8. ToldBatches(m) \subseteq DOMAIN batches'
  BY <1>3, <1>5 DEF ToldBatches
<1>9. \A id \in ToldFrozen(m) : id \in DOMAIN evidence' /\ evidence'[id].batch # NoBatch
  BY <1>3, <1>4, <1>6 DEF ToldFrozen
<1> QED BY <1>7, <1>8, <1>9

(* Records and batches of the store agree with each other. *)
LEMMA MembersAgree ==
  ASSUME StoreInvariant', NEW r, NEW b, b.batch \in DOMAIN batches', b.members = batches'[b.batch].members,
         r.id \in DOMAIN evidence',
         r.batch # NoBatch => r.batch = evidence'[r.id].batch /\ r.index = evidence'[r.id].index,
         r.batch = NoBatch => evidence'[r.id].batch = NoBatch
  PROVE  Agree(r, b)
<1>1. BatchesSound' /\ TypeOK'
  BY DEF StoreInvariant
<1>2. b.batch # NoBatch
  BY <1>1, StoreAssumption DEF TypeOK, IsBucket
<1>3. b.members \in Seq(EvidenceIDs)
  BY <1>1 DEF TypeOK, IsBucket, FrozenBatch
<1>4. \A i \in 1 .. Len(b.members) : evidence'[b.members[i]].batch = b.batch
  BY MemberOfBatch, Zenon
<1>5. evidence'[r.id] \in Evidence
  BY <1>1 DEF TypeOK, IsBucket
<1>6. evidence'[r.id].index \in Nat
  BY <1>5 DEF Evidence
<1>7. r.batch = b.batch => r.index + 1 \in DOMAIN b.members /\ b.members[r.index + 1] = r.id
  <2> SUFFICES ASSUME r.batch = b.batch
               PROVE  r.index + 1 \in DOMAIN b.members /\ b.members[r.index + 1] = r.id
    OBVIOUS
  <2>1. evidence'[r.id].batch = b.batch /\ r.index = evidence'[r.id].index
    BY <1>2
  <2>2. r.index < Len(b.members) /\ b.members[r.index + 1] = r.id
    BY <1>1, <1>2, <2>1 DEF BatchesSound, Batched
  <2> QED BY <1>3, <1>6, <2>1, <2>2
<1>8. \A i \in DOMAIN b.members : b.members[i] = r.id => r.batch = b.batch
  BY <1>2, <1>3, <1>4
<1> QED BY <1>7, <1>8 DEF Agree

(* A truthful answer tells the same story as one that stands. *)
LEMMA TruthAgrees ==
  ASSUME StoreInvariant', Stands(memory)', Truthful(answer)'
  PROVE  EndpointsAgree'
<1> DEFINE m == memory'
           a == answer'
<1>1. PICK mm, aa : mm = m /\ aa = a
  OBVIOUS
<1>2. Stands(mm)' /\ Truthful(aa)'
  BY <1>1 DEF Stands, Truthful, Keyed, SourceKey, RecordClaim, BatchClaim, PackageClaim, Batched
<1>3. BatchesSound' /\ TypeOK'
  BY DEF StoreInvariant
<1>4. /\ aa.code = "not_found" => aa.about \cap (Told(mm) \cup ToldBatches(mm)) = {}
      /\ aa.code = "not_batched" => aa.about \cap ToldFrozen(mm) = {}
  BY <1>2, ToldExists DEF Truthful, Batched
<1>5. \A r \in mm.records, b \in aa.batches : r.batch # NoBatch => Agree(r, b)
  <2> SUFFICES ASSUME NEW r \in mm.records, NEW b \in aa.batches, r.batch # NoBatch PROVE Agree(r, b)
    OBVIOUS
  <2>1. b.batch \in DOMAIN batches' /\ b = BatchClaim(b.batch)'
    BY <1>2 DEF Truthful
  <2>2. b.members = batches'[b.batch].members
    BY <2>1 DEF BatchClaim
  <2>3. r.id \in DOMAIN evidence' /\ r = RecordClaim(r.id)'
    BY <1>2 DEF Stands
  <2>4. r.batch = evidence'[r.id].batch /\ r.index = evidence'[r.id].index
    BY <2>3 DEF RecordClaim
  <2> QED BY <2>1, <2>2, <2>3, <2>4, MembersAgree
<1>6. \A b \in mm.batches, r \in aa.records : Agree(r, b)
  <2> SUFFICES ASSUME NEW b \in mm.batches, NEW r \in aa.records PROVE Agree(r, b)
    OBVIOUS
  <2>1. b.batch \in DOMAIN batches' /\ b.members = batches'[b.batch].members
    BY <1>2 DEF Stands
  <2>2. r.id \in DOMAIN evidence' /\ r = RecordClaim(r.id)'
    BY <1>2 DEF Truthful
  <2>3. r.batch = evidence'[r.id].batch /\ r.index = evidence'[r.id].index
    BY <2>2 DEF RecordClaim
  <2> QED BY <2>1, <2>2, <2>3, MembersAgree
<1>7. ASSUME NEW b \in mm.batches, NEW p \in aa.packages, NEW i \in DOMAIN b.members, b.members[i] = p.id
      PROVE  p.index = i - 1 /\ p.manifest = b.manifest
  <2>1. b.batch \in DOMAIN batches' /\ b.members = batches'[b.batch].members
        /\ b.manifest = batches'[b.batch].manifest
    BY <1>2 DEF Stands
  <2>2. p.id \in DOMAIN evidence' /\ p = PackageClaim(p.id)'
    BY <1>2 DEF Truthful
  <2>3. /\ p.index = evidence'[p.id].index
        /\ p.manifest = batches'[evidence'[p.id].batch].manifest
    BY <2>2 DEF PackageClaim
  <2>4. b.members \in Seq(EvidenceIDs)
    BY <1>3, <2>1 DEF TypeOK, IsBucket, FrozenBatch
  <2>5. i \in 1 .. Len(batches'[b.batch].members) /\ p.id = batches'[b.batch].members[i]
    BY <1>7, <2>1, <2>4
  <2>6. evidence'[p.id].batch = b.batch /\ evidence'[p.id].index = i - 1
    <3>1. /\ evidence'[batches'[b.batch].members[i]].batch = b.batch
          /\ evidence'[batches'[b.batch].members[i]].index = i - 1
      BY <2>1, <2>5, MemberOfBatch, Zenon
    <3> QED BY <2>5, <3>1
  <2> QED BY <2>1, <2>3, <2>6
<1> QED BY <1>1, <1>4, <1>5, <1>6, <1>7 DEF EndpointsAgree

--------------------------------------------------------------------------------
(* The invariant *)

LEMMA SessionInitInvariant == SessionInit => SessionInvariant
  BY InitInvariant, KeysNameBatchesInit
     DEF SessionInit, SessionInvariant, AnswersAdvance, EndpointsAgree, FailsClosedOnlyWhenFull

LEMMA RequestInvariant == SessionInvariant /\ Request => SessionInvariant'
<1> SUFFICES ASSUME SessionInvariant, Request PROVE SessionInvariant'
  OBVIOUS
<1>1. LedgerSound /\ StoreInvariant /\ memory' = memory
  BY DEF SessionInvariant, LedgerSound, Request
<1>2. [Next]_vars /\ Truthful(answer)'
  BY <1>1, ServeTruthful DEF Request
<1>3. StoreInvariant' /\ KeysNameBatches'
  BY <1>1, <1>2, NextInvariant, KeysNameBatchesNext
<1>4. PICK m, a : m = memory /\ a = answer'
  OBVIOUS
<1>5. Truthful(a)'
  BY <1>2, <1>4 DEF Truthful, RecordClaim, BatchClaim, PackageClaim, Keyed, SourceKey, Batched
<1>6. Stands(a)'
  BY <1>3, <1>5, TruthStands
<1>7. Stands(answer)'
  BY <1>4, <1>6 DEF Stands, RecordClaim, PackageClaim, Keyed, SourceKey, Batched
<1>8. m # NoAnswer => Stands(m)'
  <2>1. m # NoAnswer => Stands(m)
    BY <1>4 DEF SessionInvariant
  <2> QED BY <1>1, <1>2, <2>1, StandsKept
<1>9. memory' # NoAnswer => Stands(memory)'
  BY <1>1, <1>4, <1>8 DEF Stands, RecordClaim, PackageClaim, Keyed, SourceKey, Batched
<1>10. AnswersAdvance' /\ EndpointsAgree'
  <2>1. CASE memory' = NoAnswer
    BY <2>1 DEF AnswersAdvance, EndpointsAgree
  <2>2. CASE memory' # NoAnswer
    BY <1>2, <1>3, <1>9, <2>2, TruthAdvances, TruthAgrees
  <2> QED BY <2>1, <2>2
<1>11. FailsClosedOnlyWhenFull'
  BY <1>2 DEF FailsClosedOnlyWhenFull, Truthful
<1> QED BY <1>3, <1>7, <1>9, <1>10, <1>11 DEF SessionInvariant

(* What other clients and the worker do are transactions of the store. *)
LEMMA OthersNext == Others => [Next]_vars /\ UNCHANGED <<answer, memory>>
<1> SUFFICES ASSUME Others PROVE Next /\ UNCHANGED <<answer, memory>>
  OBVIOUS
<1>1. ASSUME NEW key \in IdempotencyKeys, NEW s \in Sources, NEW r \in Representations,
             NEW d \in Documents, NEW n \in FreshNonces,
             IngestCreate(key, s, [representation |-> r, digest |-> Digest(d), nonce |-> n])
      PROVE  Next
  <2>1. [representation |-> r, digest |-> Digest(d), nonce |-> n] \in Witnesses
    BY DEF Witnesses, Digests, Digest, FreshNonces
  <2> QED BY <1>1, <2>1 DEF Next, Ingest
<1> QED BY <1>1 DEF Others, Next

(* A full counter stays full. *)
LEMMA FullStays == ASSUME [Next]_vars, sequence = MaxSequence PROVE sequence' = MaxSequence
<1>1. ASSUME NEW key, NEW source, NEW w PROVE ~IngestCreate(key, source, w)
  BY StoreAssumption DEF IngestCreate
<1>2. ASSUME NEW key, NEW source, NEW w, IngestExisting(key, source, w) PROVE UNCHANGED sequence
  BY <1>2 DEF IngestExisting
<1>3. ASSUME NEW key, NEW limit, FreezeNew(key, limit) \/ FreezeExisting(key, limit)
      PROVE  UNCHANGED sequence
  BY <1>3, Zenon DEF FreezeNew, FreezeExisting, vars
<1>4. ASSUME NEW b, NEW state, NEW ref, RecordSubmission(b, state, ref) PROVE UNCHANGED sequence
  BY <1>4, Zenon DEF RecordSubmission
<1>5. CASE UNCHANGED vars
  BY <1>5 DEF vars
<1> QED BY <1>1, <1>2, <1>3, <1>4, <1>5 DEF Next, Ingest

LEMMA OthersInvariant ==
  SessionInvariant /\ [Next]_vars /\ UNCHANGED <<answer, memory>> => SessionInvariant'
<1> SUFFICES ASSUME SessionInvariant, [Next]_vars, UNCHANGED <<answer, memory>> PROVE SessionInvariant'
  OBVIOUS
<1>1. LedgerSound /\ StoreInvariant
  BY DEF SessionInvariant, LedgerSound
<1>2. StoreInvariant' /\ KeysNameBatches'
  BY <1>1, NextInvariant, KeysNameBatchesNext
<1>3. PICK m, a : m = memory /\ a = answer
  OBVIOUS
<1>4. (a # NoAnswer => Stands(a)') /\ (m # NoAnswer => Stands(m)')
  <2>1. (a # NoAnswer => Stands(a)) /\ (m # NoAnswer => Stands(m))
    BY <1>3 DEF SessionInvariant
  <2> QED BY <1>1, <2>1, StandsKept
<1>5. (answer' # NoAnswer => Stands(answer)') /\ (memory' # NoAnswer => Stands(memory)')
  BY <1>3, <1>4 DEF Stands, RecordClaim, PackageClaim, Keyed, SourceKey, Batched
<1>6. AnswersAdvance' /\ EndpointsAgree' /\ FailsClosedOnlyWhenFull'
  BY FullStays DEF SessionInvariant, AnswersAdvance, EndpointsAgree, FailsClosedOnlyWhenFull
<1> QED BY <1>2, <1>5, <1>6 DEF SessionInvariant

LEMMA ReceiveInvariant == SessionInvariant /\ Receive => SessionInvariant'
<1> SUFFICES ASSUME SessionInvariant, Receive PROVE SessionInvariant'
  OBVIOUS
<1>1. UNCHANGED vars /\ answer # NoAnswer /\ answer' = NoAnswer /\ memory' \in {memory, answer}
  BY DEF Receive
<1>2. StoreInvariant' /\ KeysNameBatches'
  BY <1>1, NextInvariant, KeysNameBatchesNext DEF SessionInvariant, LedgerSound
<1>3. PICK m : m = memory'
  OBVIOUS
<1>4. m # NoAnswer => Stands(m)
  BY <1>1, <1>3 DEF SessionInvariant
<1>5. m # NoAnswer => Stands(m)'
  BY <1>1, <1>4, StandsKept DEF SessionInvariant
<1>6. memory' # NoAnswer => Stands(memory)'
  BY <1>3, <1>5 DEF Stands, RecordClaim, PackageClaim, Keyed, SourceKey, Batched
<1> QED BY <1>1, <1>2, <1>6 DEF SessionInvariant, AnswersAdvance, EndpointsAgree, FailsClosedOnlyWhenFull

(* SessionInvariant holds however requests, answers and other clients' or the
   worker's transactions interleave. *)
THEOREM SessionInvariance == SessionSpec => []SessionInvariant
<1>1. SessionInvariant /\ [SessionNext]_sessionVars => SessionInvariant'
  <2> SUFFICES ASSUME SessionInvariant, [SessionNext]_sessionVars PROVE SessionInvariant'
    OBVIOUS
  <2>1. CASE Request
    BY <2>1, RequestInvariant
  <2>2. CASE Receive
    BY <2>2, ReceiveInvariant
  <2>3. CASE Others \/ UNCHANGED sessionVars
    BY <2>3, OthersNext, OthersInvariant DEF sessionVars
  <2> QED BY <2>1, <2>2, <2>3 DEF SessionNext
<1> QED BY <1>1, SessionInitInvariant, PTL DEF SessionSpec

(* No answer goes back on an earlier one. *)
THEOREM AnswersAlwaysAdvance == SessionSpec => []AnswersAdvance
<1>1. SessionInvariant => AnswersAdvance
  BY DEF SessionInvariant
<1> QED BY <1>1, SessionInvariance, PTL

(* The answers of the endpoints on one record or batch agree. *)
THEOREM EndpointsAlwaysAgree == SessionSpec => []EndpointsAgree
<1>1. SessionInvariant => EndpointsAgree
  BY DEF SessionInvariant
<1> QED BY <1>1, SessionInvariance, PTL

(* writeStorageError answers internal_error to nothing but an ingestion that finds
   the counter full. *)
THEOREM ServiceFailsClosedOnlyWhenFull == SessionSpec => []FailsClosedOnlyWhenFull
<1>1. SessionInvariant => FailsClosedOnlyWhenFull
  BY DEF SessionInvariant
<1> QED BY <1>1, SessionInvariance, PTL
================================================================================
