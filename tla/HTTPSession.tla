------------------------------- MODULE HTTPSession -------------------------------
(***************************************************************************)
(* The HTTP handlers of internal/server/server.go as one client sees them: *)
(* it sends a request, the handler runs its transaction on the store, and  *)
(* the answer arrives later, while other clients and a submission worker   *)
(* go on.  Each answer is kept as what it claims; the client remembers an  *)
(* earlier one, any one, and compares.                                     *)
(***************************************************************************)
EXTENDS EvidenceExport

CONSTANTS NoAnswer

\* The two kinds of names have types of their own.
ASSUME SessionAssumption == EvidenceIDs \cap BatchIDs = {}

VARIABLES answer,  \* the answer on its way to the client
          memory   \* an answer the client received before it sent that request

sessionVars == <<vars, answer, memory>>

--------------------------------------------------------------------------------
(* Answers *)

\* writeStorageError; whatever else goes wrong is an internal error.
writeStorageError(err) ==
  LET codes == [ErrInvalid |-> "invalid_request", ErrConflict |-> "conflict",
                ErrNotFound |-> "not_found", ErrNotBatched |-> "not_batched",
                ErrEmpty |-> "no_pending_evidence"]
  IN IF err \in DOMAIN codes THEN codes[err] ELSE "internal_error"

batchState_Attempted(state) == IF state # "not_submitted" THEN "submitted" ELSE "pending_submission"
batchState(state) == IF state = "submitted" THEN "submitted" ELSE "pending_submission"
anchorStatus(state) == IF state \in {"unknown", "submitted"} THEN state ELSE "not_submitted"

\* What an answer says of a record (ingest says a part of it), of a batch, of an
\* entry of the outbox, and what an exported package says.
RecordClaim(id) ==
  [id |-> id, sequence |-> evidence[id].sequence, source |-> Keyed(evidence[id]),
   state |-> IF Batched(id) THEN "pending_submission" ELSE "pending_batch",
   batch |-> evidence[id].batch, index |-> evidence[id].index]
BatchClaim(b) ==
  [batch |-> b, members |-> batches[b].members, limit |-> batches[b].limit,
   manifest |-> batches[b].manifest, state |-> batchState(batches[b].state),
   anchor |-> anchorStatus(batches[b].state), reference |-> batches[b].ref]
ListedClaim(b) ==
  [batch |-> b, manifest |-> outbox[b], state |-> batchState(batches[b].state),
   anchor |-> anchorStatus(batches[b].state), reference |-> batches[b].ref]
PackageClaim_OneBased(id) ==
  [id |-> id, index |-> evidence[id].index + 1, manifest |-> batches[evidence[id].batch].manifest]
PackageClaim(id) ==
  [id |-> id, index |-> evidence[id].index, manifest |-> batches[evidence[id].batch].manifest]

Answer(endpoint, code, about, records, frozen, listed, packages) ==
  [endpoint |-> endpoint, code |-> code, about |-> about, records |-> records,
   batches |-> frozen, listed |-> listed, packages |-> packages]
Refuse(endpoint, about, err) ==
  /\ answer' = Answer(endpoint, writeStorageError(err), about, {}, {}, {}, {})
  /\ UNCHANGED vars

--------------------------------------------------------------------------------
(* Handlers *)

SessionInit == Init /\ answer = NoAnswer /\ memory = NoAnswer

FreshNonces == Nonces \ {evidence[id].witness.nonce : id \in DOMAIN evidence}

\* POST /v1/ingest, atomic as DocumentIngest shows.  A record found is answered
\* as it stands; its key is not filed.  A new one needs a sequence number.
ingest(key, source, rep, document) ==
  LET sk == SourceKey(source, rep)
      found == Lookup(key, sk)
  IN
  \/ \E n \in FreshNonces :
       /\ IngestCreate(key, source, [representation |-> rep, digest |-> Digest(document), nonce |-> n])
       /\ answer' = Answer("ingest", "created", {}, {RecordClaim(keys[key])'}, {}, {}, {})
  \/ \E id \in found :
       IF Keyed(evidence[id]) = sk /\ evidence[id].witness.digest = Digest(document)
       THEN answer' = Answer("ingest", "ok", {}, {RecordClaim(id)}, {}, {}, {}) /\ UNCHANGED vars
       ELSE Refuse("ingest", {}, "ErrConflict")
  \/ /\ found = {} /\ sequence = MaxSequence
     /\ Refuse("ingest", {}, "ErrCorrupt")

\* POST /v1/batches/freeze; a new batch and the request's earlier one are both 201.
FreezeError(key, limit) ==
  IF limit \notin Limits THEN "ErrInvalid"
  ELSE IF ~tenant THEN "ErrNotFound"
  ELSE IF key \in DOMAIN batchKeys
       THEN IF ~FrozenSound(batchKeys[key]) THEN "ErrCorrupt"
            ELSE IF batches[batchKeys[key]].limit # limit THEN "ErrConflict" ELSE "nil"
  ELSE IF ~ScanSound(limit) THEN "ErrCorrupt"
  ELSE IF DOMAIN pending = {} THEN "ErrEmpty" ELSE "nil"
freeze(key, limit) ==
  IF FreezeError(key, limit) # "nil" THEN Refuse("freeze", {}, FreezeError(key, limit))
  ELSE /\ FreezeNew(key, limit) \/ FreezeExisting(key, limit)
       /\ answer' = Answer("freeze", "created", {}, {}, {BatchClaim(batchKeys[key])'}, {}, {})

\* The read transactions: GET of a batch, the outbox, a record and its package.
Read(endpoint, about, err, response) ==
  IF err # "nil" THEN Refuse(endpoint, about, err) ELSE answer' = response /\ UNCHANGED vars

BatchError(b) ==
  IF b \notin DOMAIN batches THEN "ErrNotFound"
  ELSE IF ~FrozenSound(b) THEN "ErrCorrupt" ELSE "nil"
batchStatus(b) == Read("batch", {b}, BatchError(b), Answer("batch", "ok", {b}, {}, {BatchClaim(b)}, {}, {}))

OutboxError(limit) ==
  IF ~tenant THEN "ErrNotFound"
  ELSE IF \E b \in OutboxPage(limit) : ~ListingSound(b) THEN "ErrCorrupt" ELSE "nil"
queryLimit(limit) == IF limit \in Limits THEN "nil" ELSE "ErrInvalid"
outboxPage(limit) ==
  Read("outbox", {}, IF queryLimit(limit) # "nil" THEN queryLimit(limit) ELSE OutboxError(limit),
       Answer("outbox", "ok", {}, {}, {}, {ListedClaim(b) : b \in OutboxPage(limit)}, {}))

EvidenceError(id) == IF id \notin DOMAIN evidence THEN "ErrNotFound" ELSE "nil"
evidenceStatus(id) ==
  Read("evidence", {id}, EvidenceError(id),
       Answer("evidence", "ok", {id}, {RecordClaim(id)}, {}, {}, {}))

ExportError(id) ==
  IF id \notin DOMAIN evidence THEN "ErrNotFound"
  ELSE IF ~Batched(id) THEN "ErrNotBatched"
  ELSE IF ~PackageSound(id) THEN "ErrCorrupt"
  ELSE IF ~Marshals(UnanchoredPackage(id)) THEN "unencodable" ELSE "nil"
packageExport(id) ==
  Read("package", {id}, ExportError(id),
       Answer("package", "ok", {id}, {}, {}, {}, {PackageClaim(id)}))

Serve ==
  \/ \E key \in IdempotencyKeys, s \in Sources, r \in Representations, d \in Documents : ingest(key, s, r, d)
  \/ \E key \in RequestKeys, limit \in Limits \cup {0} : freeze(key, limit)
  \/ \E b \in BatchIDs : batchStatus(b)
  \/ \E limit \in Limits \cup {0} : outboxPage(limit)
  \/ \E id \in EvidenceIDs : evidenceStatus(id) \/ packageExport(id)
Request == answer = NoAnswer /\ Serve /\ UNCHANGED memory

\* The answer arrives; the client may remember it, if it told something.
Receive ==
  /\ answer # NoAnswer
  /\ answer' = NoAnswer
  /\ \/ UNCHANGED memory
     \/ memory = NoAnswer /\ answer.code \in {"ok", "created"} /\ memory' = answer
  /\ UNCHANGED vars

\* Other clients create records, whose nonces are their own, and freeze; whoever
\* submits batches records it.
Others ==
  /\ \/ \E key \in IdempotencyKeys, source \in Sources, r \in Representations, d \in Documents, n \in FreshNonces :
          IngestCreate(key, source, [representation |-> r, digest |-> Digest(d), nonce |-> n])
     \/ \E key \in RequestKeys, limit \in Limits : FreezeNew(key, limit)
     \/ \E b \in BatchIDs, state \in SubmissionStates, ref \in References \cup {NoReference} :
          RecordSubmission(b, state, ref)
  /\ UNCHANGED <<answer, memory>>

SessionNext == Request \/ Receive \/ Others

SessionSpec == SessionInit /\ [][SessionNext]_sessionVars

--------------------------------------------------------------------------------
(* Properties *)

Told(a) == {r.id : r \in a.records} \cup {p.id : p \in a.packages}
           \cup UNION {{b.members[i] : i \in DOMAIN b.members} : b \in a.batches}
ToldBatches(a) == {b.batch : b \in a.batches \cup a.listed}
                  \cup {r.batch : r \in {x \in a.records : x.batch # NoBatch}}
ToldFrozen(a) == {r.id : r \in {x \in a.records : x.batch # NoBatch}}
                 \cup {p.id : p \in a.packages}
                 \cup UNION {{b.members[i] : i \in DOMAIN b.members} : b \in a.batches}

\* A record and a batch agree on whether, and where, it is a member.
Agree(r, b) ==
  /\ r.batch = b.batch => r.index + 1 \in DOMAIN b.members /\ b.members[r.index + 1] = r.id
  /\ \A i \in DOMAIN b.members : b.members[i] = r.id => r.batch = b.batch

(* Answers never go back on an earlier answer: a record keeps its number, its
   source and, once it has one, its batch; a batch keeps its members, limit and
   manifest, and "submitted" is not followed by "pending_submission". *)
AnswersAdvance ==
  memory # NoAnswer /\ answer # NoAnswer =>
    /\ \A r1 \in memory.records, r2 \in answer.records : r1.id = r2.id =>
         /\ r2.sequence = r1.sequence /\ r2.source = r1.source
         /\ r1.batch # NoBatch => r2 = r1
    /\ \A b1 \in memory.batches, b2 \in answer.batches : b1.batch = b2.batch =>
         /\ b2.members = b1.members /\ b2.limit = b1.limit /\ b2.manifest = b1.manifest
         /\ b1.state = "submitted" => b2.state = "submitted"
    /\ \A b \in memory.batches, l \in answer.listed :
         b.batch = l.batch => l.manifest = b.manifest /\ b.state # "submitted"

(* The endpoints tell one story: whatever one of them has named exists for the
   others; a record known to be frozen has a package, at its place in its batch
   and with its batch's manifest; and a later batch answer agrees with it. *)
EndpointsAgree ==
  memory # NoAnswer /\ answer # NoAnswer =>
    /\ answer.code = "not_found" => answer.about \cap (Told(memory) \cup ToldBatches(memory)) = {}
    /\ answer.code = "not_batched" => answer.about \cap ToldFrozen(memory) = {}
    /\ \A r \in memory.records, b \in answer.batches : r.batch # NoBatch => Agree(r, b)
    /\ \A b \in memory.batches, r \in answer.records : Agree(r, b)
    /\ \A b \in memory.batches, p \in answer.packages :
         \A i \in DOMAIN b.members : b.members[i] = p.id => p.index = i - 1 /\ p.manifest = b.manifest

(* The service "fails closed" on one occasion only: it has no number left for a
   record it has yet to create.  No other request, of any client after any history,
   is answered with an internal error, and a full counter stops neither freezing
   nor reading nor the export of what was frozen, which can always be encoded. *)
FailsClosedOnlyWhenFull ==
  answer # NoAnswer /\ answer.code = "internal_error" =>
    answer.endpoint = "ingest" /\ sequence = MaxSequence

(* docs/architecture/dev-api.openapi.yaml:131, the 201 answer of a freeze:
   "Batch exists for the request key and remains pending submission." *)
FreezeAnswersPending ==
  answer # NoAnswer /\ answer.code = "created" => \A b \in answer.batches : b.state = "pending_submission"

(* What an answer claims of records, batches, the outbox and packages stays true
   of the store, as far as the store cannot move on: a frozen record for good, a
   record still waiting up to its batch, a batch up to its submission. *)
Stands(a) ==
  /\ \A r \in a.records :
       /\ r.id \in DOMAIN evidence
       /\ r.sequence = evidence[r.id].sequence /\ r.source = Keyed(evidence[r.id])
       /\ r.batch # NoBatch => r = RecordClaim(r.id)
  /\ \A b \in a.batches :
       /\ b.batch \in DOMAIN batches
       /\ b.members = batches[b.batch].members /\ b.limit = batches[b.batch].limit
       /\ b.manifest = batches[b.batch].manifest
       /\ b.state = "submitted" => batches[b.batch].state = "submitted"
  /\ \A l \in a.listed : l.batch \in DOMAIN batches
  /\ \A p \in a.packages : p.id \in DOMAIN evidence /\ Batched(p.id) /\ p = PackageClaim(p.id)

(* The inductive invariant: answers stand, the one on its way and the remembered
   one, and the first, made from a later store, goes back on nothing in the other. *)
SessionInvariant ==
  /\ StoreInvariant /\ KeysNameBatches
  /\ answer # NoAnswer => Stands(answer)
  /\ memory # NoAnswer => Stands(memory)
  /\ AnswersAdvance
  /\ EndpointsAgree
  /\ FailsClosedOnlyWhenFull
================================================================================
