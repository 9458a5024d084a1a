------------------------------ MODULE OutboxWorker ------------------------------
(***************************************************************************)
(* What the outbox and RecordSubmission of internal/storage/store.go are   *)
(* for: workers that list pending manifests, send them to a provider and   *)
(* record what they know of it.  Workers and provider are not part of the  *)
(* repository; they do here whatever the store's interface lets them do in *)
(* good faith, on the copy of the page they once read, and die anywhere.   *)
(***************************************************************************)
EXTENDS EvidenceStore

CONSTANTS Workers, NoTask, PageLimit,
          Persistent  \* the worker that keeps coming back

ASSUME PersistentAssumption == Persistent \in Workers

VARIABLES task,     \* worker -> the entry it works on, as it was listed, and what it knows
          provider  \* manifests the provider has

workerVars == <<vars, task, provider>>

WorkerInit == Init /\ task = [w \in Workers |-> NoTask] /\ provider = {}

\* Outbox lists; the worker takes an entry of the page.
Take(w) ==
  /\ task[w] = NoTask
  /\ \E b \in OutboxPage(PageLimit) :
       /\ ListingSound(b)
       /\ task' = [task EXCEPT ![w] = [batch |-> b, manifest |-> outbox[b], known |-> "listed"]]
  /\ UNCHANGED <<vars, provider>>

\* The provider accepts, or refuses, or the outcome stays unknown: then the
\* manifest may have arrived or not.
Learns(w, known) == task' = [task EXCEPT ![w].known = known]
Sending(w) == task[w] # NoTask /\ task[w].known = "listed" /\ UNCHANGED vars
Accepted(w) ==
  /\ Sending(w)
  /\ provider' = provider \cup {task[w].manifest}
  /\ Learns(w, "submitted")
Refused(w) ==
  /\ Sending(w)
  /\ Learns(w, "not_submitted")
  /\ UNCHANGED provider
Unanswered(w) ==
  /\ Sending(w)
  /\ provider' \in {provider, provider \cup {task[w].manifest}}
  /\ Learns(w, "unknown")

\* The worker records it, unless somebody recorded "submitted" meanwhile.
Record(w) ==
  /\ task[w] # NoTask /\ task[w].known # "listed"
  /\ \/ \E ref \in References \cup {NoReference} : RecordSubmission(task[w].batch, task[w].known, ref)
     \/ Regresses(task[w].batch, task[w].known) /\ UNCHANGED vars
  /\ task' = [task EXCEPT ![w] = NoTask]
  /\ UNCHANGED provider

Die(w) ==
  /\ task[w] # NoTask
  /\ task' = [task EXCEPT ![w] = NoTask]
  /\ UNCHANGED <<vars, provider>>

\* Other callers ingest and freeze, with a key, a source and a witness nobody
\* used before: which ones makes no difference to the worker.
Fresh(names, used) == {CHOOSE x \in names : x \notin used : n \in names \ used}
FreshWitnesses == {w \in Witnesses : \A id \in DOMAIN evidence : evidence[id].witness.nonce # w.nonce}
Callers ==
  /\ \/ \E key \in Fresh(IdempotencyKeys, DOMAIN keys), source \in Fresh(Sources, {evidence[id].source : id \in DOMAIN evidence}),
          w \in Fresh(Witnesses, Witnesses \ FreshWitnesses) : IngestCreate(key, source, w)
     \/ \E key \in Fresh(RequestKeys, DOMAIN batchKeys), limit \in Limits : FreezeNew(key, limit)
  /\ UNCHANGED <<task, provider>>

WorkerNext ==
  \/ \E w \in Workers : Take(w) \/ Accepted(w) \/ Refused(w) \/ Unanswered(w) \/ Record(w) \/ Die(w)
  \/ Callers

WorkerSpec == WorkerInit /\ [][WorkerNext]_workerVars

\* One worker keeps coming back and is not killed at the same point for ever, and
\* a provider that is asked again and again accepts some time.  The others may
\* do anything, or nothing.
PersistentSpec ==
  /\ WorkerSpec
  /\ SF_workerVars(Take(Persistent)) /\ SF_workerVars(Accepted(Persistent))
  /\ WF_workerVars(Record(Persistent))
  /\ SF_workerVars(Record(Persistent) /\ task[Persistent].known = "submitted")

--------------------------------------------------------------------------------
(* Properties *)

(* No batch is forgotten: what the provider may still lack is in the outbox,
   with the very manifest the batch was frozen with, however many workers send
   it, learn nothing, die, or record what they know late and over each other. *)
NothingForgotten ==
  \A b \in DOMAIN batches :
    batches[b].manifest \notin provider => b \in DOMAIN outbox /\ outbox[b] = batches[b].manifest

(* The outbox drains, even read one entry at a time in the order of random ids
   while further batches are frozen: every batch becomes submitted. *)
OutboxDrains == \A b \in BatchIDs : b \in DOMAIN batches ~> b \in DOMAIN batches /\ batches[b].state = "submitted"
================================================================================
