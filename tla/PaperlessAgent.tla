----------------------------- MODULE PaperlessAgent -----------------------------
(***************************************************************************)
(* The Paperless agent of integrations/paperless/agent: webhook handlers   *)
(* and a reconciliation loop run the same Runner over the same store.      *)
(* Paperless edits documents and sends webhooks that are lost, repeated    *)
(* and overtaken; whoever writes evidence back into Paperless causes more. *)
(* A fetch is one step here, as PaperlessFetch justifies, and the store    *)
(* answers as AtomicIngest promises, which DocumentIngest implements.      *)
(***************************************************************************)
EXTENDS Integers, FiniteSets, SequencesExt

CONSTANTS Docs, Contents, Kinds,   \* documents, their bytes, the representations selected
          EventIDs,                \* the sender chooses them, and may use one again
          Webhooks, Reconciler,    \* webhook handlers, and the loop
          Unfetchable,             \* documents whose fetch always fails
          EvidenceIDs, Capacity,
          NoEvent, NoCall, NoEvidence, NoLoop,
          Limits,                  \* the limits the reconciler may be given
          MaxInFlight,             \* bound: so many events are on their way at a time
          MaxDisturbances          \* bound: so many edits, repeated deliveries and crashes

VARIABLES limit,         \* of the reconciliation loop, NoLoop if the operator runs none
          files,         \* Paperless: document -> representation -> bytes
          inflight,      \* webhooks sent and not yet delivered or lost
          disturbances,
          pc, event,     \* handler -> its step, and the event it handles
          page,          \* what is left of the reconciler's list
          content, names, call, outcome  \* the store, see AtomicIngest

storeVars == <<content, names, call, outcome>>
vars == <<limit, files, inflight, disturbances, pc, event, page, storeVars>>

Handlers == Webhooks \cup {Reconciler}
Sha256(c) == [sha256 |-> c]
Versions == {Sha256(c) : c \in Contents}
Fields == {"content", "evidence"}
EvidenceFields == {"evidence"}
Events == [doc : Docs, version : Versions, kind : Kinds, id : EventIDs, changed : SUBSET Fields]

--------------------------------------------------------------------------------
(* Planning *)

writebackOnly_Never(changed) == FALSE
writebackOnly(changed) == changed # {} /\ changed \subseteq EvidenceFields

\* The version of the source names the representation too.
Source(e) == <<e.doc, e.version, e.kind>>
stableKey_NoVersion(e) == <<e.doc, e.kind, e.id>>
stableKey(e) == <<e.doc, e.version, e.kind, e.id>>

\* The request the runner submits with the bytes it fetched.
Request(e, bytes) == [key |-> stableKey(e), source |-> Source(e), document |-> bytes]
Requests == {Request(e, bytes) : e \in Events, bytes \in Contents}
RequestSource(k) == k.source
RequestContent(k) == Sha256(k.document)
RequestReadable(k) == TRUE

Store == INSTANCE AtomicIngest WITH
  Clients <- Handlers, Calls <- Requests, SourceOf <- RequestSource,
  ContentOf <- RequestContent, Readable <- RequestReadable

--------------------------------------------------------------------------------
(* Paperless *)

Current(d, k, id, changed) ==
  [doc |-> d, version |-> Sha256(files[d][k]), kind |-> k, id |-> id, changed |-> changed]
Disturb == disturbances < MaxDisturbances /\ disturbances' = disturbances + 1

\* A user's edit, whose webhook also carries evidence fields written just then;
\* one without them is even less like a write-back.
Edit(d, k, c) ==
  /\ files[d][k] # c
  /\ files' = [files EXCEPT ![d][k] = c]
  /\ \E id \in EventIDs : inflight' = inflight \cup {Current(d, k, id, Fields)'}
  /\ Cardinality(inflight') <= MaxInFlight
  /\ Disturb
  /\ UNCHANGED <<pc, event, page, storeVars>>

Lose(e) ==
  /\ e \in inflight
  /\ inflight' = inflight \ {e}
  /\ UNCHANGED <<files, disturbances, pc, event, page, storeVars>>

\* Each result that names evidence makes somebody write it into the document,
\* and that sends a webhook again.
WrittenBack(e) ==
  \/ UNCHANGED inflight
  \/ \E id \in EventIDs : inflight' = inflight \cup {Current(e.doc, e.kind, id, EvidenceFields)}

--------------------------------------------------------------------------------
(* Runner.Handle *)

\* Which bytes the documents start with makes no difference.
Init ==
  /\ limit \in Limits \cup {NoLoop}
  /\ files = [d \in Docs |-> [k \in Kinds |-> CHOOSE c \in Contents : TRUE]]
  /\ inflight = {}
  /\ disturbances = 0
  /\ pc = [h \in Handlers |-> "idle"]
  /\ event = [h \in Handlers |-> NoEvent]
  /\ page = <<>>
  /\ Store!Init

\* Where a handler is after an event: a webhook handler has answered, the
\* reconciler goes on to its next item whatever has become of this one.
Rest_StopsAtFailure(h, failed) ==
  IF h = Reconciler THEN (IF failed THEN <<>> ELSE Tail(page)) ELSE page
Rest(h, failed) == IF h = Reconciler THEN Tail(page) ELSE page
Finish(h, failed) ==
  /\ pc' = [pc EXCEPT ![h] = "idle"]
  /\ event' = [event EXCEPT ![h] = NoEvent]
  /\ page' = Rest(h, failed)

\* A write-back is skipped, anything else is fetched.
Handle(h, e) ==
  /\ pc[h] = "idle"
  /\ IF writebackOnly(e.changed) THEN Finish(h, FALSE)
     ELSE /\ pc' = [pc EXCEPT ![h] = "fetch"]
          /\ event' = [event EXCEPT ![h] = e]
          /\ UNCHANGED page
  /\ UNCHANGED <<files, storeVars>>

Deliver(h, e) ==
  /\ h \in Webhooks /\ e \in inflight
  /\ Handle(h, e)
  /\ inflight' = inflight \ {e}
  /\ UNCHANGED disturbances
Redeliver(h, e) ==
  /\ h \in Webhooks /\ e \in inflight
  /\ Handle(h, e)
  /\ Disturb
  /\ UNCHANGED inflight

\* ListReady: the current versions of the documents, in an order of its own, which
\* nothing makes it change from one call to the next, and no more than the limit.
Ready(id) == {Current(d, k, id, {}) : d \in Docs, k \in Kinds}
StartPass ==
  /\ limit # NoLoop /\ page = <<>>
  /\ \E id \in EventIDs : \E list \in SetToSeqs(Ready(id)) :
       page' = SubSeq(list, 1, IF Len(list) < limit THEN Len(list) ELSE limit)
  /\ UNCHANGED <<files, inflight, disturbances, pc, event, storeVars>>
NextItem ==
  /\ page # <<>>
  /\ Handle(Reconciler, Head(page))
  /\ UNCHANGED <<inflight, disturbances>>

\* The fetcher returns the bytes only in the version the event names.
Fetched_Unversioned(e) == {files[e.doc][e.kind]}
Fetched(e) == {c \in {files[e.doc][e.kind]} : Sha256(c) = e.version}
FetchSucceeds(h) ==
  /\ pc[h] = "fetch"
  /\ event[h].doc \notin Unfetchable
  /\ \E bytes \in Fetched(event[h]) : Store!Begin(h, Request(event[h], bytes))
  /\ pc' = [pc EXCEPT ![h] = "ingest"]
  /\ UNCHANGED <<files, inflight, disturbances, event, page>>
FetchFails(h) ==
  /\ pc[h] = "fetch"
  /\ Finish(h, TRUE)
  /\ UNCHANGED <<files, inflight, disturbances, storeVars>>

Ingest(h) ==
  /\ pc[h] = "ingest"
  /\ Store!Accept(h) \/ Store!Return(h) \/ Store!Refuse(h) \/ Store!Fail(h)
  /\ UNCHANGED <<files, inflight, disturbances, pc, event, page>>

\* The webhook's answer, or the reconciler's item, names the evidence.
Report(h) ==
  LET r == outcome[h] IN
  /\ pc[h] = "ingest" /\ ~Store!Running(h)
  /\ IF r.id = NoEvidence THEN UNCHANGED inflight
     ELSE WrittenBack(event[h]) /\ Cardinality(inflight') <= MaxInFlight
  /\ Finish(h, r.id = NoEvidence)
  /\ Store!End({h})
  /\ UNCHANGED <<files, disturbances>>

\* The agent's process dies and starts again.
Crash ==
  /\ Disturb
  /\ pc' = [h \in Handlers |-> "idle"]
  /\ event' = [h \in Handlers |-> NoEvent]
  /\ page' = <<>>
  /\ Store!End(Handlers)
  /\ UNCHANGED <<files, inflight>>

Step(h) == FetchSucceeds(h) \/ FetchFails(h) \/ Ingest(h) \/ Report(h)

AgentNext ==
  \/ \E d \in Docs, k \in Kinds, c \in Contents : Edit(d, k, c)
  \/ \E e \in inflight : Lose(e) \/ \E h \in Webhooks : Deliver(h, e) \/ Redeliver(h, e)
  \/ StartPass \/ NextItem
  \/ \E h \in Handlers : Step(h)
  \/ Crash
Next == AgentNext /\ UNCHANGED limit

Spec == Init /\ [][Next]_vars

\* The agent's own steps are always taken, webhooks do not stay on their way for
\* ever, and a fetch that keeps being tried for a document that can be fetched
\* succeeds at last.
ReconcilerFetches(d, k) == FetchSucceeds(Reconciler) /\ event[Reconciler].doc = d /\ event[Reconciler].kind = k
FairSpec ==
  /\ Spec
  /\ WF_vars(StartPass /\ UNCHANGED limit) /\ WF_vars(NextItem /\ UNCHANGED limit)
  /\ \A h \in Handlers : WF_vars(Step(h) /\ UNCHANGED limit)
  /\ WF_vars(\E e \in inflight, h \in Webhooks : Deliver(h, e) /\ UNCHANGED limit)
  /\ \A d \in Docs \ Unfetchable, k \in Kinds : SF_vars(ReconcilerFetches(d, k) /\ UNCHANGED limit)

--------------------------------------------------------------------------------
(* Properties *)

(* Evidence filed under a version of a document commits to the bytes of that
   version: no edit between the event, the fetch and the ingestion puts other
   bytes under it. *)
EvidenceHasVersion ==
  \A source \in DOMAIN content : content[source].digest = source[2]

(* The agent's requests never conflict, however events are repeated, overtaken
   or replayed by the loop, whatever event ids are used again and wherever the
   process died: the key it derives cannot name two sources, nor a source two
   documents. *)
NeverConflicts == \A h \in Handlers : outcome[h].status # "conflict"

(* With the loop running, the version a document is left in is captured, though
   every webhook about it may be lost, crashes interrupt passes, and another
   document's fetch fails in each of them: provided that the document is on some
   page again and again.  A limit that covers all candidates sees to that; below
   it everything depends on the source, whose pages an unfetchable document may
   fill for ever, because Run keeps no place from one pass to the next. *)
Captured(d, k) == \E source \in DOMAIN content :
                    source[1] = d /\ source[2] = Sha256(files[d][k]) /\ source[3] = k
Listed(d, k) == \E i \in DOMAIN page : page[i].doc = d /\ page[i].kind = k
CoversAll == limit >= Cardinality(Docs \X Kinds)
CurrentCaptured == limit # NoLoop =>
  \A d \in Docs \ Unfetchable, k \in Kinds : CoversAll \/ []<>Listed(d, k) => <>[]Captured(d, k)

(* Writing evidence back does not feed itself: without the loop, when users stop
   editing the webhooks die out and the handlers come to rest. *)
WritebacksDieOut == limit = NoLoop => <>[](inflight = {} /\ \A h \in Handlers : pc[h] = "idle")
================================================================================
