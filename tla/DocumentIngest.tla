----------------------------- MODULE DocumentIngest -----------------------------
(***************************************************************************)
(* IngestDocument of internal/storage/store.go under concurrent callers.   *)
(* It is not one transaction: it looks the request up, draws a nonce,      *)
(* writes, and on a conflict looks it up again, with other callers'        *)
(* transactions in between.  The process may die at any moment, and the    *)
(* caller may never see the answer of a transaction that committed.        *)
(***************************************************************************)
EXTENDS EvidenceStore

CONSTANTS Clients,     \* concurrent callers
          Unreadable,  \* a document whose reader fails or exceeds the byte limit
          NoCall, NoEvidence,
          MaxAcks      \* bound: so many different successful answers are remembered

VARIABLES pc,     \* client -> where its call stands
          call,   \* client -> the request
          reply,  \* client -> the answer decided on
          acks    \* successful answers callers have received

callVars == <<pc, call, reply, acks>>
ingestVars == <<vars, callVars>>

Calls == [key : IdempotencyKeys, source : Sources, representation : Representations,
          document : Documents \cup {Unreadable}]
ASSUME CallAssumption == NoCall \notin Calls

Steps == {"idle", "find", "new", "refind", "answer"}

NoReply == [status |-> "none", id |-> NoEvidence]
Readable(k) == k.document # Unreadable
SourceOf(k) == SourceKey(k.source, k.representation)
ContentOf(k) == Digest(k.document)

IngestInit ==
  /\ Init
  /\ pc = [c \in Clients |-> "idle"]
  /\ call = [c \in Clients |-> NoCall]
  /\ reply = [c \in Clients |-> NoReply]
  /\ acks = {}

Goto(c, step) == pc' = [pc EXCEPT ![c] = step]
Answer(c, status, id) ==
  /\ Goto(c, "answer")
  /\ reply' = [reply EXCEPT ![c] = [status |-> status, id |-> id]]

Begin(c, k) ==
  /\ pc[c] = "idle"
  /\ Goto(c, "find")
  /\ call' = [call EXCEPT ![c] = k]
  /\ UNCHANGED <<vars, reply, acks>>

\* find: the record the request resolves to, if it is the request's source and
\* representation; a key that resolves to another source is a conflict.
Found(k) == Lookup(k.key, SourceOf(k))
Matching_AnySource(k) == Found(k) \cap DOMAIN evidence
Matching(k) == {id \in Found(k) \cap DOMAIN evidence : Keyed(evidence[id]) = SourceOf(k)}

\* commitment.Verify and the digest comparison: is it the document of the record?
SameDocument_Unchecked(id, k) == Readable(k)
SameDocument(id, k) == Readable(k) /\ evidence[id].witness.digest = ContentOf(k)

\* The first look.  A record found is compared with the document, whose bytes
\* must still hash to its witness; no record found starts a new witness.
Find(c) ==
  LET k == call[c] IN
  /\ pc[c] = "find"
  /\ \/ /\ Found(k) = {}
        /\ Goto(c, "new")
        /\ UNCHANGED reply
     \/ \E id \in Matching(k) :
          IF SameDocument(id, k)
          THEN Answer(c, "existing", id)
          ELSE Answer(c, "conflict", NoEvidence)
     \/ /\ Found(k) \ Matching(k) # {}
        /\ Answer(c, "conflict", NoEvidence)
  /\ UNCHANGED <<vars, call, acks>>

\* A fresh witness for the document and the transaction that stores it.  Its
\* nonce is nobody else's, so the transaction creates a record or conflicts:
\* Ingest's answer for an identical witness is out of this caller's reach.
FreshNonces == Nonces \ {evidence[id].witness.nonce : id \in DOMAIN evidence}
Store(c) ==
  LET k == call[c] IN
  /\ pc[c] = "new"
  /\ \/ /\ ~Readable(k)
        /\ Answer(c, "invalid", NoEvidence)
        /\ UNCHANGED vars
     \/ /\ Readable(k)
        /\ \E n \in FreshNonces :
             LET w == [representation |-> k.representation, digest |-> ContentOf(k), nonce |-> n] IN
             \/ /\ IngestCreate(k.key, k.source, w)
                /\ Answer(c, "created", keys'[k.key])
             \/ /\ IngestConflict(k.key, k.source, w)
                /\ Goto(c, "refind")
                /\ UNCHANGED <<vars, reply>>
     \/ /\ Readable(k)
        /\ Found(k) = {} /\ sequence = MaxSequence
        /\ Answer(c, "corrupt", NoEvidence)
        /\ UNCHANGED vars
  /\ UNCHANGED <<call, acks>>

\* The second look, after a concurrent caller won: the same document is answered
\* with the winner's record.
Refind(c) ==
  LET k == call[c] IN
  /\ pc[c] = "refind"
  /\ \/ \E id \in Matching(k) : SameDocument(id, k) /\ Answer(c, "existing", id)
     \/ /\ \A id \in Matching(k) : ~SameDocument(id, k)
        /\ Answer(c, "conflict", NoEvidence)
  /\ UNCHANGED <<vars, call, acks>>

Reset(C) ==
  /\ pc' = [c \in Clients |-> IF c \in C THEN "idle" ELSE pc[c]]
  /\ call' = [c \in Clients |-> IF c \in C THEN NoCall ELSE call[c]]
  /\ reply' = [c \in Clients |-> IF c \in C THEN NoReply ELSE reply[c]]

\* The answers the handler reports as 200 or 201.
Succeeded(r) == r.status \in {"created", "existing"}

Receive(c) ==
  /\ pc[c] = "answer"
  /\ acks' = IF Succeeded(reply[c]) /\ Cardinality(acks) < MaxAcks
             THEN acks \cup {[call |-> call[c], id |-> reply[c].id]} ELSE acks
  /\ Reset({c})
  /\ UNCHANGED vars

\* The answer never arrives: the connection broke after the commit.
LoseAnswer(c) ==
  /\ pc[c] = "answer"
  /\ Reset({c})
  /\ UNCHANGED <<vars, acks>>

\* The process dies and is started again: committed transactions survive it.
Crash ==
  /\ \E c \in Clients : pc[c] # "idle"
  /\ Reset(Clients)
  /\ UNCHANGED <<vars, acks>>

\* Another handler freezes a batch meanwhile.
Freeze == /\ \E key \in RequestKeys, limit \in Limits : FreezeNew(key, limit)
          /\ UNCHANGED callVars

Step(c) == Find(c) \/ Store(c) \/ Refind(c) \/ Receive(c)

IngestNext ==
  \/ \E c \in Clients, k \in Calls : Begin(c, k)
  \/ \E c \in Clients : Step(c) \/ LoseAnswer(c)
  \/ Crash
  \/ Freeze

IngestSpec == IngestInit /\ [][IngestNext]_ingestVars

--------------------------------------------------------------------------------
(* Properties *)

(* Whatever a caller was told is stored stays stored as told, across crashes
   and the calls of others: the record acknowledged is still the record of the
   source it named and commits to the document it uploaded. *)
AcknowledgedStays ==
  \A a \in acks :
    /\ SourceOf(a.call) \in DOMAIN sources
    /\ sources[SourceOf(a.call)] = a.id
    /\ evidence[a.id].witness.digest = ContentOf(a.call)

(* Every interleaving of IngestDocument's steps is one of atomic calls: a
   source is accepted once, identical uploads racing each other are answered
   with one record, and a conflict is reported only if there is one. *)
Atomic == INSTANCE AtomicIngest WITH
  Capacity <- MaxSequence,
  content <- [sk \in DOMAIN sources |->
                [id |-> sources[sk], digest |-> evidence[sources[sk]].witness.digest]],
  names <- [key \in DOMAIN keys |-> Keyed(evidence[keys[key]])],
  outcome <- reply
ImplementsAtomicIngest == Atomic!Spec

(* docs/architecture/api.md:23 "Exact ingestion retries are idempotent": a
   request that was once acknowledged is not refused with a conflict later. *)
ExactRetryIdempotent ==
  [][\A c \in Clients :
       reply[c].status = "none" /\ reply'[c].status = "conflict"
         => \A a \in acks : a.call # call[c]]_ingestVars
================================================================================
