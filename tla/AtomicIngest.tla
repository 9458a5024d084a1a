------------------------------ MODULE AtomicIngest ------------------------------
(***************************************************************************)
(* What uploading a document promises a caller: every call takes effect at *)
(* one instant between its start and its answer.  DocumentIngest, where a  *)
(* call looks the store up, writes to it and may look again while other    *)
(* calls run in between, implements this.                                  *)
(***************************************************************************)
EXTENDS Integers, FiniteSets

CONSTANTS Clients, Calls, EvidenceIDs, Capacity,
          NoCall, NoEvidence,
          SourceOf(_),     \* the source a call names
          ContentOf(_),    \* the digest of the document it uploads
          Readable(_)      \* whether the document can be read at all

VARIABLES content,  \* source -> [id, digest] of the record accepted for it
          names,    \* idempotency key -> source it was accepted for
          call,     \* client -> the call it has running
          outcome   \* client -> what that call has come to

vars == <<content, names, call, outcome>>

Undecided == [status |-> "none", id |-> NoEvidence]
Outcome(status, id) == [status |-> status, id |-> id]

Init ==
  /\ content = [s \in {} |-> NoEvidence]
  /\ names = [k \in {} |-> NoEvidence]
  /\ call = [c \in Clients |-> NoCall]
  /\ outcome = [c \in Clients |-> Undecided]

Running(c) == call[c] # NoCall /\ outcome[c] = Undecided
Free(k) == k.key \notin DOMAIN names
Mine(k) == ~Free(k) => names[k.key] = SourceOf(k)

Decide(c, status, id) ==
  /\ outcome' = [outcome EXCEPT ![c] = Outcome(status, id)]
  /\ UNCHANGED call

Begin(c, k) ==
  /\ call[c] = NoCall
  /\ call' = [call EXCEPT ![c] = k]
  /\ UNCHANGED <<content, names, outcome>>

\* The first readable document for a source is accepted under a new name.
Accept(c) ==
  LET k == call[c] IN
  /\ Running(c) /\ Readable(k) /\ Free(k)
  /\ SourceOf(k) \notin DOMAIN content
  /\ Cardinality(DOMAIN content) < Capacity
  /\ \E id \in EvidenceIDs \ {content[s].id : s \in DOMAIN content} :
       /\ content' = [s \in DOMAIN content \cup {SourceOf(k)} |->
                        IF s = SourceOf(k) THEN [id |-> id, digest |-> ContentOf(k)] ELSE content[s]]
       /\ names' = [n \in DOMAIN names \cup {k.key} |-> IF n = k.key THEN SourceOf(k) ELSE names[n]]
       /\ Decide(c, "created", id)

\* The same document for the same source is answered with the record there is.
Return(c) ==
  LET k == call[c] IN
  /\ Running(c) /\ Readable(k) /\ Mine(k)
  /\ SourceOf(k) \in DOMAIN content
  /\ content[SourceOf(k)].digest = ContentOf(k)
  /\ Decide(c, "existing", content[SourceOf(k)].id)
  /\ UNCHANGED <<content, names>>

\* A conflict is always genuine: the key names another source, or the source
\* has another document, or the document cannot be read to be compared.
Refuse(c) ==
  LET k == call[c] IN
  /\ Running(c)
  /\ \/ ~Mine(k)
     \/ /\ SourceOf(k) \in DOMAIN content
        /\ ~Readable(k) \/ content[SourceOf(k)].digest # ContentOf(k)
  /\ Decide(c, "conflict", NoEvidence)
  /\ UNCHANGED <<content, names>>

\* A new document that cannot be read is invalid, and a full store fails.
Fail(c) ==
  /\ Running(c)
  /\ \/ ~Readable(call[c]) /\ Decide(c, "invalid", NoEvidence)
     \/ Cardinality(DOMAIN content) = Capacity /\ Decide(c, "corrupt", NoEvidence)
  /\ UNCHANGED <<content, names>>

\* Some clients are done: answered, given up or cut off by a crash.
End(C) ==
  /\ call' = [c \in Clients |-> IF c \in C THEN NoCall ELSE call[c]]
  /\ outcome' = [c \in Clients |-> IF c \in C THEN Undecided ELSE outcome[c]]
  /\ UNCHANGED <<content, names>>

Next ==
  \/ \E c \in Clients, k \in Calls : Begin(c, k)
  \/ \E c \in Clients : Accept(c) \/ Return(c) \/ Refuse(c) \/ Fail(c)
  \/ \E C \in SUBSET Clients : End(C)

Spec == Init /\ [][Next]_vars
================================================================================
