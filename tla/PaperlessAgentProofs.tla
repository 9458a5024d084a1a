-------------------------- MODULE PaperlessAgentProofs --------------------------
(***************************************************************************)
(* Evidence of a Paperless version commits to that version's bytes, and    *)
(* the agent's requests never conflict, for any number of handlers,        *)
(* documents and event ids: a derived key names one source, and a source   *)
(* one digest, so what the store holds and what is asked of it agree.      *)
(***************************************************************************)
EXTENDS PaperlessAgent, TLAPS

\* The source a derived key was derived with.
KeySource(key) == <<key[1], key[2], key[3]>>

\* A handler asks for a version's bytes under a key of that version, and is not
\* answered with a conflict.
HandlerSound(h) ==
  /\ call[h] # NoCall =>
       /\ call[h].source = KeySource(call[h].key)
       /\ RequestContent(call[h]) = call[h].source[2]
  /\ outcome[h].status # "conflict"
HandlersSound ==
  /\ call = [h \in Handlers |-> call[h]]
  /\ outcome = [h \in Handlers |-> outcome[h]]
  /\ \A h \in Handlers : HandlerSound(h)

\* The store's index has each key at its own source.
NamesSound == \A key \in DOMAIN names : names[key] = KeySource(key)

AgentSound == HandlersSound /\ NamesSound /\ EvidenceHasVersion

(* Nothing of the store or of the handlers' calls changes. *)
LEMMA QuietSound == AgentSound /\ UNCHANGED storeVars => AgentSound'
  BY DEF AgentSound, storeVars, HandlersSound, HandlerSound, NamesSound, EvidenceHasVersion

(* The bytes fetched are submitted in the version they were fetched in. *)
LEMMA FetchSound == ASSUME AgentSound, NEW h \in Handlers, FetchSucceeds(h) PROVE AgentSound'
<1>1. PICK bytes \in Fetched(event[h]) : Store!Begin(h, Request(event[h], bytes))
  BY DEF FetchSucceeds
<1>2. /\ call' = [call EXCEPT ![h] = Request(event[h], bytes)]
      /\ UNCHANGED <<content, names, outcome>>
  BY <1>1 DEF Store!Begin
<1>3. LET k == Request(event[h], bytes) IN
      k.source = KeySource(k.key) /\ RequestContent(k) = k.source[2]
  BY <1>1 DEF Fetched, Request, RequestContent, KeySource, stableKey, Source
<1>4. QED
  BY <1>2, <1>3 DEF AgentSound, HandlersSound, HandlerSound, NamesSound, EvidenceHasVersion

(* The store accepts or returns; it has no reason to refuse. *)
LEMMA IngestSound == ASSUME AgentSound, NEW h \in Handlers, Ingest(h) PROVE AgentSound'
<1> DEFINE k == call[h]
<1> USE DEF AgentSound, HandlersSound
<1>1. ASSUME NEW status, NEW id, Store!Decide(h, status, id), status # "conflict"
      PROVE  HandlersSound'
  BY <1>1 DEF Store!Decide, Store!Outcome, HandlerSound
<1>2. ASSUME Store!Running(h)
      PROVE  k.source = KeySource(k.key) /\ RequestContent(k) = k.source[2]
  BY <1>2 DEF Store!Running, HandlerSound
<1>3. CASE Store!Accept(h)
  <2>1. HandlersSound'
    BY <1>1, <1>3 DEF Store!Accept
  <2>2. NamesSound'
    BY <1>2, <1>3 DEF Store!Accept, NamesSound, RequestSource
  <2>3. EvidenceHasVersion'
    BY <1>2, <1>3 DEF Store!Accept, EvidenceHasVersion, RequestSource
  <2>4. QED
    BY <2>1, <2>2, <2>3
<1>4. CASE Store!Return(h) \/ Store!Fail(h)
  BY <1>1, <1>4 DEF Store!Return, Store!Fail, NamesSound, EvidenceHasVersion
<1>5. ~Store!Refuse(h)
  BY <1>2 DEF Store!Refuse, Store!Mine, Store!Free, NamesSound, EvidenceHasVersion,
              RequestSource, RequestReadable
<1>6. QED
  BY <1>3, <1>4, <1>5 DEF Ingest

(* Answered, or cut off by a crash. *)
LEMMA EndSound == ASSUME AgentSound, NEW H, Store!End(H) PROVE AgentSound'
  BY DEF Store!End, Store!Undecided, AgentSound, HandlersSound, HandlerSound, NamesSound,
         EvidenceHasVersion

LEMMA NextSound == AgentSound /\ Next => AgentSound'
<1> SUFFICES ASSUME AgentSound, AgentNext PROVE AgentSound'
  BY DEF Next
<1>1. ASSUME NEW h \in Handlers, Step(h) PROVE AgentSound'
  BY <1>1, FetchSound, IngestSound, EndSound, QuietSound DEF Step, FetchFails, Report
<1>2. CASE Crash
  BY <1>2, EndSound DEF Crash
<1>3. CASE UNCHANGED storeVars
  BY <1>3, QuietSound
<1>4. QED
  BY <1>1, <1>2, <1>3 DEF AgentNext, Edit, Lose, Deliver, Redeliver, StartPass, NextItem, Handle

(* AgentSound holds through every edit, delivery, pass and crash. *)
THEOREM AgentInvariance == Spec => []AgentSound
<1>1. Init => AgentSound
  BY DEF Init, Store!Init, Store!Undecided, AgentSound, HandlersSound, HandlerSound, NamesSound,
         EvidenceHasVersion
<1>2. AgentSound /\ UNCHANGED vars => AgentSound'
  BY QuietSound DEF vars
<1>3. QED
  BY <1>1, <1>2, NextSound, PTL DEF Spec

(* No edit, repetition or crash puts other bytes under a version. *)
THEOREM EvidenceAlwaysHasVersion == Spec => []EvidenceHasVersion
<1>1. AgentSound => EvidenceHasVersion
  BY DEF AgentSound
<1>2. QED
  BY <1>1, AgentInvariance, PTL

(* The agent is never told of a conflict. *)
THEOREM ConflictsNever == Spec => []NeverConflicts
<1>1. AgentSound => NeverConflicts
  BY DEF AgentSound, HandlersSound, HandlerSound, NeverConflicts
<1>2. QED
  BY <1>1, AgentInvariance, PTL
================================================================================
