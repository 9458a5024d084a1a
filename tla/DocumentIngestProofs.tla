-------------------------- MODULE DocumentIngestProofs --------------------------
(***************************************************************************)
(* IngestDocument is linearizable, for any number of clients, calls and    *)
(* records: each of its steps is an instant of an atomic call or invisible *)
(* to AtomicIngest.  And what was acknowledged stays.                      *)
(***************************************************************************)
EXTENDS DocumentIngest, EvidenceStoreProofs

\* The call's document is what its source has, under this id.
Stored(k, id) ==
  /\ SourceOf(k) \in DOMAIN sources
  /\ sources[SourceOf(k)] = id
  /\ evidence[id].witness.digest = ContentOf(k)

\* A client has a call until it is done and a reply once it is decided; a second
\* look finds what the first transaction lost to; a success is stored.
ClientSound(c) ==
  /\ IF pc[c] = "idle" THEN call[c] = NoCall ELSE call[c] \in Calls
  /\ IF pc[c] = "answer" THEN reply[c].status # "none" ELSE reply[c] = NoReply
  /\ pc[c] = "refind" => Found(call[c]) # {}
  /\ Succeeded(reply[c]) => Stored(call[c], reply[c].id)
ClientsSound ==
  /\ pc \in [Clients -> Steps]
  /\ call = [c \in Clients |-> call[c]]
  /\ reply = [c \in Clients |-> reply[c]]
  /\ \A c \in Clients : ClientSound(c)

\* There is one source for every number given out.
SourcesCounted == IsFiniteSet(DOMAIN sources) /\ Cardinality(DOMAIN sources) = sequence

IngestSound == StoreInvariant /\ SourcesCounted /\ ClientsSound /\ AcknowledgedStays

--------------------------------------------------------------------------------
(* What a request resolves to *)

(* Find's checks: a record that matches is the source's; one that does not was
   named by the key. *)
LEMMA Resolved ==
  ASSUME StoreInvariant, NEW k \in Calls
  PROVE  /\ Found(k) \subseteq DOMAIN evidence
         /\ \A id \in Matching(k) :
              /\ SourceOf(k) \in DOMAIN sources /\ sources[SourceOf(k)] = id
              /\ k.key \in DOMAIN keys => Keyed(evidence[keys[k.key]]) = SourceOf(k)
         /\ Found(k) \ Matching(k) # {} =>
              k.key \in DOMAIN keys /\ Keyed(evidence[keys[k.key]]) # SourceOf(k)
         /\ Found(k) = {} => k.key \notin DOMAIN keys /\ SourceOf(k) \notin DOMAIN sources
  BY DEF StoreInvariant, IndexesAgree, Found, Matching, Lookup

(* No transaction of the store moves a source to another record. *)
LEMMA SourcesKept ==
  ASSUME StoreInvariant, Next
  PROVE  \A sk \in DOMAIN sources : sk \in DOMAIN sources' /\ sources'[sk] = sources[sk]
<1>1. StoreInvariant' /\ KeepsEvidence
  BY NextInvariant, EvidenceKept
<1>2. \A id \in DOMAIN evidence : id \in DOMAIN evidence' /\ Keyed(evidence'[id]) = Keyed(evidence[id])
  BY <1>1 DEF KeepsEvidence, Keyed
<1>3. ASSUME NEW sk \in DOMAIN sources PROVE sk \in DOMAIN sources' /\ sources'[sk] = sources[sk]
  <2>1. sources[sk] \in DOMAIN evidence /\ Keyed(evidence[sources[sk]]) = sk
    BY DEF StoreInvariant, IndexesAgree
  <2>2. Keyed(evidence'[sources[sk]]) = sk /\ sources[sk] \in DOMAIN evidence'
    BY <1>2, <2>1
  <2>3. \A id \in DOMAIN evidence' : Keyed(evidence'[id]) \in DOMAIN sources' /\ sources'[Keyed(evidence'[id])] = id
    BY <1>1 DEF StoreInvariant, IndexesAgree, Keyed
  <2>4. QED
    BY <2>2, <2>3
<1>4. QED
  BY <1>3

(* What is stored stays, and what was found is found again. *)
LEMMA StoredStays ==
  ASSUME StoreInvariant, Next \/ UNCHANGED vars, NEW k, NEW id
  PROVE  /\ Stored(k, id) => Stored(k, id)'
         /\ Found(k) # {} => Found(k)' # {}
<1>1. CASE UNCHANGED vars
  BY <1>1 DEF vars, Stored, Found, Lookup
<1>2. CASE Next
  <2>1. KeepsEvidence /\ KeepsKeys
    BY <1>2, EvidenceKept, KeysKept
  <2>2. \A sk \in DOMAIN sources : sk \in DOMAIN sources' /\ sources'[sk] = sources[sk]
    BY <1>2, SourcesKept
  <2>3. Stored(k, id) => id \in DOMAIN evidence
    BY DEF StoreInvariant, IndexesAgree, Stored
  <2>4. QED
    BY <2>1, <2>2, <2>3 DEF KeepsEvidence, KeepsKeys, Stored, Found, Lookup
<1>3. QED
  BY <1>1, <1>2

--------------------------------------------------------------------------------
(* The invariant *)

(* A step of the store, or none, keeps what every client but one relies on. *)
LEMMA OthersSound ==
  ASSUME IngestSound, Next \/ UNCHANGED vars, NEW c \in Clients,
         UNCHANGED <<pc[c], call[c], reply[c]>>
  PROVE  ClientSound(c)'
  BY StoredStays DEF IngestSound, ClientsSound, ClientSound, NoReply, Succeeded

LEMMA AcksSound ==
  ASSUME IngestSound, Next \/ UNCHANGED vars, UNCHANGED acks
  PROVE  AcknowledgedStays'
<1>1. \A a \in acks : Stored(a.call, a.id)
  BY DEF IngestSound, AcknowledgedStays, Stored
<1>2. \A a \in acks : Stored(a.call, a.id)'
  BY <1>1, StoredStays DEF IngestSound
<1>3. QED
  BY <1>2 DEF AcknowledgedStays, Stored

(* One client moves, with or without a transaction. *)
LEMMA ClientMoves ==
  ASSUME IngestSound, Next \/ UNCHANGED vars, SourcesCounted', UNCHANGED acks,
         NEW c \in Clients, NEW step \in Steps, NEW k, NEW r,
         pc' = [pc EXCEPT ![c] = step],
         call' = [call EXCEPT ![c] = k],
         reply' = [reply EXCEPT ![c] = r],
         ClientSound(c)'
  PROVE  IngestSound'
<1>1. StoreInvariant'
  BY NextInvariant DEF IngestSound
<1>2. \A d \in Clients \ {c} : ClientSound(d)'
  BY OthersSound DEF IngestSound, ClientsSound
<1>3. ClientsSound'
  BY <1>2 DEF IngestSound, ClientsSound
<1>4. QED
  BY <1>1, <1>3, AcksSound DEF IngestSound

(* The client decides on its answer; a success it reports is stored by then. *)
LEMMA AnswerSound ==
  ASSUME IngestSound, Next \/ UNCHANGED vars, SourcesCounted', UNCHANGED <<call, acks>>,
         NEW c \in Clients, call[c] \in Calls,
         NEW status, NEW id, status # "none", Answer(c, status, id),
         status \in {"created", "existing"} => Stored(call[c], id)'
  PROVE  IngestSound'
<1>1. /\ pc' = [pc EXCEPT ![c] = "answer"]
      /\ reply' = [reply EXCEPT ![c] = [status |-> status, id |-> id]]
      /\ call' = [call EXCEPT ![c] = call[c]]
  BY DEF Answer, Goto, IngestSound, ClientsSound
<1>2. ClientSound(c)'
  BY <1>1 DEF IngestSound, ClientsSound, ClientSound, Succeeded, Stored
<1>3. QED
  BY <1>1, <1>2, ClientMoves DEF Steps

(* A record that matches, and has the call's document, is what is stored. *)
LEMMA MatchStored ==
  ASSUME IngestSound, UNCHANGED vars, NEW k \in Calls, NEW id \in Matching(k), SameDocument(id, k)
  PROVE  Stored(k, id)'
<1>1. Stored(k, id)
  BY Resolved DEF IngestSound, SameDocument, Stored
<1>2. QED
  BY <1>1, StoredStays DEF IngestSound

LEMMA FindSound == ASSUME IngestSound, NEW c \in Clients, Find(c) PROVE IngestSound'
<1>1. call[c] \in Calls /\ reply[c] = NoReply /\ ClientsSound
  BY DEF IngestSound, ClientsSound, ClientSound, Find
<1>2. UNCHANGED <<vars, call, acks>> /\ SourcesCounted'
  BY DEF Find, IngestSound, SourcesCounted, vars
<1>3. CASE Goto(c, "new") /\ UNCHANGED reply
  <2>1. /\ pc' = [pc EXCEPT ![c] = "new"] /\ reply' = [reply EXCEPT ![c] = NoReply]
        /\ call' = [call EXCEPT ![c] = call[c]]
    BY <1>1, <1>2, <1>3 DEF Goto, ClientsSound
  <2>2. ClientSound(c)'
    BY <1>1, <2>1 DEF ClientsSound, ClientSound, NoReply, Succeeded
  <2>3. QED
    BY <1>2, <2>1, <2>2, ClientMoves DEF Steps
<1>4. ASSUME NEW id, Answer(c, "conflict", id) PROVE IngestSound'
  BY <1>1, <1>2, <1>4, AnswerSound
<1>5. ASSUME NEW id \in Matching(call[c]), SameDocument(id, call[c]), Answer(c, "existing", id)
      PROVE  IngestSound'
  BY <1>1, <1>2, <1>5, MatchStored, AnswerSound
<1>6. QED
  BY <1>3, <1>4, <1>5 DEF Find

LEMMA RefindSound == ASSUME IngestSound, NEW c \in Clients, Refind(c) PROVE IngestSound'
<1>1. call[c] \in Calls
  BY DEF IngestSound, ClientsSound, ClientSound, Refind
<1>2. UNCHANGED <<vars, call, acks>> /\ SourcesCounted'
  BY DEF Refind, IngestSound, SourcesCounted, vars
<1>3. ASSUME NEW id, Answer(c, "conflict", id) PROVE IngestSound'
  BY <1>1, <1>2, <1>3, AnswerSound
<1>4. ASSUME NEW id \in Matching(call[c]), SameDocument(id, call[c]), Answer(c, "existing", id)
      PROVE  IngestSound'
  BY <1>1, <1>2, <1>4, MatchStored, AnswerSound
<1>5. QED
  BY <1>3, <1>4 DEF Refind

(* The witness of a call that can be read. *)
WitnessOf(k, n) == [representation |-> k.representation, digest |-> ContentOf(k), nonce |-> n]
LEMMA WitnessTyped ==
  ASSUME NEW k \in Calls, Readable(k), NEW n \in FreshNonces
  PROVE  /\ WitnessOf(k, n) \in Witnesses /\ k.key \in IdempotencyKeys /\ k.source \in Sources
         /\ SourceKey(k.source, WitnessOf(k, n).representation) = SourceOf(k)
  BY DEF Calls, Readable, FreshNonces, WitnessOf, Witnesses, ContentOf, Digest, Digests, SourceOf

(* What a transaction that creates a record does for its call. *)
LEMMA Created ==
  ASSUME IngestSound, NEW k \in Calls, Readable(k), NEW n \in FreshNonces,
         IngestCreate(k.key, k.source, WitnessOf(k, n))
  PROVE  /\ Next /\ SourcesCounted' /\ sequence < MaxSequence
         /\ k.key \notin DOMAIN keys /\ SourceOf(k) \notin DOMAIN sources
         /\ \E id \in EvidenceIDs \ DOMAIN evidence :
              /\ DOMAIN keys' = DOMAIN keys \cup {k.key} /\ keys'[k.key] = id
              /\ \A key \in DOMAIN keys : keys'[key] = keys[key]
              /\ DOMAIN sources' = DOMAIN sources \cup {SourceOf(k)} /\ sources'[SourceOf(k)] = id
              /\ \A sk \in DOMAIN sources : sources'[sk] = sources[sk]
              /\ \A x \in DOMAIN evidence : evidence'[x] = evidence[x]
              /\ evidence'[id].source = k.source /\ evidence'[id].witness = WitnessOf(k, n)
<1> DEFINE w == WitnessOf(k, n)
<1>1. /\ w \in Witnesses /\ k.key \in IdempotencyKeys /\ k.source \in Sources
      /\ SourceKey(k.source, w.representation) = SourceOf(k)
  BY WitnessTyped
<1> HIDE DEF w
<1>2. IngestCreate(k.key, k.source, w)
  BY DEF w
<1>3. Next
  BY <1>1, <1>2 DEF Next, Ingest
<1>4. \E id \in EvidenceIDs \ DOMAIN evidence :
        /\ DOMAIN keys' = DOMAIN keys \cup {k.key} /\ keys'[k.key] = id
        /\ \A key \in DOMAIN keys : keys'[key] = keys[key]
        /\ DOMAIN sources' = DOMAIN sources \cup {SourceOf(k)} /\ sources'[SourceOf(k)] = id
        /\ \A sk \in DOMAIN sources : sources'[sk] = sources[sk]
        /\ \A x \in DOMAIN evidence : evidence'[x] = evidence[x]
        /\ evidence'[id].source = k.source /\ evidence'[id].witness = w
        /\ k.key \notin DOMAIN keys /\ SourceOf(k) \notin DOMAIN sources
        /\ sequence' = sequence + 1
  <2>1. TypeOK
    BY DEF IngestSound, StoreInvariant
  <2>2. PICK id \in EvidenceIDs \ DOMAIN evidence :
          LET sk == SourceKey(k.source, w.representation) IN
          /\ sequence' = sequence + 1
          /\ sk \notin DOMAIN sources /\ k.key \notin DOMAIN keys
          /\ evidence'[id] = [sequence |-> sequence + 1, source |-> k.source, witness |-> w,
                              batch |-> NoBatch, index |-> 0]
          /\ \A x \in DOMAIN evidence : evidence'[x] = evidence[x]
          /\ DOMAIN keys' = DOMAIN keys \cup {k.key} /\ keys'[k.key] = id
          /\ \A key \in DOMAIN keys : keys'[key] = keys[key]
          /\ DOMAIN sources' = DOMAIN sources \cup {sk} /\ sources'[sk] = id
          /\ \A x \in DOMAIN sources : sources'[x] = sources[x]
    BY <1>1, <1>2, <2>1, CreateEffect
  <2>3. QED
    BY <1>1, <2>2
<1>5. SourcesCounted'
  BY <1>4, FS_AddElement DEF IngestSound, SourcesCounted
<1>6. sequence < MaxSequence
  BY <1>2 DEF IngestCreate
<1>7. QED
  BY <1>3, <1>4, <1>5, <1>6 DEF w

LEMMA StoreSound == ASSUME IngestSound, NEW c \in Clients, Store(c) PROVE IngestSound'
<1>0. PICK k \in Calls : k = call[c]
  BY DEF IngestSound, ClientsSound, ClientSound, Store
<1>1. reply[c] = NoReply /\ ClientsSound
  BY DEF IngestSound, ClientsSound, ClientSound, Store
<1>2. UNCHANGED <<call, acks>> /\ (UNCHANGED vars => SourcesCounted')
  BY DEF Store, IngestSound, SourcesCounted, vars
<1>3. ASSUME UNCHANGED vars, NEW status \in {"invalid", "corrupt"}, NEW id, Answer(c, status, id)
      PROVE  IngestSound'
  BY <1>0, <1>2, <1>3, AnswerSound
<1>4. ASSUME Readable(k), NEW n \in FreshNonces, IngestCreate(k.key, k.source, WitnessOf(k, n)),
             Answer(c, "created", keys'[k.key])
      PROVE  IngestSound'
  <2>1. Next /\ SourcesCounted'
    BY <1>4, Created
  <2>2. PICK id \in EvidenceIDs :
          /\ keys'[k.key] = id /\ SourceOf(k) \in DOMAIN sources' /\ sources'[SourceOf(k)] = id
          /\ evidence'[id].witness = WitnessOf(k, n)
    BY <1>4, Created
  <2>3. Stored(k, id)' /\ Answer(c, "created", id)
    BY <1>4, <2>2 DEF Stored, WitnessOf
  <2>4. Stored(call[c], id)'
    BY <1>0, <1>2, <2>3
  <2>5. QED
    BY <1>0, <1>2, <2>1, <2>3, <2>4, AnswerSound
<1>5. ASSUME Readable(k), NEW n \in FreshNonces, IngestConflict(k.key, k.source, WitnessOf(k, n)),
             Goto(c, "refind"), UNCHANGED <<vars, reply>>
      PROVE  IngestSound'
  <2>1. Found(k) # {}
    BY <1>5, WitnessTyped DEF IngestConflict, Found
  <2>2. /\ pc' = [pc EXCEPT ![c] = "refind"] /\ reply' = [reply EXCEPT ![c] = NoReply]
        /\ call' = [call EXCEPT ![c] = k]
    BY <1>0, <1>1, <1>2, <1>5 DEF Goto, ClientsSound
  <2>3. Found(k)' # {}
    BY <1>5, <2>1, StoredStays DEF IngestSound
  <2>4. ClientSound(c)'
    BY <1>0, <1>1, <1>2, <2>2, <2>3 DEF ClientsSound, ClientSound, NoReply, Succeeded
  <2>5. QED
    BY <1>2, <1>5, <2>2, <2>4, ClientMoves DEF Steps
<1>6. QED
  BY <1>0, <1>3, <1>4, <1>5 DEF Store, WitnessOf

(* Answers arrive or are lost, and crashes end every call. *)
LEMMA ResetSound ==
  ASSUME IngestSound, NEW C, Reset(C), UNCHANGED vars, AcknowledgedStays'
  PROVE  IngestSound'
<1>1. StoreInvariant' /\ SourcesCounted'
  BY NextInvariant DEF IngestSound, SourcesCounted, vars
<1>2. ASSUME NEW c \in Clients PROVE ClientSound(c)'
  <2>1. CASE c \in C
    BY <2>1 DEF Reset, ClientSound, NoReply, Succeeded
  <2>2. CASE c \notin C
    BY <2>2, OthersSound DEF Reset
  <2>3. QED
    BY <2>1, <2>2
<1>3. ClientsSound'
  BY <1>2 DEF Reset, IngestSound, ClientsSound, Steps
<1>4. QED
  BY <1>1, <1>3 DEF IngestSound

LEMMA ReceiveSound == ASSUME IngestSound, NEW c \in Clients, Receive(c) PROVE IngestSound'
<1>1. UNCHANGED vars /\ Reset({c})
  BY DEF Receive
<1>2. \A a \in acks' : Stored(a.call, a.id)
  BY DEF Receive, IngestSound, AcknowledgedStays, Stored, ClientsSound, ClientSound
<1>3. \A a \in acks' : Stored(a.call, a.id)'
  BY <1>1, <1>2 DEF Stored, vars
<1>4. AcknowledgedStays'
  BY <1>3 DEF AcknowledgedStays, Stored
<1>5. QED
  BY <1>1, <1>4, ResetSound

LEMMA BeginSound ==
  ASSUME IngestSound, NEW c \in Clients, NEW k \in Calls, Begin(c, k) PROVE IngestSound'
<1>1. UNCHANGED <<vars, reply, acks>> /\ SourcesCounted' /\ reply[c] = NoReply
  BY DEF Begin, IngestSound, SourcesCounted, vars, ClientsSound, ClientSound
<1>2. /\ pc' = [pc EXCEPT ![c] = "find"] /\ call' = [call EXCEPT ![c] = k]
      /\ reply' = [reply EXCEPT ![c] = NoReply]
  BY <1>1 DEF Begin, Goto, IngestSound, ClientsSound
<1>3. ClientSound(c)'
  BY <1>2 DEF IngestSound, ClientsSound, ClientSound, NoReply, Succeeded
<1>4. QED
  BY <1>1, <1>2, <1>3, ClientMoves DEF Steps

LEMMA FreezeSound == IngestSound /\ Freeze => IngestSound'
<1> SUFFICES ASSUME IngestSound, Freeze PROVE IngestSound'
  OBVIOUS
<1>1. Next /\ UNCHANGED <<sources, sequence, callVars>>
  BY DEF Freeze, FreezeNew, Next
<1>2. StoreInvariant' /\ SourcesCounted' /\ AcknowledgedStays'
  BY <1>1, NextInvariant, AcksSound DEF IngestSound, SourcesCounted, callVars
<1>3. \A c \in Clients : ClientSound(c)'
  BY <1>1, OthersSound DEF callVars
<1>4. QED
  BY <1>1, <1>2, <1>3 DEF IngestSound, ClientsSound, callVars

LEMMA StepSound == IngestSound /\ [IngestNext]_ingestVars => IngestSound'
<1>1. ASSUME IngestSound, UNCHANGED ingestVars PROVE IngestSound'
  <2>1. UNCHANGED <<vars, pc, call, reply, acks>>
    BY <1>1 DEF ingestVars, callVars
  <2>2. StoreInvariant' /\ SourcesCounted' /\ AcknowledgedStays'
    BY <1>1, <2>1, NextInvariant, AcksSound DEF IngestSound, SourcesCounted, vars
  <2>3. \A c \in Clients : ClientSound(c)'
    BY <1>1, <2>1, OthersSound
  <2>4. QED
    BY <1>1, <2>1, <2>2, <2>3 DEF IngestSound, ClientsSound
<1>2. ASSUME IngestSound, NEW c \in Clients, LoseAnswer(c) PROVE IngestSound'
  BY <1>2, AcksSound, ResetSound DEF LoseAnswer
<1>3. IngestSound /\ Crash => IngestSound'
  BY AcksSound, ResetSound DEF Crash
<1>4. QED
  BY <1>1, <1>2, <1>3, BeginSound, FindSound, StoreSound, RefindSound, ReceiveSound, FreezeSound
  DEF IngestNext, Step

(* IngestSound holds in every interleaving, through crashes and lost answers. *)
THEOREM IngestInvariance == IngestSpec => []IngestSound
<1>1. IngestInit => IngestSound
  <2>1. IngestInit => StoreInvariant
    BY InitInvariant DEF IngestInit
  <2>2. IngestInit => SourcesCounted
    BY FS_EmptySet DEF IngestInit, Init, EmptyBucket, SourcesCounted
  <2>3. IngestInit => ClientsSound /\ AcknowledgedStays
    BY DEF IngestInit, ClientsSound, ClientSound, NoReply, Succeeded, Steps, AcknowledgedStays
  <2>4. QED
    BY <2>1, <2>2, <2>3 DEF IngestSound
<1>2. QED
  BY <1>1, StepSound, PTL DEF IngestSpec

(* Whatever a caller was told is stored stays stored as told. *)
THEOREM AcknowledgedAlwaysStays == IngestSpec => []AcknowledgedStays
<1>1. IngestSound => AcknowledgedStays
  BY DEF IngestSound
<1>2. QED
  BY <1>1, IngestInvariance, PTL

--------------------------------------------------------------------------------
(* Refinement *)

\* What AtomicIngest knows of the store: the two mapped variables.
Content == [sk \in DOMAIN sources |->
              [id |-> sources[sk], digest |-> evidence[sources[sk]].witness.digest]]
Names == [key \in DOMAIN keys |-> Keyed(evidence[keys[key]])]

(* Both modules count alike. *)
LEMMA CountsAlike == ASSUME NEW S PROVE Atomic!Cardinality(S) = Cardinality(S)
  BY DEF Atomic!Cardinality, Cardinality

(* A client that has not decided is running an atomic call. *)
LEMMA RunsAtomically ==
  ASSUME IngestSound, NEW c \in Clients, pc[c] \in {"find", "new", "refind"}
  PROVE  call[c] \in Calls /\ Atomic!Running(c)
  BY CallAssumption DEF IngestSound, ClientsSound, ClientSound, Atomic!Running, Atomic!Undecided, NoReply

(* Which of the mapped values a request meets. *)
LEMMA MapsCall ==
  ASSUME IngestSound, NEW k \in Calls
  PROVE  /\ Atomic!Free(k) <=> k.key \notin DOMAIN keys
         /\ Atomic!Mine(k) <=> (k.key \in DOMAIN keys => Keyed(evidence[keys[k.key]]) = SourceOf(k))
  BY DEF Atomic!Free, Atomic!Mine

LEMMA MapsContent ==
  ASSUME NEW sk \in DOMAIN sources
  PROVE  /\ sk \in DOMAIN Content /\ Content[sk].id = sources[sk]
         /\ Content[sk].digest = evidence[sources[sk]].witness.digest
  BY DEF Content

(* A match with the same document is a return. *)
LEMMA MapsReturn ==
  ASSUME IngestSound, NEW c \in Clients, Atomic!Running(c), call[c] \in Calls, UNCHANGED <<vars, call>>,
         NEW id \in Matching(call[c]), SameDocument(id, call[c]), Answer(c, "existing", id)
  PROVE  Atomic!Return(c)
<1> DEFINE k == call[c]
<1>1. /\ SourceOf(k) \in DOMAIN sources /\ sources[SourceOf(k)] = id /\ Atomic!Mine(k)
      /\ Readable(k) /\ evidence[id].witness.digest = ContentOf(k)
  BY Resolved, MapsCall DEF IngestSound, SameDocument
<1>2. reply' = [reply EXCEPT ![c] = [status |-> "existing", id |-> id]]
  BY DEF Answer
<1>3. QED
  BY <1>1, <1>2 DEF Atomic!Return, Atomic!Decide, Atomic!Outcome, vars

(* A conflict is answered when there is one: a record that does not match was
   named by the key, one that matches has another document. *)
LEMMA MapsRefuse ==
  ASSUME IngestSound, NEW c \in Clients, Atomic!Running(c), call[c] \in Calls, UNCHANGED <<vars, call>>,
         \/ \E id \in Matching(call[c]) : ~SameDocument(id, call[c])
         \/ Found(call[c]) \ Matching(call[c]) # {},
         Answer(c, "conflict", NoEvidence)
  PROVE  Atomic!Refuse(c)
<1> DEFINE k == call[c]
<1>1. \/ ~Atomic!Mine(k)
      \/ /\ SourceOf(k) \in DOMAIN sources
         /\ ~Readable(k) \/ evidence[sources[SourceOf(k)]].witness.digest # ContentOf(k)
  BY Resolved, MapsCall DEF IngestSound, SameDocument
<1>2. reply' = [reply EXCEPT ![c] = [status |-> "conflict", id |-> NoEvidence]]
  BY DEF Answer
<1>3. QED
  BY <1>1, <1>2 DEF Atomic!Refuse, Atomic!Decide, Atomic!Outcome, vars

(* The transaction that creates a record is the instant a call is accepted. *)
LEMMA MapsAccept ==
  ASSUME IngestSound, NEW c \in Clients, Atomic!Running(c), UNCHANGED call,
         NEW k \in Calls, k = call[c], Readable(k), NEW n \in FreshNonces,
         IngestCreate(k.key, k.source, WitnessOf(k, n)), Answer(c, "created", keys'[k.key])
  PROVE  Atomic!Accept(c)
<1>1. PICK id \in EvidenceIDs \ DOMAIN evidence :
        /\ DOMAIN keys' = DOMAIN keys \cup {k.key} /\ keys'[k.key] = id
        /\ \A key \in DOMAIN keys : keys'[key] = keys[key]
        /\ DOMAIN sources' = DOMAIN sources \cup {SourceOf(k)} /\ sources'[SourceOf(k)] = id
        /\ \A sk \in DOMAIN sources : sources'[sk] = sources[sk]
        /\ \A x \in DOMAIN evidence : evidence'[x] = evidence[x]
        /\ evidence'[id].source = k.source /\ evidence'[id].witness = WitnessOf(k, n)
  BY Created
<1>2. /\ sequence < MaxSequence /\ k.key \notin DOMAIN keys /\ SourceOf(k) \notin DOMAIN sources
  BY Created
<1>3. /\ \A sk \in DOMAIN sources : sources[sk] \in DOMAIN evidence
      /\ \A key \in DOMAIN keys : keys[key] \in DOMAIN evidence
  BY DEF IngestSound, StoreInvariant, IndexesAgree
<1>4. Atomic!Cardinality(DOMAIN Content) < MaxSequence
  BY <1>2, CountsAlike DEF IngestSound, SourcesCounted, Content
<1>5. id \notin {Content[sk].id : sk \in DOMAIN Content}
  BY <1>3 DEF Content
<1>6. Content' = [sk \in DOMAIN Content \cup {SourceOf(k)} |->
                    IF sk = SourceOf(k) THEN [id |-> id, digest |-> ContentOf(k)] ELSE Content[sk]]
  BY <1>1, <1>2, <1>3 DEF Content, WitnessOf
<1>7. Names' = [key \in DOMAIN Names \cup {k.key} |-> IF key = k.key THEN SourceOf(k) ELSE Names[key]]
  BY <1>1, <1>2, <1>3 DEF Names, WitnessOf, Keyed, SourceOf
<1>8. reply' = [reply EXCEPT ![c] = [status |-> "created", id |-> id]]
  BY <1>1 DEF Answer
<1>9. Atomic!Free(k) /\ SourceOf(k) \notin DOMAIN Content
  BY <1>2, MapsCall DEF Content
<1>10. QED
  BY <1>1, <1>4, <1>5, <1>6, <1>7, <1>8, <1>9
  DEF Atomic!Accept, Atomic!Decide, Atomic!Outcome, Content, Names

(* A transaction that keeps keys and sources is invisible. *)
LEMMA MapsFreeze == ASSUME IngestSound, Freeze PROVE UNCHANGED <<Content, Names, call, reply>>
<1>1. Next /\ UNCHANGED <<keys, sources, callVars>>
  BY DEF Freeze, FreezeNew, Next
<1>2. KeepsEvidence
  BY <1>1, EvidenceKept DEF IngestSound
<1>3. /\ \A sk \in DOMAIN sources : sources[sk] \in DOMAIN evidence
      /\ \A key \in DOMAIN keys : keys[key] \in DOMAIN evidence
  BY DEF IngestSound, StoreInvariant, IndexesAgree
<1>4. Content' = Content
  BY <1>1, <1>2, <1>3 DEF Content, KeepsEvidence
<1>5. Names' = Names
  BY <1>1, <1>2, <1>3 DEF Names, KeepsEvidence, Keyed
<1>6. QED
  BY <1>1, <1>4, <1>5 DEF callVars

LEMMA MapsStore ==
  ASSUME IngestSound, NEW c \in Clients, Store(c)
  PROVE  Atomic!Accept(c) \/ Atomic!Fail(c) \/ UNCHANGED <<Content, Names, call, reply>>
<1>0. PICK k \in Calls : k = call[c] /\ Atomic!Running(c)
  BY RunsAtomically DEF Store
<1>1. UNCHANGED call
  BY DEF Store
<1>2. CASE UNCHANGED vars /\ ~Readable(k) /\ Answer(c, "invalid", NoEvidence)
  BY <1>0, <1>1, <1>2 DEF Atomic!Fail, Atomic!Decide, Atomic!Outcome, Answer, vars
<1>3. CASE UNCHANGED vars /\ sequence = MaxSequence /\ Answer(c, "corrupt", NoEvidence)
  <2>1. Atomic!Cardinality(DOMAIN Content) = MaxSequence
    BY <1>3, CountsAlike DEF IngestSound, SourcesCounted, Content
  <2>2. QED
    BY <1>0, <1>1, <1>3, <2>1 DEF Atomic!Fail, Atomic!Decide, Atomic!Outcome, Answer, Content, vars
<1>4. CASE UNCHANGED <<vars, reply>>
  BY <1>1, <1>4 DEF Content, Names, vars
<1>5. QED
  BY <1>0, <1>1, <1>2, <1>3, <1>4, MapsAccept DEF Store, WitnessOf

(* Each step of IngestDocument, and of its surroundings, is a step of
   AtomicIngest or invisible to it. *)
LEMMA MapsStep == IngestSound /\ [IngestNext]_ingestVars => [Atomic!Next]_(Atomic!vars)
<1>1. IngestSound /\ UNCHANGED ingestVars => UNCHANGED Atomic!vars
  BY DEF ingestVars, callVars, vars, Atomic!vars
<1>2. ASSUME IngestSound, NEW c \in Clients, NEW k \in Calls, Begin(c, k) PROVE Atomic!Begin(c, k)
  BY <1>2 DEF Begin, Atomic!Begin, IngestSound, ClientsSound, ClientSound, vars
<1>3. ASSUME IngestSound, NEW c \in Clients, Find(c)
      PROVE  Atomic!Return(c) \/ Atomic!Refuse(c) \/ UNCHANGED Atomic!vars
  BY <1>3, RunsAtomically, MapsReturn, MapsRefuse DEF Find, Atomic!vars, vars
<1>4. ASSUME IngestSound, NEW c \in Clients, Refind(c) PROVE Atomic!Return(c) \/ Atomic!Refuse(c)
  <2>1. call[c] \in Calls /\ Atomic!Running(c) /\ Found(call[c]) # {}
    BY <1>4, RunsAtomically DEF Refind, IngestSound, ClientsSound, ClientSound
  <2>2. QED
    BY <1>4, <2>1, MapsReturn, MapsRefuse DEF Refind
<1>5. ASSUME NEW C, Reset(C), UNCHANGED vars PROVE Atomic!End(C)
  BY <1>5 DEF Reset, Atomic!End, Atomic!Undecided, NoReply, vars
<1>6. UNCHANGED <<Content, Names, call, reply>> => UNCHANGED Atomic!vars
  BY DEF Content, Names, Atomic!vars
<1>7. QED
  BY <1>1, <1>2, <1>3, <1>4, <1>5, <1>6, MapsStore, MapsFreeze
  DEF IngestNext, Step, Receive, LoseAnswer, Crash, Atomic!Next

(* IngestDocument implements AtomicIngest: every interleaving of its steps is
   one of calls that take effect in an instant. *)
THEOREM IngestIsAtomic == IngestSpec => ImplementsAtomicIngest
<1>1. IngestInit => Atomic!Init
  BY DEF IngestInit, Init, EmptyBucket, Atomic!Init, Atomic!Undecided, NoReply
<1>2. QED
  BY <1>1, MapsStep, IngestInvariance, PTL DEF IngestSpec, ImplementsAtomicIngest, Atomic!Spec
================================================================================
