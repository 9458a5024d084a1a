------------------------------ MODULE DaemonProofs ------------------------------
(***************************************************************************)
(* What a daemon acknowledged is in the file, a signal alone cuts nobody   *)
(* off and a file that is not the store's is left alone, for any number of *)
(* processes and requests.                                                 *)
(***************************************************************************)
EXTENDS Daemon, TLAPS

Stages == {"down", "open", "schema", "listen", "serve", "wait", "return"}
Progress == {"none", "draining", "drained", "timeout"}
Ends == {"never", "refused", "busy", "fatal", "killed"} \cup Progress
Answers == {"unsent", "handling", "transaction", "committed", "answered", "failed", "lost"}

\* Everything has its type.
Typed ==
  /\ data \subseteq Requests
  /\ main \in [Processes -> Stages]
  /\ shutdown \in [Processes -> Progress]
  /\ ended \in [Processes -> Ends]
  /\ request \in [Requests -> Answers]
  /\ at \in [Requests -> Processes \cup {NoProcess}]
  /\ view \in [Requests -> SUBSET Requests]

\* Handlers run where the server was started, and none is left once Shutdown
\* has returned without its timeout; main returns after Shutdown.
HandlersServed ==
  \A r \in Requests, p \in Processes :
    request[r] \in Active /\ at[r] = p =>
      main[p] \in {"serve", "wait", "return"} /\ shutdown[p] # "drained"
ReturnsLate ==
  \A p \in Processes : main[p] = "return" => shutdown[p] \in {"drained", "timeout"}

\* The lock has one holder; whose transaction is open, at most one, saw what is there.
LockSound == holders \subseteq Processes /\ \A p, q \in holders : p = q
ViewsSound ==
  /\ \A r \in Requests : request[r] = "transaction" => at[r] \in holders /\ view[r] = data
  /\ \A r, q \in Requests : request[r] = "transaction" /\ request[q] = "transaction" => r = q

DaemonSound ==
  Typed /\ HandlersServed /\ ReturnsLate /\ LockSound /\ ViewsSound /\ AnswersDurable

(* The end of a process takes its handlers with it. *)
LEMMA EndSound ==
  ASSUME DaemonSound, NEW p \in Processes, NEW how \in Ends, End(p, how)
  PROVE  DaemonSound'
<1> USE DEF DaemonSound
<1>1. Typed'
  BY DEF Typed, End, Goto, Stages, Progress, Answers
<1>2. \A r \in Requests : request'[r] \in Active => request'[r] = request[r] /\ at[r] # p
  BY DEF End, Handling, Active, Typed
<1>3. HandlersServed'
  BY <1>2 DEF HandlersServed, End, Goto, Typed
<1>4. ReturnsLate'
  BY DEF ReturnsLate, End, Goto, Typed
<1>5. AnswersDurable'
  BY DEF AnswersDurable, End, Typed, Handling
<1>6. LockSound'
  BY DEF LockSound, End
<1>7. ViewsSound'
  BY <1>2 DEF ViewsSound, End, Active
<1>8. QED
  BY <1>1, <1>3, <1>4, <1>5, <1>6, <1>7

(* A step of main, a signal or a kill. *)
LEMMA ProcessSound ==
  ASSUME DaemonSound, NEW p \in Processes, Start(p) \/ Advance(p) \/ ServeFails(p) \/ Signal(p) \/ Kill(p)
  PROVE  DaemonSound'
<1> USE DEF DaemonSound
<1>end. ASSUME \E how \in Ends : End(p, how) PROVE DaemonSound'
  BY <1>end, EndSound
<1>main. ASSUME NEW stage \in Stages \ {"down", "return"}, Goto(p, stage),
                \A r \in Requests : request[r] \in Active /\ at[r] = p => stage \in {"serve", "wait"},
                \/ UNCHANGED holders
                \/ holders = {} /\ holders' = {p},
                UNCHANGED <<data, shutdown, ended, request, at, view>>
         PROVE  DaemonSound'
  BY <1>main DEF Goto, Typed, HandlersServed, ReturnsLate, LockSound, ViewsSound, AnswersDurable
<1>idle. main[p] \in {"down", "open", "schema", "listen"} =>
           \A r \in Requests : ~(request[r] \in Active /\ at[r] = p)
  BY DEF HandlersServed
<1>start. CASE Start(p)
  BY <1>start, <1>end, <1>main, <1>idle DEF Start, Ends, Stages
<1>lock. CASE Lock(p) \/ LockTimeout(p)
  BY <1>lock, <1>end, <1>main, <1>idle DEF Lock, LockTimeout, Ends, Stages
<1>schema. CASE Schema(p)
  BY <1>schema, <1>end, <1>main, <1>idle DEF Schema, Ends, Stages
<1>listen. CASE Listen(p)
  BY <1>listen, <1>end, <1>main, <1>idle DEF Listen, Ends, Stages
<1>returns. CASE ListenReturns(p)
  BY <1>returns, <1>main DEF ListenReturns, Stages
<1>begin. CASE BeginShutdown(p)
  BY <1>begin DEF BeginShutdown, Typed, HandlersServed, ReturnsLate, LockSound, ViewsSound, AnswersDurable, Progress
<1>drain. CASE EndShutdown(p)
  BY <1>drain DEF EndShutdown, Typed, HandlersServed, ReturnsLate, LockSound, ViewsSound, AnswersDurable, Progress, Handling
<1>close. CASE Close(p)
  BY <1>close DEF Close, Goto, Typed, HandlersServed, ReturnsLate, LockSound, ViewsSound,
                  AnswersDurable, Stages, Handling, Active
<1>return. CASE Return(p)
  BY <1>return, <1>end DEF Return, Typed, Ends
<1>signal. CASE Signal(p)
  BY <1>signal DEF Signal, Typed, HandlersServed, ReturnsLate, LockSound, ViewsSound, AnswersDurable
<1>kill. CASE Kill(p) \/ ServeFails(p)
  BY <1>kill, <1>end DEF Kill, ServeFails, Ends
<1> QED
  BY <1>start, <1>lock, <1>schema, <1>listen, <1>returns, <1>begin, <1>drain, <1>close,
     <1>return, <1>signal, <1>kill DEF Advance

(* A step of a handler. *)
LEMMA HandlerSound ==
  ASSUME DaemonSound, NEW r \in Requests,
         \/ BeginTransaction(r) \/ EndTransaction(r) \/ Answer(r)
         \/ \E p \in Processes : Accept(r, p)
  PROVE  DaemonSound'
<1> USE DEF DaemonSound, Typed, HandlersServed, ReturnsLate, LockSound, ViewsSound, AnswersDurable, Active, Answers,
            Handle, ProcessesUnchanged
<1>1. CASE BeginTransaction(r)
  BY <1>1 DEF BeginTransaction, NotCommitted, Handling
<1>2. CASE EndTransaction(r)
  BY <1>2 DEF EndTransaction, Commit, NotCommitted
<1>3. CASE Answer(r)
  BY <1>3 DEF Answer
<1>4. CASE \E p \in Processes : Accept(r, p)
  BY <1>4 DEF Accept
<1>5. QED
  BY <1>1, <1>2, <1>3, <1>4

(* DaemonSound holds through starts, signals, kills and replacements. *)
THEOREM DaemonInvariance == Spec => []DaemonSound
<1>1. Init => DaemonSound
  BY DEF Init, DaemonSound, Typed, HandlersServed, ReturnsLate, LockSound, ViewsSound, AnswersDurable, Stages,
         Progress, Ends, Answers, Active
<1>2. DaemonSound /\ UNCHANGED vars => DaemonSound'
  BY DEF vars, DaemonSound, Typed, HandlersServed, ReturnsLate, LockSound, ViewsSound, AnswersDurable
<1>3. DaemonSound /\ [Next]_vars => DaemonSound'
  BY <1>2, ProcessSound, HandlerSound DEF Next
<1>4. QED
  BY <1>1, <1>3, PTL DEF Spec

(* What a client was told is stored is in the file, and no later transaction takes
   it out. *)
THEOREM AnswersAlwaysDurable == Spec => []AnswersDurable
<1>1. DaemonSound => AnswersDurable
  BY DEF DaemonSound
<1>2. QED
  BY <1>1, DaemonInvariance, PTL

(* The handlers of a process that ends are cut off by how it ends. *)
LEMMA EndCutsOff ==
  ASSUME DaemonSound, NEW p \in Processes, NEW how \in Ends, End(p, how),
         (\E r \in Requests : request[r] \in Active /\ at[r] = p) =>
            how \in {"killed", "timeout"} \/ (how = "fatal" /\ shutdown[p] = "none"),
         NEW r \in Requests, CutOff(r)
  PROVE  Excused(at[r])
<1>1. request[r] \in Active /\ request'[r] # request[r]
  BY DEF CutOff, Active
<1>2. r \in Handling(p)
  BY <1>1 DEF End
<1>3. at[r] = p /\ ended'[p] = how
  BY <1>2 DEF Handling, End, DaemonSound, Typed
<1>4. QED
  BY <1>1, <1>3 DEF Excused

(* A signal alone cuts nobody off: only a kill, the timeout of Shutdown or a server
   that failed before it does. *)
THEOREM SignalsAlwaysDrain == Spec => SignalsDrain
<1> DEFINE Deserved == \A r \in Requests : CutOff(r) => Excused(at[r])
<1> USE DEF DaemonSound
<1>same. UNCHANGED request => Deserved
  BY DEF CutOff, Active
<1>one. ASSUME Typed, NEW r \in Requests, NEW stage \in Answers \ {"lost"}, Handle(r, stage)
        PROVE  Deserved
  BY <1>one DEF Handle, CutOff, Active, Typed
<1>handler. ASSUME DaemonSound, NEW r \in Requests,
                   \/ BeginTransaction(r) \/ EndTransaction(r) \/ Answer(r)
                   \/ \E p \in Processes : Accept(r, p)
            PROVE  Deserved
  BY <1>one, <1>handler DEF BeginTransaction, EndTransaction, Commit, NotCommitted, Answer, Accept,
                               Answers
<1>process. ASSUME DaemonSound, NEW p \in Processes,
                   Start(p) \/ Advance(p) \/ ServeFails(p) \/ Signal(p) \/ Kill(p)
            PROVE  Deserved
  <2>idle. ASSUME NEW how \in Ends, End(p, how), main[p] \in {"down", "open", "schema", "listen"}
           PROVE  Deserved
    BY <1>process, <2>idle, EndCutsOff DEF HandlersServed
  <2>return. CASE Return(p)
    <3>1. shutdown[p] \in {"drained", "timeout"} /\ shutdown[p] \in Ends
      BY <1>process, <2>return DEF Return, ReturnsLate, Ends, Progress
    <3>2. QED
      BY <1>process, <3>1, <2>return, EndCutsOff DEF Return, HandlersServed
  <2>kill. CASE Kill(p) \/ ServeFails(p)
    BY <1>process, <2>kill, EndCutsOff DEF Kill, ServeFails, Ends
  <2>else. CASE Start(p) \/ Signal(p) \/ (Advance(p) /\ ~Return(p))
    BY <1>process, <2>else, <1>same, <2>idle
    DEF Start, Signal, Advance, Lock, LockTimeout, Schema, Listen, BeginShutdown, ListenReturns,
        EndShutdown, Close, Ends
  <2> QED
    BY <1>process, <2>return, <2>kill, <2>else DEF Advance
<1>step. DaemonSound /\ [Next]_vars => [Deserved]_vars
  BY <1>handler, <1>process DEF Next
<1> QED
  BY <1>step, DaemonInvariance, PTL DEF Spec, SignalsDrain

(* Only a file that is absent or empty is ever written before it is served. *)
THEOREM SchemaAlwaysKept == Spec => SchemaKept
<1>1. ASSUME NEW p \in Processes, Start(p) \/ Advance(p) \/ ServeFails(p) \/ Signal(p) \/ Kill(p)
      PROVE  UNCHANGED file \/ {file, file'} \cap Refused = {}
  BY <1>1 DEF Start, ServeFails, Signal, Kill, Advance, Lock, LockTimeout, Schema, Listen, BeginShutdown,
              ListenReturns, EndShutdown, Close, Return, Initialised, Refused
<1>2. [Next]_vars => [{file, file'} \cap Refused = {}]_file
  BY <1>1 DEF Next, BeginTransaction, EndTransaction, Answer, Accept, ProcessesUnchanged, vars
<1>3. QED
  BY <1>2, PTL DEF Spec, SchemaKept
================================================================================
