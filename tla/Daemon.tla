--------------------------------- MODULE Daemon ---------------------------------
(***************************************************************************)
(* The life of cmd/sigmaproofd over one database file: Store.Open with its *)
(* lock and schema transaction, serving, signals, Shutdown with its        *)
(* timeout, Store.Close and exit, for processes that are killed, restarted *)
(* and replaced while another still shuts down.  What a request writes is  *)
(* the store's business; here it is one transaction and an answer.         *)
(***************************************************************************)
EXTENDS Integers, FiniteSets

CONSTANTS Processes, Requests, NoProcess

VARIABLES file,      \* what the path holds
          data,      \* requests whose transactions are in the file
          holders,   \* the processes holding the file's lock
          main,      \* process -> where main() stands
          signalled, \* process -> whether NotifyContext's context is done
          shutdown,  \* process -> where the shutdown goroutine stands
          ended,     \* process -> how it ended last
          request,   \* request -> how far its handler is
          at,        \* request -> the process handling it
          view       \* request -> the data its open transaction started from

vars == <<file, data, holders, main, signalled, shutdown, ended, request, at, view>>

\* "empty" has no buckets yet, "partial" a schema but no tenants bucket.
Refused == {"exposed", "foreign", "future", "partial"}
FileStates == {"absent", "empty", "v1"} \cup Refused

Init ==
  /\ file \in FileStates \ {"partial"}
  /\ data = {}
  /\ holders = {}
  /\ main = [p \in Processes |-> "down"]
  /\ signalled = [p \in Processes |-> FALSE]
  /\ shutdown = [p \in Processes |-> "none"]
  /\ ended = [p \in Processes |-> "never"]
  /\ request = [r \in Requests |-> "unsent"]
  /\ at = [r \in Requests |-> NoProcess]
  /\ view = [r \in Requests |-> {}]

Goto(p, stage) == main' = [main EXCEPT ![p] = stage]

Active == {"handling", "transaction", "committed"}
Handling(p) == {r \in Requests : at[r] = p /\ request[r] \in Active}

\* The process is gone: the kernel drops its lock, an open transaction rolls
\* back, and its handlers' clients get no answer.
End(p, how) ==
  /\ Goto(p, "down")
  /\ signalled' = [signalled EXCEPT ![p] = FALSE]
  /\ shutdown' = [shutdown EXCEPT ![p] = "none"]
  /\ ended' = [ended EXCEPT ![p] = how]
  /\ holders' = holders \ {p}
  /\ request' = [r \in Requests |-> IF r \in Handling(p) THEN "lost" ELSE request[r]]
  /\ UNCHANGED <<data, at, view>>

--------------------------------------------------------------------------------
(* Opening *)

\* Open looks at the file before it touches it.
Start(p) ==
  /\ main[p] = "down"
  /\ IF file = "exposed" THEN End(p, "refused")
     ELSE Goto(p, "open") /\ UNCHANGED <<data, holders, signalled, shutdown, ended, request, at, view>>
  /\ UNCHANGED file

\* bbolt creates the file and locks it, for itself alone, or gives up after a second.
Lock(p) ==
  /\ main[p] = "open" /\ holders = {}
  /\ holders' = {p}
  /\ file' = IF file = "absent" THEN "empty" ELSE file
  /\ Goto(p, "schema")
  /\ UNCHANGED <<data, signalled, shutdown, ended, request, at, view>>
LockTimeout(p) ==
  /\ main[p] = "open" /\ holders # {}
  /\ End(p, "busy")
  /\ UNCHANGED file

\* One transaction accepts the schema, initialises an empty file or refuses.
Initialised_InTwo(f) == IF f = "empty" THEN {"partial", "v1"} ELSE {f}
Initialised(f) == IF f = "empty" THEN {"v1"} ELSE {f}
Schema(p) ==
  /\ main[p] = "schema"
  /\ file' \in Initialised(file)
  /\ IF file' \in Refused THEN End(p, "refused")
     ELSE /\ Goto(p, "listen")
          /\ UNCHANGED <<data, holders, signalled, shutdown, ended, request, at, view>>

\* ListenAndServe binds the address, fails, or finds that Shutdown came first.
Listen(p) ==
  /\ main[p] = "listen"
  /\ IF shutdown[p] # "none"
     THEN Goto(p, "wait") /\ UNCHANGED <<data, holders, signalled, shutdown, ended, request, at, view>>
     ELSE \/ Goto(p, "serve") /\ UNCHANGED <<data, holders, signalled, shutdown, ended, request, at, view>>
          \/ End(p, "fatal")
  /\ UNCHANGED file

\* Accepting connections may fail later, too: main exits at once, with what is open.
ServeFails(p) ==
  /\ main[p] = "serve" /\ shutdown[p] = "none"
  /\ End(p, "fatal")
  /\ UNCHANGED file

--------------------------------------------------------------------------------
(* Handling requests *)

Handle(r, stage) == request' = [request EXCEPT ![r] = stage]
ProcessesUnchanged == UNCHANGED <<file, holders, main, signalled, shutdown, ended>>

Accept(r, p) ==
  /\ request[r] = "unsent"
  /\ main[p] = "serve" /\ shutdown[p] = "none"
  /\ Handle(r, "handling")
  /\ at' = [at EXCEPT ![r] = p]
  /\ UNCHANGED <<data, view>> /\ ProcessesUnchanged

\* What Update could not begin or commit, Ingest returns as an error.
NotCommitted_Ignored(r) == Handle(r, "committed")
NotCommitted(r) == Handle(r, "failed")

\* Store.Ingest's Update: bbolt runs one write transaction of a process at a time,
\* over the data it starts from, and none once the process closed the file.
BeginTransaction(r) ==
  /\ request[r] = "handling"
  /\ IF at[r] \notin holders THEN NotCommitted(r) /\ UNCHANGED view
     ELSE /\ \A other \in Handling(at[r]) : request[other] # "transaction"
          /\ Handle(r, "transaction")
          /\ view' = [view EXCEPT ![r] = data]
  /\ UNCHANGED <<data, at>> /\ ProcessesUnchanged

\* A commit replaces the data by what the transaction made of its own view.
Commit(r) ==
  at[r] \in holders /\ Handle(r, "committed") /\ data' = view[r] \cup {r}
EndTransaction(r) ==
  /\ request[r] = "transaction"
  /\ Commit(r) \/ (NotCommitted(r) /\ UNCHANGED data)
  /\ view' = [view EXCEPT ![r] = {}]
  /\ UNCHANGED at /\ ProcessesUnchanged

Answer(r) ==
  /\ request[r] = "committed"
  /\ Handle(r, "answered")
  /\ UNCHANGED <<data, at, view>> /\ ProcessesUnchanged

--------------------------------------------------------------------------------
(* Stopping *)

\* From the start of main until stop() a signal is caught, once and for all;
\* after stop() it kills.
Signal(p) ==
  /\ main[p] \in {"open", "schema", "listen", "serve"}
  /\ signalled' = [signalled EXCEPT ![p] = TRUE]
  /\ UNCHANGED <<file, data, holders, main, shutdown, ended, request, at, view>>
Kill(p) ==
  /\ main[p] # "down"
  /\ End(p, "killed")
  /\ UNCHANGED file

\* The goroutine is started once the store is open.
BeginShutdown(p) ==
  /\ signalled[p] /\ main[p] \in {"listen", "serve"} /\ shutdown[p] = "none"
  /\ shutdown' = [shutdown EXCEPT ![p] = "draining"]
  /\ UNCHANGED <<file, data, holders, main, signalled, ended, request, at, view>>

\* ListenAndServe returns as soon as Shutdown begins, before it ends.
ListenReturns(p) ==
  /\ main[p] = "serve" /\ shutdown[p] # "none"
  /\ Goto(p, "wait")
  /\ UNCHANGED <<file, data, holders, signalled, shutdown, ended, request, at, view>>

\* Shutdown ends when no handler is left, or after five seconds.
EndShutdown_NoTimeout(p) ==
  /\ shutdown[p] = "draining" /\ Handling(p) = {}
  /\ shutdown' = [shutdown EXCEPT ![p] = "drained"]
  /\ UNCHANGED <<file, data, holders, main, signalled, ended, request, at, view>>
EndShutdown(p) ==
  /\ shutdown[p] = "draining"
  /\ \/ Handling(p) = {} /\ shutdown' = [shutdown EXCEPT ![p] = "drained"]
     \/ Handling(p) # {} /\ shutdown' = [shutdown EXCEPT ![p] = "timeout"]
  /\ UNCHANGED <<file, data, holders, main, signalled, ended, request, at, view>>

\* Main waits for it, and the deferred Close for the open transaction.
Close_WithoutDone(p) ==
  /\ main[p] = "wait"
  /\ \A r \in Handling(p) : request[r] # "transaction"
  /\ holders' = holders \ {p}
  /\ Goto(p, "return")
  /\ UNCHANGED <<file, data, signalled, shutdown, ended, request, at, view>>
Close(p) ==
  /\ main[p] = "wait" /\ shutdown[p] \in {"drained", "timeout"}
  /\ \A r \in Handling(p) : request[r] # "transaction"
  /\ holders' = holders \ {p}
  /\ Goto(p, "return")
  /\ UNCHANGED <<file, data, signalled, shutdown, ended, request, at, view>>
Return(p) ==
  /\ main[p] = "return"
  /\ End(p, shutdown[p])
  /\ UNCHANGED file

--------------------------------------------------------------------------------

Advance(p) ==
  \/ Lock(p) \/ LockTimeout(p) \/ Schema(p) \/ Listen(p)
  \/ BeginShutdown(p) \/ ListenReturns(p) \/ EndShutdown(p) \/ Close(p) \/ Return(p)

Next ==
  \/ \E p \in Processes : Start(p) \/ Advance(p) \/ ServeFails(p) \/ Signal(p) \/ Kill(p)
  \/ \E r \in Requests : BeginTransaction(r) \/ EndTransaction(r) \/ Answer(r)
  \/ \E r \in Requests, p \in Processes : Accept(r, p)

Spec == Init /\ [][Next]_vars

\* The goroutines of main are scheduled, timeouts fire, and a transaction ends;
\* a handler may hang for ever before or after it.
FairSpec ==
  /\ Spec
  /\ \A p \in Processes : WF_vars(Advance(p))
  /\ \A r \in Requests : WF_vars(EndTransaction(r))

--------------------------------------------------------------------------------
(* Properties *)

(* What a client was told is stored is in the file and stays there: though the
   process that answered closed the store under its handlers, was killed or was
   replaced, no transaction of it or of a later process takes it out again, and
   none that did not commit is answered as if it had. *)
AnswersDurable == \A r \in Requests : request[r] \in {"committed", "answered"} => r \in data

(* A request that was taken up is answered unless its process was killed, gave up
   waiting after five seconds or could no longer accept connections before any
   shutdown: a signal alone cuts nobody off. *)
CutOff(r) == request[r] \in Active /\ request'[r] = "lost"
Excused(p) ==
  ended'[p] \in {"killed", "timeout"} \/ (ended'[p] = "fatal" /\ shutdown[p] = "none")
SignalsDrain == [][\A r \in Requests : CutOff(r) => Excused(at[r])]_vars

(* A file that is not the store's is rejected unchanged, and the store never
   locks itself out: wherever a process dies between creating the file and
   serving, the next Open does not refuse what it finds. *)
SchemaKept == [][{file, file'} \cap Refused = {}]_file

(* A signal is enough: the process ends, though handlers hang and though it was
   still waiting for the lock. *)
SignalEnds == \A p \in Processes : signalled[p] ~> main[p] = "down"
================================================================================
