------------------------------ MODULE PrivateFile ------------------------------
(***************************************************************************)
(* How "sigmaproof create" saves a package: writePrivateFile of            *)
(* internal/cli/run.go, run by several processes at once for one           *)
(* destination.  Each writes its package to a temporary file of its own,   *)
(* syncs it and links it to the destination, which only works where        *)
(* nothing is there yet.  A system call may fail, a process may be killed  *)
(* and the machine may lose power.  The file system is external: what a    *)
(* process sees, and what of it has reached the disk.                      *)
(***************************************************************************)
EXTENDS Naturals

CONSTANTS Writers,   \* processes; each writes its own package
          Dest,      \* the name all of them were given
          Prior,     \* a file that may have been at Dest before
          Nothing,   \* no file under this name
          Size,      \* length of a package, in blocks
          MaxOutages \* bound on power losses

ASSUME FileAssumption ==
  /\ Dest \notin Writers
  /\ Nothing \notin Writers \cup {Prior}
  /\ Prior \notin Writers
  /\ Size \in Nat \ {0}
  /\ MaxOutages \in Nat

\* A writer's temporary name and the file it creates are both named after it.
Names == Writers \cup {Dest}
Files == Writers \cup {Prior}
Ends == {"exit", "left", "killed"}
Steps == {"create", "write", "sync", "close", "link", "remove"} \cup Ends

VARIABLES pc,       \* writer -> the next system call
          code,     \* writer -> exit code it is going to have
          dir,      \* name -> file it leads to
          length,   \* file -> blocks written
          diskDir,  \* dir as the disk has it
          diskLength, \* length as the disk has it
          outages   \* power losses so far

vars == <<pc, code, dir, length, diskDir, diskLength, outages>>

Init ==
  /\ pc = [w \in Writers |-> "create"]
  /\ code = [w \in Writers |-> 1]
  /\ \E there \in {Nothing, Prior} : dir = [n \in Names |-> IF n = Dest THEN there ELSE Nothing]
  /\ length = [f \in Files |-> IF f = Prior THEN Size ELSE 0]
  /\ diskDir = dir
  /\ diskLength = length
  /\ outages = 0

Goto(w, step) == pc' = [pc EXCEPT ![w] = step]

\* os.CreateTemp: a new empty file under a name nobody has.
Create(w) ==
  /\ pc[w] = "create"
  /\ dir' = [dir EXCEPT ![w] = w]
  /\ Goto(w, "write")
  /\ UNCHANGED <<code, length, diskDir, diskLength, outages>>

\* f.Write appends block by block; others see the blocks there are so far.
Write(w) ==
  /\ pc[w] = "write"
  /\ length' = [length EXCEPT ![w] = @ + 1]
  /\ IF length'[w] = Size THEN Goto(w, "sync") ELSE UNCHANGED pc
  /\ UNCHANGED <<code, dir, diskDir, diskLength, outages>>

\* f.Sync returns when the file is on disk.
Sync_Buffered(w) ==
  /\ pc[w] = "sync"
  /\ Goto(w, "close")
  /\ UNCHANGED <<code, dir, length, diskDir, diskLength, outages>>
Sync(w) ==
  /\ pc[w] = "sync"
  /\ diskLength' = [diskLength EXCEPT ![w] = length[w]]
  /\ Goto(w, "close")
  /\ UNCHANGED <<code, dir, length, diskDir, outages>>

Close(w) ==
  /\ pc[w] = "close"
  /\ Goto(w, "link")
  /\ UNCHANGED <<code, dir, length, diskDir, diskLength, outages>>

\* os.Link never replaces what is at the destination, and decides the exit code.
Link_Rename(w) ==
  /\ pc[w] = "link"
  /\ dir' = [dir EXCEPT ![Dest] = w]
  /\ code' = [code EXCEPT ![w] = 0]
  /\ Goto(w, "remove")
  /\ UNCHANGED <<length, diskDir, diskLength, outages>>
Link_Unreported(w) ==
  /\ pc[w] = "link"
  /\ IF dir[Dest] = Nothing THEN dir' = [dir EXCEPT ![Dest] = w] ELSE UNCHANGED dir
  /\ code' = [code EXCEPT ![w] = 0]
  /\ Goto(w, "remove")
  /\ UNCHANGED <<length, diskDir, diskLength, outages>>
Link(w) ==
  /\ pc[w] = "link"
  /\ dir[Dest] = Nothing
  /\ dir' = [dir EXCEPT ![Dest] = w]
  /\ code' = [code EXCEPT ![w] = 0]
  /\ Goto(w, "remove")
  /\ UNCHANGED <<length, diskDir, diskLength, outages>>

\* A call that fails skips to the deferred clean-up: a full disk may stop a
\* write half-way, and the destination may exist.  Without a temporary file
\* there is nothing to clean up.
AfterFailure_Exit(w) == "exit"
AfterFailure(w) == IF pc[w] = "create" THEN "exit" ELSE "remove"
Fail(w) ==
  /\ pc[w] \in {"create", "write", "sync", "close", "link"}
  /\ Goto(w, AfterFailure(w))
  /\ UNCHANGED <<code, dir, length, diskDir, diskLength, outages>>

\* The deferred os.Remove of the temporary name; its error is discarded, and the
\* process ends as if nothing were left.
Remove(w) ==
  /\ pc[w] = "remove"
  /\ \/ dir' = [dir EXCEPT ![w] = Nothing] /\ Goto(w, "exit")
     \/ UNCHANGED dir /\ Goto(w, "left")
  /\ UNCHANGED <<code, length, diskDir, diskLength, outages>>

\* A signal ends the process where it is: no deferred call runs.
Kill(w) ==
  /\ pc[w] \notin Ends
  /\ Goto(w, "killed")
  /\ UNCHANGED <<code, dir, length, diskDir, diskLength, outages>>

\* The kernel writes names and blocks back in any order it likes.
FlushName(n) ==
  /\ diskDir[n] # dir[n]
  /\ diskDir' = [diskDir EXCEPT ![n] = dir[n]]
  /\ UNCHANGED <<pc, code, dir, length, diskLength, outages>>
FlushFile(f) ==
  /\ diskLength[f] # length[f]
  /\ diskLength' = [diskLength EXCEPT ![f] = length[f]]
  /\ UNCHANGED <<pc, code, dir, length, diskDir, outages>>

\* Power is lost: processes are gone, and what is left is what the disk has.
PowerLoss ==
  /\ outages < MaxOutages
  /\ pc' = [w \in Writers |-> IF pc[w] \in Ends THEN pc[w] ELSE "killed"]
  /\ dir' = diskDir
  /\ length' = diskLength
  /\ outages' = outages + 1
  /\ UNCHANGED <<code, diskDir, diskLength>>

Call(w) == Create(w) \/ Write(w) \/ Sync(w) \/ Close(w) \/ Link(w) \/ Fail(w) \/ Remove(w)
Ended == \A w \in Writers : pc[w] \in Ends

Next ==
  \/ \E w \in Writers : Call(w) \/ Kill(w)
  \/ \E n \in Names : FlushName(n)
  \/ \E f \in Files : FlushFile(f)
  \/ PowerLoss
  \/ Ended /\ UNCHANGED vars

Spec == Init /\ [][Next]_vars

--------------------------------------------------------------------------------
(* Properties *)

(* The processes are somewhere in writePrivateFile, names lead to files, and no
   file is longer than a package. *)
TypeOK ==
  /\ pc \in [Writers -> Steps]
  /\ code \in [Writers -> {0, 1}]
  /\ dir \in [Names -> Files \cup {Nothing}]
  /\ diskDir \in [Names -> Files \cup {Nothing}]
  /\ length \in [Files -> 0 .. Size]
  /\ diskLength \in [Files -> 0 .. Size]
  /\ outages \in 0 .. MaxOutages

(* "exposes only the complete file": whoever opens the destination, at any
   moment, after any failure, kill or power loss, and whatever order the kernel
   wrote things back in, finds a whole package or no file. *)
NeverPartial == dir[Dest] # Nothing => length[dir[Dest]] = Size

(* "without overwriting an existing destination": two creates racing for a name
   never replace each other's package or a file that was there before.  Only a
   power loss takes a package back, and never a file that was there before. *)
KeepsDest ==
  dir[Dest] # Nothing =>
    \/ dir'[Dest] = dir[Dest]
    \/ dir'[Dest] = Nothing /\ dir[Dest] # Prior /\ outages' # outages
NeverOverwritten == [][KeepsDest]_vars

(* Exit code 0 is the truth, and of one process at most: unless power was lost,
   the destination holds the package of the process that reported success. *)
SuccessIsSaved ==
  outages = 0 => \A w \in Writers : code[w] = 0 => dir[Dest] = w

(* "The temporary file is ... removed on exit": a process that ends by itself
   leaves no private copy behind, successful or not, unless it is the removal
   itself that fails. *)
NoLeftover == outages = 0 => \A w \in Writers : pc[w] = "exit" => dir[w] = Nothing

(* A package is whole from the sync on, and on disk from the close on. *)
WholeInTime ==
  \A w \in Writers :
    /\ pc[w] = "create" => length[w] = 0
    /\ pc[w] = "write" => length[w] < Size
    /\ pc[w] = "sync" => length[w] = Size
    /\ pc[w] \in {"close", "link"} => length[w] = Size /\ diskLength[w] = Size

(* What is at the destination is whole, in memory and on disk, and its writer
   is past the link; the disk is never ahead of the directory there, and has
   the file that was there before. *)
DestinationWhole ==
  /\ length[Prior] = Size /\ diskLength[Prior] = Size
  /\ diskDir[Dest] \in {dir[Dest], Nothing}
  /\ dir[Dest] = Prior => diskDir[Dest] = Prior
  /\ \A w \in Writers : dir[Dest] = w =>
       /\ length[w] = Size /\ diskLength[w] = Size
       /\ pc[w] \in {"remove"} \cup Ends

(* An exit code of 0 was decided by the link, and a temporary name exists
   between its creation and its removal only. *)
OutcomesSound ==
  /\ \A w \in Writers : code[w] = 0 => pc[w] \in {"remove"} \cup Ends
  /\ SuccessIsSaved
  /\ outages = 0 => \A w \in Writers : pc[w] \in {"create", "exit"} => dir[w] = Nothing

(* The inductive invariant: every step of every process, of the kernel and of a
   power loss preserves it, and the safety properties above follow from it. *)
FileInvariant == TypeOK /\ WholeInTime /\ DestinationWhole /\ OutcomesSound
================================================================================
