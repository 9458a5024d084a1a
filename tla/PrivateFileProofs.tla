--------------------------- MODULE PrivateFileProofs ---------------------------
(***************************************************************************)
(* writePrivateFile is right for any number of processes and any length of *)
(* package: FileInvariant is inductive, and what a reader of the           *)
(* destination, a user and an administrator rely on follows from it.       *)
(***************************************************************************)
EXTENDS PrivateFile, TLAPS

(* Before any process has made a call, the destination is empty or whole. *)
LEMMA InitInvariant == Init => FileInvariant
  BY FileAssumption
  DEF Init, FileInvariant, TypeOK, WholeInTime, DestinationWhole, OutcomesSound,
      SuccessIsSaved, Names, Files, Steps, Ends

(* A system call of one process. *)
LEMMA CallInvariant ==
  ASSUME FileInvariant, NEW w \in Writers, Call(w)
  PROVE  FileInvariant'
<1> USE FileAssumption DEF FileInvariant, TypeOK, WholeInTime, DestinationWhole, OutcomesSound,
          SuccessIsSaved, Names, Files, Steps, Ends, Goto
<1>1. CASE Create(w)
  BY <1>1 DEF Create
<1>2. CASE Write(w)
  BY <1>2 DEF Write
<1>3. CASE Sync(w)
  BY <1>3 DEF Sync
<1>4. CASE Close(w)
  BY <1>4 DEF Close
<1>5. CASE Link(w)
  BY <1>5 DEF Link
<1>6. CASE Fail(w)
  BY <1>6 DEF Fail, AfterFailure
<1>7. CASE Remove(w)
  BY <1>7 DEF Remove
<1>8. QED
  BY <1>1, <1>2, <1>3, <1>4, <1>5, <1>6, <1>7 DEF Call

(* A kill, a write-back of the kernel, a power loss, or nothing at all. *)
LEMMA EnvironmentInvariant ==
  ASSUME FileInvariant,
         \/ \E w \in Writers : Kill(w)
         \/ \E n \in Names : FlushName(n)
         \/ \E f \in Files : FlushFile(f)
         \/ PowerLoss
         \/ UNCHANGED vars
  PROVE  FileInvariant'
<1> USE FileAssumption DEF FileInvariant, TypeOK, WholeInTime, DestinationWhole, OutcomesSound,
          SuccessIsSaved, Names, Files, Steps, Ends, Goto
<1>quiet. UNCHANGED vars => FileInvariant'
  BY DEF vars
<1>kill. (\E w \in Writers : Kill(w)) => FileInvariant'
  BY DEF Kill
<1>flush. (\E n \in Names : FlushName(n)) \/ (\E f \in Files : FlushFile(f)) => FileInvariant'
  BY DEF FlushName, FlushFile
<1>power. PowerLoss => FileInvariant'
  BY DEF PowerLoss
<1> QED
  BY <1>quiet, <1>kill, <1>flush, <1>power

LEMMA NextInvariant == FileInvariant /\ [Next]_vars => FileInvariant'
  BY CallInvariant, EnvironmentInvariant DEF Next

(* The invariant holds in every reachable state. *)
THEOREM FileInvariance == Spec => []FileInvariant
  BY InitInvariant, NextInvariant, PTL DEF Spec

(* A reader of the destination never sees part of a package, through failures,
   kills and power losses. *)
THEOREM DestinationNeverPartial == Spec => []NeverPartial
<1>1. FileInvariant => NeverPartial
  BY DEF FileInvariant, TypeOK, DestinationWhole, NeverPartial, Names, Files
<1>2. QED
  BY <1>1, FileInvariance, PTL

(* A process that reports success has saved its package. *)
THEOREM SuccessAlwaysSaved == Spec => []SuccessIsSaved
<1>1. FileInvariant => SuccessIsSaved
  BY DEF FileInvariant, OutcomesSound
<1>2. QED
  BY <1>1, FileInvariance, PTL

(* A process that ends by itself leaves no temporary copy, unless removing it failed. *)
THEOREM NeverLeftover == Spec => []NoLeftover
<1>1. FileInvariant => NoLeftover
  BY DEF FileInvariant, OutcomesSound, NoLeftover
<1>2. QED
  BY <1>1, FileInvariance, PTL

(* No step replaces what is at the destination; only a power loss takes away a
   package that had not reached the disk. *)
THEOREM DestinationNeverOverwritten == Spec => NeverOverwritten
<1> USE FileAssumption DEF FileInvariant, TypeOK, DestinationWhole, KeepsDest, Names, Files
<1>quiet. FileInvariant /\ dir'[Dest] = dir[Dest] => KeepsDest
  OBVIOUS
<1>link. ASSUME FileInvariant, NEW w \in Writers, Link(w) PROVE KeepsDest
  BY <1>link DEF Link
<1>call. ASSUME FileInvariant, NEW w \in Writers, Call(w) \/ Kill(w) PROVE KeepsDest
  BY <1>link, <1>call DEF Call, Create, Write, Sync, Close, Fail, Remove, Kill
<1>power. ASSUME FileInvariant, PowerLoss PROVE KeepsDest
  BY <1>power DEF PowerLoss
<1>flush. ASSUME FileInvariant,
                 \/ \E n \in Names : FlushName(n)
                 \/ \E f \in Files : FlushFile(f)
          PROVE  KeepsDest
  BY <1>quiet, <1>flush DEF FlushName, FlushFile
<1>step. FileInvariant /\ [Next]_vars => [KeepsDest]_vars
  BY <1>call, <1>power, <1>flush DEF Next, vars
<1> QED
  BY <1>step, FileInvariance, PTL DEF Spec, NeverOverwritten
================================================================================
