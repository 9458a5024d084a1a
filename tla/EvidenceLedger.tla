----------------------------- MODULE EvidenceLedger -----------------------------
(***************************************************************************)
(* What the evidence store promises its callers, without buckets, ids or   *)
(* indexes: an append-only log with one entry per source, cut from its     *)
(* front into consecutive batches.  A request key names one cut for ever,  *)
(* and a cut once settled stays settled.  EvidenceStore implements this.   *)
(***************************************************************************)
EXTENDS Integers, Sequences

CONSTANTS SourceKeys,    \* what an entry is about
          Witnesses,     \* what an entry commits to
          RequestKeys,   \* names of cuts
          MaxSize,       \* the log's capacity
          MaxCut         \* the largest cut

VARIABLES log,    \* the entries, oldest first
          head,   \* how many entries have been cut
          cuts    \* request key -> cut

vars == <<log, head, cuts>>

Init ==
  /\ log = <<>>
  /\ head = 0
  /\ cuts = [key \in {} |-> 0]

Record(sk, w) ==
  /\ Len(log) < MaxSize
  /\ \A n \in DOMAIN log : log[n].about # sk
  /\ log' = Append(log, [about |-> sk, witness |-> w])
  /\ UNCHANGED <<head, cuts>>

\* A cut takes the oldest uncut entries: limit of them, or all there are.
Cut(key, limit) ==
  /\ key \notin DOMAIN cuts
  /\ head < Len(log)
  /\ LET last == IF head + limit <= Len(log) THEN head + limit ELSE Len(log)
         cut == [first |-> head + 1, last |-> last, limit |-> limit, settled |-> FALSE]
     IN /\ head' = last
        /\ cuts' = [k \in DOMAIN cuts \cup {key} |-> IF k = key THEN cut ELSE cuts[k]]
  /\ UNCHANGED log

Settle(key) ==
  /\ key \in DOMAIN cuts
  /\ cuts' = [cuts EXCEPT ![key].settled = TRUE]
  /\ UNCHANGED <<log, head>>

Next ==
  \/ \E sk \in SourceKeys, w \in Witnesses : Record(sk, w)
  \/ \E key \in RequestKeys, limit \in 1 .. MaxCut : Cut(key, limit)
  \/ \E key \in RequestKeys : Settle(key)

Spec == Init /\ [][Next]_vars
================================================================================
