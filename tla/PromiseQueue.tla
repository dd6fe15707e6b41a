---------------------------- MODULE PromiseQueue ----------------------------
(***************************************************************************)
(* What the bridge promises about promise jobs, without asynchronous       *)
(* tasks, helper threads, slots or indices.  Jobs are numbered in the      *)
(* order in which JavaScript enqueues them.  At most one native call on    *)
(* the stack runs jobs: it runs them in order, only while it is on top,    *)
(* and returns only when none is left.  JobQueue implements this.          *)
(***************************************************************************)
EXTENDS Naturals

VARIABLES
  calls,     \* native calls on the stack
  drainer,   \* the one that runs jobs, counted from the bottom, or 0
  enqueued,  \* jobs enqueued so far
  ran        \* jobs run so far

vars == <<calls, drainer, enqueued, ran>>

Init == calls = 0 /\ drainer = 0 /\ enqueued = 0 /\ ran = 0

Call ==
  /\ calls' = calls + 1
  /\ UNCHANGED <<drainer, enqueued, ran>>

Enqueue ==
  /\ calls > 0
  /\ enqueued' = enqueued + 1
  /\ UNCHANGED <<calls, drainer, ran>>

BeginDrain ==
  /\ calls > 0
  /\ drainer = 0
  /\ drainer' = calls
  /\ UNCHANGED <<calls, enqueued, ran>>

RunJob ==
  /\ calls > 0
  /\ drainer = calls
  /\ ran < enqueued
  /\ ran' = ran + 1
  /\ UNCHANGED <<calls, drainer, enqueued>>

\* The call that drains returns.
EndDrain ==
  /\ calls > 0
  /\ drainer = calls
  /\ ran = enqueued
  /\ drainer' = 0
  /\ calls' = calls - 1
  /\ UNCHANGED <<enqueued, ran>>

\* Another call returns: its script has failed, or a call below drains.
Return ==
  /\ calls > 0
  /\ drainer # calls
  /\ calls' = calls - 1
  /\ UNCHANGED <<drainer, enqueued, ran>>

Next == Call \/ Enqueue \/ BeginDrain \/ RunJob \/ EndDrain \/ Return

Spec == Init /\ [][Next]_vars
=============================================================================
