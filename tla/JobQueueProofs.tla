--------------------------- MODULE JobQueueProofs ---------------------------
(***************************************************************************)
(* Proofs about JobQueue, for every set of tasks and helper threads and    *)
(* every bound.                                                            *)
(***************************************************************************)
EXTENDS JobQueue, FiniteSetTheorems, TLAPS

StackType ==
  /\ depth \in 0..MaxDepth
  /\ stack \in [1..MaxDepth -> Frame]

\* Only the top frame is outside JavaScript.
LowerFramesRunJS == \A d \in 1..depth : d # depth => stack[d].pc \in ScriptPCs

\* A call that is finishing a task has one.
FinishingHasTask ==
  \A d \in 1..depth : stack[d].pc = "finishing" => stack[d].fin # <<>>

\* Above the call that loops over the jobs there are only scripts.
ScriptsAboveLoop ==
  \A c, d \in 1..depth : c < d /\ Looping(c) => stack[d].pc = "script"

StackInv == LowerFramesRunJS /\ FinishingHasTask /\ ScriptsAboveLoop

SomeoneLoops == \E d \in 1..depth : Looping(d)

\* drainingJobQueue says whether some call is in the loop.
DrainFlag == drainingJobQueue <=> SomeoneLoops

\* The jobs not yet run are numbered on from ran, in the order of the queue.
\* The first of them is at index first.
PendingFrom(first) ==
  /\ first \in 1..Len(jobQueue) + 1
  /\ \A k \in first..Len(jobQueue) : jobQueue[k] = ran + 1 + (k - first)
  /\ enqueued = ran + 1 + (Len(jobQueue) - first)

QueueInv ==
  /\ ~drainingJobQueue => PendingFrom(1)
  /\ \A d \in 1..depth :
       /\ stack[d].pc = "jobs" => PendingFrom(stack[d].i)
       /\ stack[d].pc = "job" => stack[d].i >= 1 /\ PendingFrom(stack[d].i + 1)

Working(h) == helper[h] \in {"execute", "callback"}

\* A busy task is in exactly one place, and a task is started only once.
TaskInv ==
  /\ starting # NoTask => process = "up" /\ depth > 0
  /\ \A j, k \in 1..Len(promiseTasks) : promiseTasks[j] = promiseTasks[k] => j = k
  /\ \A k \in 1..Len(promiseTasks) : promiseTasks[k] # starting
  /\ \A h \in HelperThreads : Working(h) =>
       /\ currentTask[h] \in Tasks
       /\ currentTask[h] # starting
       /\ \A k \in 1..Len(promiseTasks) : promiseTasks[k] # currentTask[h]
  /\ \A g, h \in HelperThreads :
       Working(g) /\ Working(h) /\ currentTask[g] = currentTask[h] => g = h
  /\ \A t \in Busy : task[t] # "unborn"

\* A task is dispatched by JavaScript, and the finished list is taken only
\* after outstanding was seen to be zero.
DispatchInScript == starting # NoTask => Top.pc \in ScriptPCs

TakeInv == At("take") => outstanding = 0

IInv ==
  /\ TypeOK
  /\ StackInv
  /\ DrainFlag
  /\ QueueInv
  /\ TaskInv
  /\ OutstandingCounts
  /\ DispatchInScript
  /\ TakeInv
  /\ NoLostWakeup
  /\ QueuedTaskServed

USE JobQueueAssumption

LEMMA NewFrameType == NewFrame \in Frame
BY DEF NewFrame, Frame, DrainPCs

LEMMA GotoTop ==
  ASSUME stack \in [1..MaxDepth -> Frame], depth \in 1..MaxDepth,
         NEW p \in {"script"} \union DrainPCs, Goto(p)
  PROVE  /\ stack' \in [1..MaxDepth -> Frame]
         /\ stack'[depth].pc = p
         /\ stack'[depth].fin = stack[depth].fin
         /\ stack'[depth].i = stack[depth].i
         /\ \A d \in 1..MaxDepth : d # depth => stack'[d] = stack[d]
BY DEF Goto, Frame

LEMMA ReplaceTop ==
  ASSUME stack \in [1..MaxDepth -> Frame], NEW d \in 1..MaxDepth,
         NEW f \in Frame, stack' = [stack EXCEPT ![d] = f]
  PROVE  /\ stack' \in [1..MaxDepth -> Frame]
         /\ stack'[d] = f
         /\ \A c \in 1..MaxDepth : c # d => stack'[c] = stack[c]
OBVIOUS

LEMMA SetFin ==
  ASSUME stack \in [1..MaxDepth -> Frame], depth \in 1..MaxDepth,
         NEW p \in {"script"} \union DrainPCs, NEW s \in Seq(Tasks),
         stack' = [stack EXCEPT ![depth].pc = p, ![depth].fin = s]
  PROVE  /\ stack' \in [1..MaxDepth -> Frame]
         /\ stack'[depth].pc = p
         /\ stack'[depth].fin = s
         /\ stack'[depth].i = stack[depth].i
         /\ \A d \in 1..MaxDepth : d # depth => stack'[d] = stack[d]
BY DEF Frame

LEMMA SetIndex ==
  ASSUME stack \in [1..MaxDepth -> Frame], depth \in 1..MaxDepth,
         NEW p \in {"script"} \union DrainPCs, NEW n \in Nat,
         stack' = [stack EXCEPT ![depth].pc = p, ![depth].i = n]
  PROVE  /\ stack' \in [1..MaxDepth -> Frame]
         /\ stack'[depth].pc = p
         /\ stack'[depth].fin = stack[depth].fin
         /\ stack'[depth].i = n
         /\ \A d \in 1..MaxDepth : d # depth => stack'[d] = stack[d]
BY DEF Frame

-----------------------------------------------------------------------------
(***************************************************************************)
(* The stack.                                                              *)
(***************************************************************************)

\* What a step that only moves the top frame, outside the loop over the jobs,
\* must ensure.
LEMMA MoveTop ==
  ASSUME StackType, StackInv, DrainFlag, depth \in 1..MaxDepth,
         UNCHANGED <<depth, drainingJobQueue>>,
         \A d \in 1..MaxDepth : d # depth => stack'[d] = stack[d],
         stack'[depth].pc \in DrainPCs \ {"jobs", "job"},
         stack'[depth].pc = "finishing" => stack'[depth].fin # <<>>,
         ~Looping(depth),
         Top.pc = "script" => ~drainingJobQueue
  PROVE  StackInv' /\ DrainFlag'
<1>1. ~SomeoneLoops
  <2>1. CASE Top.pc = "script"
    BY <2>1, Zenon DEF DrainFlag
  <2>2. CASE Top.pc # "script"
    BY <2>2 DEF StackInv, ScriptsAboveLoop, Top, StackType, SomeoneLoops
  <2>3. QED
    BY <2>1, <2>2
<1>2. ~SomeoneLoops'
  BY <1>1 DEF Looping, StackType, SomeoneLoops
<1>3. StackInv'
  <2>1. LowerFramesRunJS' /\ FinishingHasTask'
    BY DEF StackInv, LowerFramesRunJS, FinishingHasTask, StackType
  <2>2. ScriptsAboveLoop'
    BY <1>2 DEF ScriptsAboveLoop, SomeoneLoops
  <2>3. QED
    BY <2>1, <2>2 DEF StackInv
<1>4. DrainFlag'
  BY <1>1, <1>2, Zenon DEF DrainFlag
<1>5. QED
  BY <1>3, <1>4

\* A native call that leaves the stack without being in the loop.
LEMMA PopScript ==
  ASSUME StackType, StackInv, DrainFlag, Pop, depth \in 1..MaxDepth, Top.pc = "script",
         UNCHANGED drainingJobQueue
  PROVE  /\ StackInv'
         /\ DrainFlag'
         /\ depth' \in 0..MaxDepth
         /\ stack' \in [1..MaxDepth -> Frame]
<1>1. /\ stack' \in [1..MaxDepth -> Frame]
      /\ \A d \in 1..MaxDepth : d # depth => stack'[d] = stack[d]
  BY NewFrameType, ReplaceTop DEF Pop, StackType
<1>2. depth' = depth - 1 /\ depth' \in 0..MaxDepth
  BY DEF Pop, StackType
<1>3. ~Looping(depth)
  BY DEF Looping, Top
<1>4. \A d \in 1..depth' : stack'[d] = stack[d]
  BY <1>1, <1>2 DEF StackType
<1>5. 1..depth = 1..depth' \union {depth}
  BY <1>2 DEF StackType
<1>6. SomeoneLoops' <=> SomeoneLoops
  BY <1>3, <1>4, <1>5, Zenon DEF Looping, SomeoneLoops
<1>7. StackInv'
  <2>1. LowerFramesRunJS' /\ FinishingHasTask'
    BY <1>2, <1>4 DEF StackInv, LowerFramesRunJS, FinishingHasTask, StackType
  <2>2. ScriptsAboveLoop'
    BY <1>2, <1>4 DEF StackInv, ScriptsAboveLoop, StackType, Looping
  <2>3. QED
    BY <2>1, <2>2 DEF StackInv
<1>8. QED
  BY <1>1, <1>2, <1>6, <1>7, Zenon DEF DrainFlag

LEMMA StackNext ==
  ASSUME IInv, [Next]_vars
  PROVE  /\ StackInv'
         /\ DrainFlag'
         /\ depth' \in 0..MaxDepth
         /\ stack' \in [1..MaxDepth -> Frame]
         /\ drainingJobQueue' \in BOOLEAN
<1>10. StackType /\ drainingJobQueue \in BOOLEAN
  BY DEF IInv, TypeOK, StackType
<1> USE <1>10 DEF IInv
<1> DEFINE Goal == /\ StackInv'
                   /\ DrainFlag'
                   /\ depth' \in 0..MaxDepth
                   /\ stack' \in [1..MaxDepth -> Frame]
                   /\ drainingJobQueue' \in BOOLEAN
<1>0. ASSUME UNCHANGED <<depth, stack, drainingJobQueue>> PROVE Goal
  BY <1>0 DEF StackType, StackInv, LowerFramesRunJS,
     FinishingHasTask, ScriptsAboveLoop, Looping, DrainFlag, SomeoneLoops
<1>1. CASE NativeCall
  <2>1. depth + 1 \in 1..MaxDepth /\ depth' = depth + 1
    BY <1>1 DEF NativeCall, StackType
  <2>2. /\ stack' \in [1..MaxDepth -> Frame]
        /\ stack'[depth + 1] = NewFrame
        /\ \A d \in 1..MaxDepth : d # depth + 1 => stack'[d] = stack[d]
    BY <1>1, <2>1, NewFrameType, ReplaceTop DEF NativeCall, StackType
  <2>3. stack'[depth'].pc = "script"
    BY <2>1, <2>2 DEF NewFrame
  <2>4. UNCHANGED drainingJobQueue
    BY <1>1 DEF NativeCall, shellVars
  <2>5. depth > 0 => Top.pc \in ScriptPCs
    BY <1>1 DEF NativeCall, JSRunning, At, StackType
  <2>6. \A d \in 1..depth : stack'[d] = stack[d]
    BY <2>1, <2>2 DEF StackType
  <2>7. 1..depth' = 1..depth \union {depth'}
    BY <2>1 DEF StackType
  <2>8. SomeoneLoops' <=> SomeoneLoops
    BY <2>3, <2>6, <2>7, Zenon DEF Looping, SomeoneLoops
  <2>9. StackInv'
    <3>1. LowerFramesRunJS'
      BY <2>1, <2>5, <2>6, <2>7 DEF StackInv, LowerFramesRunJS, Top, StackType
    <3>2. FinishingHasTask'
      BY <2>3, <2>6, <2>7 DEF StackInv, FinishingHasTask, StackType
    <3>3. ScriptsAboveLoop'
      <4> SUFFICES ASSUME NEW c \in 1..depth', NEW d \in 1..depth', c < d, Looping(c)'
                   PROVE  stack'[d].pc = "script"
        BY DEF ScriptsAboveLoop
      <4>1. c \in 1..depth /\ Looping(c)
        BY <2>1, <2>6 DEF StackType, Looping
      <4>2. QED
        BY <2>1, <2>3, <2>6, <4>1 DEF StackInv, ScriptsAboveLoop, StackType
    <3>4. QED
      BY <3>1, <3>2, <3>3 DEF StackInv
  <2>10. DrainFlag'
    BY <2>4, <2>8, Zenon DEF DrainFlag
  <2>11. QED
    BY <2>1, <2>2, <2>4, <2>9, <2>10 DEF StackType
<1>2. CASE ScriptFails \/ NestedDrain
  <2>1. depth \in 1..MaxDepth /\ Top.pc = "script" /\ Pop /\ UNCHANGED drainingJobQueue
    BY <1>2 DEF ScriptFails, NestedDrain, Return, At, StackType, shellVars
  <2>2. QED
    BY <2>1, PopScript DEF StackType
<1>3. CASE EnterDrain \/ CheckOutstanding \/ WaitForConsumer \/ SpuriousWakeup
  <2>1. PICK p \in {"check", "take", "wait", "sleep"} : Goto(p)
    BY <1>3 DEF EnterDrain, CheckOutstanding, WaitForConsumer, SpuriousWakeup
  <2>2. /\ depth \in 1..MaxDepth
        /\ UNCHANGED <<depth, drainingJobQueue>>
        /\ Top.pc \in {"script", "check", "wait", "sleep"}
        /\ Top.pc = "script" => ~drainingJobQueue
    BY <1>3 DEF EnterDrain, CheckOutstanding, WaitForConsumer, SpuriousWakeup, At,
                StackType, shellVars
  <2>3. ~Looping(depth)
    BY <2>2 DEF Looping, Top
  <2>4. p \in DrainPCs
    BY DEF DrainPCs
  <2>5. QED
    BY <2>1, <2>2, <2>3, <2>4, GotoTop, MoveTop DEF StackType
<1>4. CASE FinishTask
  <2>1. depth \in 1..MaxDepth /\ Top.pc = "finish" /\ Top.fin # <<>>
    BY <1>4 DEF FinishTask, At, StackType
  <2>2. Goto("finishing") /\ UNCHANGED <<depth, drainingJobQueue>>
    BY <1>4 DEF FinishTask, shellVars
  <2>3. ~Looping(depth) /\ "finishing" \in DrainPCs
    BY <2>1 DEF Looping, Top, DrainPCs
  <2>4. QED
    BY <2>1, <2>2, <2>3, GotoTop, MoveTop DEF StackType, Top
<1>5. CASE TakeFinished \/ FinishReturns
  <2>1. depth \in 1..MaxDepth /\ Top.pc \in {"take", "finishing"}
        /\ UNCHANGED <<depth, drainingJobQueue>>
    BY <1>5 DEF TakeFinished, FinishReturns, At, StackType, shellVars
  <2>2. PICK s \in Seq(Tasks) :
          stack' = [stack EXCEPT ![depth].pc = "finish", ![depth].fin = s]
    <3>1. CASE TakeFinished
      BY <3>1 DEF TakeFinished, TypeOK
    <3>2. CASE FinishReturns
      <4>1. Top.fin \in Seq(Tasks) /\ Top.fin # <<>>
        BY <2>1, <3>2 DEF FinishReturns, At, StackInv, FinishingHasTask, Top, StackType, Frame
      <4>2. Tail(Top.fin) \in Seq(Tasks)
        BY <4>1
      <4>3. QED
        BY <3>2, <4>2 DEF FinishReturns
    <3>3. QED
      BY <1>5, <3>1, <3>2
  <2>3. ~Looping(depth) /\ "finish" \in DrainPCs
    BY <2>1 DEF Looping, Top, DrainPCs
  <2>4. /\ stack' \in [1..MaxDepth -> Frame]
        /\ stack'[depth].pc = "finish"
        /\ \A d \in 1..MaxDepth : d # depth => stack'[d] = stack[d]
    BY <2>1, <2>2, <2>3, SetFin DEF StackType
  <2>5. StackInv' /\ DrainFlag'
    BY <2>1, <2>3, <2>4, MoveTop
  <2>6. QED
    BY <2>1, <2>4, <2>5 DEF StackType
<1>6. CASE BeginJobs \/ CallJob \/ JobReturns
  <2>1. /\ depth \in 1..MaxDepth
        /\ Top.pc \in {"finish", "jobs", "job"}
        /\ UNCHANGED depth
        /\ Looping(depth) => UNCHANGED drainingJobQueue
        /\ ~Looping(depth) => drainingJobQueue' = TRUE
    BY <1>6 DEF BeginJobs, CallJob, JobReturns, At, StackType, Looping, Top, shellVars
  <2>2. /\ stack' \in [1..MaxDepth -> Frame]
        /\ stack'[depth].pc \in {"jobs", "job"}
        /\ \A d \in 1..MaxDepth : d # depth => stack'[d] = stack[d]
    <3>1. CASE BeginJobs
      BY <2>1, <3>1, SetIndex DEF BeginJobs, StackType, DrainPCs
    <3>2. CASE CallJob
      BY <2>1, <3>2, GotoTop DEF CallJob, StackType, DrainPCs
    <3>3. CASE JobReturns
      <4>1. Top.i + 1 \in Nat
        BY <2>1 DEF StackType, Top, Frame
      <4>2. QED
        BY <2>1, <3>3, <4>1, SetIndex DEF JobReturns, StackType, DrainPCs
    <3>4. QED
      BY <1>6, <3>1, <3>2, <3>3
  <2>3. \A d \in 1..depth : d # depth => ~Looping(d)
    BY <2>1 DEF StackInv, ScriptsAboveLoop, Top, StackType
  <2>4. SomeoneLoops'
    BY <2>1, <2>2 DEF Looping, SomeoneLoops, StackType
  <2>5. drainingJobQueue' = TRUE
    <3>1. Looping(depth) => SomeoneLoops
      BY <2>1 DEF SomeoneLoops, StackType
    <3>2. QED
      BY <2>1, <3>1, Zenon DEF DrainFlag, StackType
  <2>6. DrainFlag'
    BY <2>4, <2>5, Zenon DEF DrainFlag
  <2>7. StackInv'
    <3>1. LowerFramesRunJS' /\ FinishingHasTask'
      BY <2>1, <2>2 DEF StackInv, LowerFramesRunJS, FinishingHasTask, StackType
    <3>2. ScriptsAboveLoop'
      BY <2>1, <2>2, <2>3 DEF ScriptsAboveLoop, StackType, Looping
    <3>3. QED
      BY <3>1, <3>2 DEF StackInv
  <2>8. QED
    BY <2>1, <2>2, <2>5, <2>6, <2>7 DEF StackType
<1>7. CASE DrainDone
  <2>1. /\ depth \in 1..MaxDepth
        /\ Top.pc = "jobs"
        /\ Pop
        /\ drainingJobQueue' = FALSE
    BY <1>7 DEF DrainDone, Return, At, StackType
  <2>2. /\ stack' \in [1..MaxDepth -> Frame]
        /\ \A d \in 1..MaxDepth : d # depth => stack'[d] = stack[d]
    BY <2>1, NewFrameType, ReplaceTop DEF Pop, StackType
  <2>3. depth' = depth - 1 /\ depth' \in 0..MaxDepth
    BY <2>1 DEF Pop, StackType
  <2>4. \A d \in 1..depth' : stack'[d] = stack[d] /\ ~Looping(d)
    BY <2>1, <2>2, <2>3 DEF StackInv, ScriptsAboveLoop, Top, StackType
  <2>5. ~SomeoneLoops'
    BY <2>4 DEF Looping, SomeoneLoops
  <2>6. DrainFlag'
    BY <2>1, <2>5, Zenon DEF DrainFlag
  <2>7. StackInv'
    <3>1. LowerFramesRunJS' /\ FinishingHasTask'
      BY <2>1, <2>3, <2>4 DEF StackInv, LowerFramesRunJS, FinishingHasTask, StackType
    <3>2. ScriptsAboveLoop'
      BY <2>5 DEF ScriptsAboveLoop, SomeoneLoops
    <3>3. QED
      BY <3>1, <3>2 DEF StackInv
  <2>8. QED
    BY <2>1, <2>2, <2>3, <2>6, <2>7
<1>8. ASSUME NEW h \in HelperThreads, Helper(h) PROVE Goal
  <2>1. UNCHANGED <<depth, drainingJobQueue>>
    BY <1>8 DEF Helper, HelperLoop, HelperWork, HelperTake, HelperSleep, HelperExit,
                HelperSpuriousWakeup, HelperExecute, HelperFinish,
                HelperFinishDeleted, ShellFinishAsyncTaskCallback, shellVars
  <2>2. UNCHANGED stack \/ (At("sleep") /\ Goto("check"))
    BY <1>8 DEF Helper, HelperLoop, HelperWork, HelperTake, HelperSleep, HelperExit,
                HelperSpuriousWakeup, HelperExecute, HelperFinish,
                HelperFinishDeleted, NotifyConsumer
  <2>3. CASE At("sleep") /\ Goto("check")
    <3>1. depth \in 1..MaxDepth /\ Top.pc = "sleep"
      BY <2>3 DEF At, StackType
    <3>2. ~Looping(depth) /\ "check" \in DrainPCs
      BY <3>1 DEF Looping, Top, DrainPCs
    <3>3. QED
      BY <2>1, <2>3, <3>1, <3>2, GotoTop, MoveTop DEF StackType
  <2>4. QED
    BY <1>0, <2>1, <2>2, <2>3
<1>9. QED
  <2>1. CASE ShellEnqueuePromiseJobCallback \/ GC \/ StartPromiseTaskEnds \/ Unload
             \/ ShutDown \/ \E t \in Tasks : ShellStartAsyncTaskCallback(t)
    BY <2>1, <1>0 DEF ShellEnqueuePromiseJobCallback, GC, StartPromiseTaskEnds,
       DispatchTask, DispatchFails, Unload, ShutDown, JS_ShutDownReturns,
       DestroyHelper, ShellStartAsyncTaskCallback, ShellFinishAsyncTaskCallback,
       shellVars
  <2>2. CASE UNCHANGED vars
    BY <2>2, <1>0 DEF vars, shellVars
  <2>3. QED
    BY <1>1, <1>2, <1>3, <1>4, <1>5, <1>6, <1>7, <1>8, <2>1, <2>2
       DEF Next, JavaScript, JavaScriptEnds, DrainStep

-----------------------------------------------------------------------------
(***************************************************************************)
(* The job queue.                                                          *)
(***************************************************************************)
QueueType ==
  /\ jobQueue \in Seq(NoJob..MaxJobs)
  /\ enqueued \in 0..MaxJobs
  /\ ran \in 0..MaxJobs

\* Below a call that is not in its script nobody loops.
LEMMA OnlyTopLoops ==
  ASSUME StackType, StackInv, depth \in 1..MaxDepth, Top.pc # "script"
  PROVE  \A d \in 1..depth : d # depth => ~Looping(d)
BY DEF StackType, StackInv, ScriptsAboveLoop, Top

\* A step that leaves the queue and the looping call alone.
LEMMA QueueKept ==
  ASSUME QueueInv, QueueType, UNCHANGED <<jobQueue, enqueued, ran, drainingJobQueue>>,
         \A d \in 1..depth' : Looping(d)' => d \in 1..depth /\ stack'[d] = stack[d]
  PROVE  QueueInv' /\ QueueType'
BY DEF QueueInv, QueueType, PendingFrom, Looping

LEMMA QueueNext ==
  ASSUME IInv, [Next]_vars
  PROVE  QueueInv' /\ QueueType'
<1>1. /\ StackType
      /\ QueueType
      /\ StackInv
      /\ QueueInv
      /\ drainingJobQueue \in BOOLEAN
      /\ DrainFlag
  BY DEF IInv, TypeOK, StackType, QueueType
<1>2. StackInv' /\ DrainFlag' /\ drainingJobQueue' \in BOOLEAN
  BY StackNext
<1> USE <1>1, <1>2
<1>3. CASE UNCHANGED <<depth, stack, drainingJobQueue, jobQueue, enqueued, ran>>
  BY <1>3, QueueKept DEF StackType, Looping
<1>4. CASE NativeCall
  <2>1. /\ UNCHANGED <<jobQueue, enqueued, ran, drainingJobQueue>>
        /\ depth' = depth + 1
        /\ depth + 1 \in 1..MaxDepth
        /\ stack' = [stack EXCEPT ![depth + 1] = NewFrame]
    BY <1>4 DEF NativeCall, shellVars, StackType
  <2>2. /\ stack'[depth + 1] = NewFrame
        /\ \A d \in 1..depth : stack'[d] = stack[d]
    BY <2>1, NewFrameType, ReplaceTop DEF StackType
  <2>3. ~Looping(depth)'
    BY <2>1, <2>2 DEF Looping, NewFrame
  <2>4. QED
    BY <2>1, <2>2, <2>3, QueueKept DEF StackType
<1>5. CASE ScriptFails \/ NestedDrain
  <2>1. /\ UNCHANGED <<jobQueue, enqueued, ran, drainingJobQueue>>
        /\ depth \in 1..MaxDepth
        /\ Pop
    BY <1>5 DEF ScriptFails, NestedDrain, Return, At, shellVars, StackType
  <2>2. /\ depth' = depth - 1
        /\ \A d \in 1..depth' : stack'[d] = stack[d]
    BY <2>1, NewFrameType, ReplaceTop DEF StackType, Pop
  <2>3. QED
    BY <2>1, <2>2, QueueKept DEF StackType
<1>6. CASE ShellEnqueuePromiseJobCallback
  <2>1. /\ enqueued < MaxJobs
        /\ enqueued' = enqueued + 1
        /\ jobQueue' = Append(jobQueue, enqueued + 1)
        /\ UNCHANGED <<depth, stack, drainingJobQueue, ran>>
    BY <1>6 DEF ShellEnqueuePromiseJobCallback
  <2>2. QueueType'
    BY <2>1 DEF QueueType, NoJob
  <2>3. ASSUME NEW f \in Nat, PendingFrom(f) PROVE PendingFrom(f)'
    BY <2>1, <2>3 DEF PendingFrom, QueueType
  <2>4. \A d \in 1..depth : stack[d].i \in Nat
    BY DEF StackType, Frame
  <2>5. QueueInv'
    BY <2>1, <2>3, <2>4 DEF QueueInv, StackType
  <2>6. QED
    BY <2>2, <2>5
<1>7. CASE EnterDrain \/ CheckOutstanding \/ WaitForConsumer \/ SpuriousWakeup
           \/ FinishTask
  <2>1. /\ UNCHANGED <<jobQueue, enqueued, ran, drainingJobQueue, depth>>
        /\ depth \in 1..MaxDepth
    BY <1>7 DEF EnterDrain, CheckOutstanding, WaitForConsumer, SpuriousWakeup,
                FinishTask, At, shellVars, StackType
  <2>2. PICK p \in {"check", "take", "wait", "sleep", "finishing"} : Goto(p)
    BY <1>7 DEF EnterDrain, CheckOutstanding, WaitForConsumer, SpuriousWakeup,
                FinishTask
  <2>3. p \in DrainPCs
    BY DEF DrainPCs
  <2>4. /\ stack'[depth].pc = p
        /\ \A d \in 1..MaxDepth : d # depth => stack'[d] = stack[d]
    BY <2>1, <2>2, <2>3, GotoTop DEF StackType
  <2>5. ~Looping(depth)'
    BY <2>1, <2>4 DEF Looping
  <2>6. QED
    BY <2>1, <2>4, <2>5, QueueKept DEF StackType
<1>8. CASE TakeFinished \/ FinishReturns
  <2>1. /\ UNCHANGED <<jobQueue, enqueued, ran, drainingJobQueue, depth>>
        /\ depth \in 1..MaxDepth
    BY <1>8 DEF TakeFinished, FinishReturns, At, shellVars, StackType
  <2>2. PICK s : stack' = [stack EXCEPT ![depth].pc = "finish", ![depth].fin = s]
    BY <1>8 DEF TakeFinished, FinishReturns
  <2>3. /\ stack'[depth].pc = "finish"
        /\ \A d \in 1..MaxDepth : d # depth => stack'[d] = stack[d]
    BY <2>1, <2>2 DEF StackType, Frame
  <2>4. ~Looping(depth)'
    BY <2>1, <2>3 DEF Looping
  <2>5. QED
    BY <2>1, <2>3, <2>4, QueueKept DEF StackType
<1>9. CASE BeginJobs
  <2>1. /\ UNCHANGED <<jobQueue, enqueued, ran, depth>>
        /\ depth \in 1..MaxDepth
        /\ Top.pc = "finish"
        /\ drainingJobQueue' = TRUE
        /\ stack' = [stack EXCEPT ![depth].pc = "jobs", ![depth].i = 1]
    BY <1>9 DEF BeginJobs, At, StackType
  <2>2. /\ stack'[depth].pc = "jobs"
        /\ stack'[depth].i = 1
        /\ \A d \in 1..MaxDepth : d # depth => stack'[d] = stack[d]
    BY <2>1, SetIndex DEF StackType, DrainPCs
  <2>3. \A d \in 1..depth : ~Looping(d)
    BY <2>1, OnlyTopLoops DEF Looping, Top
  <2>4. ~drainingJobQueue
    BY <2>3, Zenon DEF DrainFlag, SomeoneLoops
  <2>5. PendingFrom(1)
    BY <2>4 DEF QueueInv
  <2>6. QueueInv'
    BY <2>1, <2>2, <2>3, <2>5 DEF QueueInv, PendingFrom, Looping, StackType
  <2>7. QED
    BY <2>1, <2>6 DEF QueueType
<1>10. CASE CallJob
  <2>1. PICK n \in Nat : n = stack[depth].i
    BY <1>10 DEF CallJob, At, StackType, Frame
  <2>2. /\ UNCHANGED <<jobQueue, enqueued, depth, drainingJobQueue>>
        /\ depth \in 1..MaxDepth
        /\ stack[depth].pc = "jobs"
        /\ n <= Len(jobQueue)
        /\ ran' = jobQueue[n]
        /\ Goto("job")
    BY <1>10, <2>1 DEF CallJob, At, StackType, shellVars, Top
  <2>3. /\ stack'[depth].pc = "job"
        /\ stack'[depth].i = n
        /\ \A d \in 1..MaxDepth : d # depth => stack'[d] = stack[d]
    BY <2>1, <2>2, GotoTop DEF StackType, DrainPCs
  <2>4. \A d \in 1..depth : d # depth => ~Looping(d)
    BY <2>2, OnlyTopLoops DEF Top
  <2>5. PendingFrom(n)
    BY <2>1, <2>2 DEF QueueInv, StackType
  <2>6. ran' = ran + 1 /\ n >= 1
    BY <2>2, <2>5 DEF PendingFrom, QueueType
  <2>7. QueueType'
    BY <2>2, <2>5, <2>6 DEF PendingFrom, QueueType, NoJob
  <2>8. PendingFrom(n + 1)'
    BY <2>2, <2>5, <2>6 DEF PendingFrom, QueueType
  <2>9. drainingJobQueue'
    <3>1. SomeoneLoops'
      BY <2>2, <2>3 DEF SomeoneLoops, Looping
    <3>2. QED
      BY <3>1, Zenon DEF DrainFlag
  <2>10. QueueInv'
    BY <2>2, <2>3, <2>4, <2>6, <2>8, <2>9 DEF QueueInv, Looping, StackType
  <2>11. QED
    BY <2>7, <2>10
<1>11. CASE JobReturns
  <2>1. PICK n \in Nat : n = stack[depth].i
    BY <1>11 DEF JobReturns, At, StackType, Frame
  <2>2. /\ UNCHANGED <<enqueued, ran, depth, drainingJobQueue>>
        /\ depth \in 1..MaxDepth
        /\ stack[depth].pc = "job"
        /\ jobQueue' = [jobQueue EXCEPT ![n] = NoJob]
        /\ stack' = [stack EXCEPT ![depth].pc = "jobs", ![depth].i = n + 1]
    BY <1>11, <2>1 DEF JobReturns, At, StackType, Top
  <2>3. /\ stack'[depth].pc = "jobs"
        /\ stack'[depth].i = n + 1
        /\ \A d \in 1..MaxDepth : d # depth => stack'[d] = stack[d]
    <3>1. n + 1 \in Nat
      OBVIOUS
    <3>2. QED
      BY <2>2, <3>1, SetIndex DEF StackType, DrainPCs
  <2>4. \A d \in 1..depth : d # depth => ~Looping(d)
    BY <2>2, OnlyTopLoops DEF Top
  <2>5. n >= 1 /\ PendingFrom(n + 1)
    BY <2>1, <2>2 DEF QueueInv, StackType
  <2>6. n \in 1..Len(jobQueue)
    BY <2>5 DEF PendingFrom, QueueType
  <2>7. /\ jobQueue' \in Seq(NoJob..MaxJobs)
        /\ Len(jobQueue') = Len(jobQueue)
        /\ \A k \in 1..Len(jobQueue) : k # n => jobQueue'[k] = jobQueue[k]
    BY <2>2, <2>6 DEF QueueType, NoJob
  <2>8. PendingFrom(n + 1)'
    <3>1. \A k \in (n + 1)..Len(jobQueue) : jobQueue'[k] = jobQueue[k]
      BY <2>6, <2>7
    <3>2. QED
      BY <2>2, <2>5, <2>7, <3>1 DEF PendingFrom
  <2>9. drainingJobQueue'
    <3>1. SomeoneLoops'
      BY <2>2, <2>3 DEF SomeoneLoops, Looping, StackType
    <3>2. QED
      BY <3>1, Zenon DEF DrainFlag
  <2>10. QueueInv'
    BY <2>2, <2>3, <2>4, <2>8, <2>9 DEF QueueInv, Looping, StackType
  <2>11. QED
    BY <2>2, <2>7, <2>10 DEF QueueType
<1>12. CASE DrainDone
  <2>1. /\ UNCHANGED <<enqueued, ran>>
        /\ depth \in 1..MaxDepth
        /\ stack[depth].pc = "jobs"
        /\ stack[depth].i > Len(jobQueue)
        /\ jobQueue' = <<>>
        /\ drainingJobQueue' = FALSE
    BY <1>12 DEF DrainDone, At, StackType, Top
  <2>2. PendingFrom(stack[depth].i)
    BY <2>1 DEF QueueInv, StackType
  <2>3. PendingFrom(1)'
    BY <2>1, <2>2 DEF PendingFrom, QueueType
  <2>4. \A d \in 1..depth' : ~Looping(d)'
    <3>1. ~SomeoneLoops'
      BY <2>1, Zenon DEF DrainFlag
    <3>2. QED
      BY <3>1 DEF SomeoneLoops
  <2>5. QueueInv'
    BY <2>3, <2>4 DEF QueueInv, Looping
  <2>6. QED
    BY <2>1, <2>5 DEF QueueType
<1>13. ASSUME NEW h \in HelperThreads, Helper(h) PROVE QueueInv' /\ QueueType'
  <2>1. UNCHANGED <<jobQueue, enqueued, ran, drainingJobQueue, depth>>
    BY <1>13 DEF Helper, HelperLoop, HelperWork, HelperTake, HelperSleep, HelperExit,
                 HelperSpuriousWakeup, HelperExecute, HelperFinish,
                 HelperFinishDeleted, ShellFinishAsyncTaskCallback, shellVars
  <2>2. UNCHANGED stack \/ (At("sleep") /\ Goto("check"))
    BY <1>13 DEF Helper, HelperLoop, HelperWork, HelperTake, HelperSleep, HelperExit,
                 HelperSpuriousWakeup, HelperExecute, HelperFinish,
                 HelperFinishDeleted, NotifyConsumer
  <2>3. CASE At("sleep") /\ Goto("check")
    <3>1. /\ depth \in 1..MaxDepth
          /\ stack'[depth].pc = "check"
          /\ \A d \in 1..MaxDepth : d # depth => stack'[d] = stack[d]
      BY <2>3, GotoTop DEF StackType, At, DrainPCs
    <3>2. ~Looping(depth)'
      BY <2>1, <3>1 DEF Looping
    <3>3. QED
      BY <2>1, <3>1, <3>2, QueueKept DEF StackType
  <2>4. QED
    BY <1>3, <2>1, <2>2, <2>3
<1>14. QED
  <2>1. CASE GC \/ StartPromiseTaskEnds \/ Unload \/ ShutDown
             \/ \E t \in Tasks : ShellStartAsyncTaskCallback(t)
    BY <2>1, <1>3 DEF GC, StartPromiseTaskEnds, DispatchTask, DispatchFails, Unload,
       ShutDown, JS_ShutDownReturns, DestroyHelper, ShellStartAsyncTaskCallback,
       ShellFinishAsyncTaskCallback, shellVars
  <2>2. CASE UNCHANGED vars
    BY <2>2, <1>3 DEF vars, shellVars
  <2>3. QED
    BY <1>4, <1>5, <1>6, <1>7, <1>8, <1>9, <1>10, <1>11, <1>12, <1>13, <2>1, <2>2
       DEF Next, JavaScript, JavaScriptEnds, DrainStep

-----------------------------------------------------------------------------
(***************************************************************************)
(* The tasks.                                                              *)
(***************************************************************************)
TaskType ==
  /\ outstanding \in Nat
  /\ finished \in Seq(Tasks)
  /\ starting \in Tasks \union {NoTask}
  /\ promiseTasks \in Seq(Tasks)
  /\ toDestroy \in SUBSET Tasks
  /\ helper \in [HelperThreads ->
                   {"loop", "wait", "execute", "callback", "relock", "exited"}]
  /\ currentTask \in [HelperThreads -> Tasks \union {NoTask}]
  /\ terminate \in SUBSET HelperThreads
  /\ process \in {"up", "unloading", "down", "crashed"}
  /\ task \in [Tasks -> {"unborn", "live", "freed"}]

LEMMA BusyFinite == IsFiniteSet(Busy) /\ Cardinality(Busy) \in Nat
<1>1. Busy \subseteq Tasks
  BY DEF Busy
<1>2. QED
  BY <1>1, FS_Subset, FS_CardinalityType

\* What is left of TaskInv when tasks do not move.
LEMMA TaskKept ==
  ASSUME TaskType, TaskInv, OutstandingCounts,
         UNCHANGED <<starting, promiseTasks, outstanding>>,
         starting # NoTask => process' = "up" /\ depth' > 0,
         process' = "up" => process = "up",
         \A h \in HelperThreads : Working(h)' <=> Working(h),
         \A h \in HelperThreads : Working(h) => currentTask'[h] = currentTask[h],
         \A t \in Tasks : task'[t] = "unborn" => task[t] = "unborn"
  PROVE  TaskInv' /\ OutstandingCounts'
<1>1. Busy' = Busy
  BY DEF Busy, Working, Elements
<1>2. OutstandingCounts'
  BY <1>1 DEF OutstandingCounts
<1>3. TaskInv'
  BY <1>1 DEF TaskInv, Busy
<1>4. QED
  BY <1>2, <1>3

\* Steps of the JavaScript thread and of the shutdown that move no task.
LEMMA TaskStill ==
  ASSUME TaskType, TaskInv, OutstandingCounts,
         UNCHANGED <<starting, promiseTasks, outstanding, helper, currentTask>>,
         starting # NoTask => process' = "up" /\ depth' > 0,
         process' = "up" => process = "up",
         \A t \in Tasks : task'[t] = "unborn" => task[t] = "unborn"
  PROVE  TaskInv' /\ OutstandingCounts'
BY TaskKept DEF Working

LEMMA CollectionType ==
  ASSUME TaskType, DestroyTasks
  PROVE  /\ toDestroy' \in SUBSET Tasks
         /\ task' \in [Tasks -> {"unborn", "live", "freed"}]
         /\ \A t \in Tasks : task'[t] = "unborn" => task[t] = "unborn"
BY DEF TaskType, DestroyTasks

LEMMA TaskNext ==
  ASSUME IInv, [Next]_vars
  PROVE  TaskInv' /\ TaskType' /\ OutstandingCounts'
<1>1. TaskType /\ TaskInv /\ OutstandingCounts /\ StackType /\ StackInv
  BY DEF IInv, TypeOK, TaskType, StackType
<1> USE <1>1
<1> DEFINE Goal == TaskInv' /\ TaskType' /\ OutstandingCounts'
<1>2. CASE UNCHANGED vars
  BY <1>2, TaskStill DEF vars, shellVars, helperVars, TaskType, TaskInv
<1>3. CASE NativeCall \/ ShellEnqueuePromiseJobCallback \/ ScriptFails \/ EnterDrain
           \/ CheckOutstanding \/ WaitForConsumer \/ SpuriousWakeup \/ BeginJobs
           \/ CallJob \/ JobReturns \/ Unload \/ JS_ShutDownReturns
  <2>1. UNCHANGED <<starting, promiseTasks, outstanding, helper, currentTask, finished,
                    toDestroy, terminate, task>>
    BY <1>3 DEF NativeCall, ShellEnqueuePromiseJobCallback, ScriptFails, EnterDrain,
                CheckOutstanding, WaitForConsumer, SpuriousWakeup, BeginJobs, CallJob,
                JobReturns, Unload, JS_ShutDownReturns, shellVars, helperVars
  <2>2. /\ process' \in {"up", "unloading", "down", "crashed"}
        /\ process' = "up" => process = "up"
        /\ starting # NoTask => process' = "up" /\ depth' > 0
    BY <1>3 DEF NativeCall, ShellEnqueuePromiseJobCallback, ScriptFails, EnterDrain,
                CheckOutstanding, WaitForConsumer, SpuriousWakeup, BeginJobs, CallJob,
                JobReturns, Unload, JS_ShutDownReturns, At, JSRunning, TaskType,
                TaskInv, StackType
  <2>3. QED
    BY <2>1, <2>2, TaskStill DEF TaskType
<1>4. CASE GC \/ NestedDrain \/ DrainDone
  <2>1. /\ UNCHANGED <<starting, promiseTasks, outstanding, helper, currentTask,
                       finished, terminate, process>>
        /\ starting = NoTask
        /\ DestroyTasks \/ UNCHANGED <<toDestroy, task>>
    BY <1>4 DEF GC, NestedDrain, DrainDone, Return, At, JSRunning, shellVars, helperVars
  <2>2. /\ toDestroy' \in SUBSET Tasks
        /\ task' \in [Tasks -> {"unborn", "live", "freed"}]
        /\ \A t \in Tasks : task'[t] = "unborn" => task[t] = "unborn"
    BY <2>1, CollectionType DEF TaskType
  <2>3. QED
    BY <2>1, <2>2, TaskStill DEF TaskType
<1>5. CASE TakeFinished \/ FinishTask
  <2>1. /\ UNCHANGED <<starting, promiseTasks, outstanding, helper, currentTask,
                       toDestroy, terminate, task>>
        /\ starting = NoTask
        /\ process = "up"
        /\ process' \in {"up", "crashed"}
    BY <1>5 DEF TakeFinished, FinishTask, At, shellVars, helperVars
  <2>2. finished' \in Seq(Tasks)
    <3>1. finished' = <<>> \/ finished' = finished
      BY <1>5 DEF TakeFinished, FinishTask, shellVars
    <3>2. <<>> \in Seq(Tasks)
      OBVIOUS
    <3>3. QED
      BY <3>1, <3>2 DEF TaskType
  <2>3. TaskType'
    BY <2>1, <2>2 DEF TaskType
  <2>4. QED
    BY <2>1, <2>3, TaskStill
<1>6. CASE FinishReturns
  <2>1. /\ UNCHANGED <<starting, promiseTasks, outstanding, helper, currentTask,
                       toDestroy, terminate, process, finished>>
        /\ starting = NoTask
        /\ task' = [task EXCEPT ![Head(Top.fin)] = "freed"]
    BY <1>6 DEF FinishReturns, At, shellVars, helperVars
  <2>2. /\ task' \in [Tasks -> {"unborn", "live", "freed"}]
        /\ \A t \in Tasks : task'[t] = "unborn" => task[t] = "unborn"
    BY <2>1 DEF TaskType
  <2>3. QED
    BY <2>1, <2>2, TaskStill DEF TaskType
<1>7. ASSUME NEW t \in Tasks, ShellStartAsyncTaskCallback(t) PROVE Goal
  <2>1. /\ UNCHANGED <<promiseTasks, helper, currentTask, toDestroy, terminate, process,
                       finished, depth>>
        /\ starting = NoTask
        /\ process = "up"
        /\ depth > 0
        /\ task[t] = "unborn"
        /\ task' = [task EXCEPT ![t] = "live"]
        /\ starting' = t
        /\ outstanding' = outstanding + 1
    BY <1>7 DEF ShellStartAsyncTaskCallback, JSRunning, At, helperVars
  <2>2. t \notin Busy
    BY <2>1 DEF TaskInv
  <2>3. Busy' = Busy \union {t}
    BY <2>1 DEF Busy, Elements
  <2>4. OutstandingCounts'
    BY <2>1, <2>2, <2>3, BusyFinite, FS_AddElement DEF OutstandingCounts
  <2>5. TaskType'
    BY <2>1 DEF TaskType
  <2>6. TaskInv'
    <3>1. /\ \A k \in 1..Len(promiseTasks) : promiseTasks[k] # t
          /\ \A h \in HelperThreads : Working(h) => currentTask[h] # t
      BY <2>2 DEF Busy, Elements, Working
    <3>2. \A u \in Busy' : task'[u] # "unborn"
      BY <2>1, <2>3 DEF TaskInv, TaskType, Busy
    <3>3. QED
      BY <2>1, <3>1, <3>2 DEF TaskInv, Working
  <2>7. QED
    BY <2>4, <2>5, <2>6
<1>8. CASE DispatchTask
  <2>1. /\ UNCHANGED <<outstanding, currentTask, toDestroy, terminate, process, finished,
                       depth, task>>
        /\ starting # NoTask
        /\ promiseTasks' = Append(promiseTasks, starting)
        /\ starting' = NoTask
    BY <1>8 DEF DispatchTask, shellVars
  <2>2. /\ helper' \in [HelperThreads ->
                 {"loop", "wait", "execute", "callback", "relock", "exited"}]
        /\ \A h \in HelperThreads : Working(h)' <=> Working(h)
    BY <1>8 DEF DispatchTask, Sleepers, Working, TaskType
  <2>3. /\ Len(promiseTasks') = Len(promiseTasks) + 1
        /\ promiseTasks' \in Seq(Tasks)
        /\ promiseTasks'[Len(promiseTasks) + 1] = starting
        /\ \A k \in 1..Len(promiseTasks) : promiseTasks'[k] = promiseTasks[k]
    BY <2>1 DEF TaskType
  <2>4. Elements(promiseTasks)' = Elements(promiseTasks) \union {starting}
    <3>1. 1..Len(promiseTasks') = 1..Len(promiseTasks) \union {Len(promiseTasks) + 1}
      BY <2>3 DEF TaskType
    <3>2. QED
      BY <2>3, <3>1, Zenon DEF Elements
  <2>5. Busy' = Busy
    BY <2>1, <2>2, <2>4 DEF Busy, Working, TaskType
  <2>6. TaskType' /\ OutstandingCounts'
    BY <2>1, <2>2, <2>3, <2>5 DEF TaskType, OutstandingCounts
  <2>7. TaskInv'
    BY <2>1, <2>2, <2>3, <2>5 DEF TaskInv, TaskType
  <2>8. QED
    BY <2>6, <2>7
<1>9. CASE DispatchFails
  <2>1. /\ UNCHANGED <<promiseTasks, helper, currentTask, toDestroy, terminate, process,
                       depth>>
        /\ starting \in Tasks
        /\ starting' = NoTask
        /\ task' = [task EXCEPT ![starting] = "freed"]
        /\ outstanding' = outstanding - 1
        /\ finished' \in {finished, Append(finished, starting)}
    BY <1>9 DEF DispatchFails, ShellFinishAsyncTaskCallback, helperVars, TaskType
  <2>2. starting \in Busy /\ process = "up"
    BY <2>1 DEF Busy, TaskInv
  <2>3. Busy' = Busy \ {starting}
    BY <2>1 DEF Busy, TaskInv, Elements, Working
  <2>4. outstanding' = Cardinality(Busy') /\ outstanding' \in Nat
    BY <2>1, <2>2, <2>3, BusyFinite, FS_RemoveElement, FS_EmptySet DEF OutstandingCounts
  <2>5. TaskType' /\ OutstandingCounts'
    <3>1. finished' \in Seq(Tasks)
      BY <2>1 DEF TaskType
    <3>2. QED
      BY <2>1, <2>4, <3>1 DEF TaskType, OutstandingCounts
  <2>6. TaskInv'
    <3>1. \A u \in Busy' : task'[u] # "unborn"
      BY <2>1, <2>3 DEF TaskInv, TaskType, Busy
    <3>2. QED
      BY <2>1, <3>1 DEF TaskInv, Working, TaskType
  <2>7. QED
    BY <2>5, <2>6
<1>10. ASSUME NEW h \in HelperThreads, HelperTake(h) PROVE Goal
  <2>1. /\ UNCHANGED <<outstanding, toDestroy, terminate, process, finished, depth, task,
                       starting>>
        /\ promiseTasks # <<>>
        /\ currentTask' = [currentTask EXCEPT ![h] = promiseTasks[Len(promiseTasks)]]
        /\ promiseTasks' = SubSeq(promiseTasks, 1, Len(promiseTasks) - 1)
        /\ helper' = [helper EXCEPT ![h] = "execute"]
        /\ ~Working(h)
    BY <1>10 DEF HelperTake, AtLoop, Working, shellVars
  <2>2. PICK n \in Nat : Len(promiseTasks) = n + 1
    <3>1. Len(promiseTasks) \in Nat /\ Len(promiseTasks) # 0
      BY <2>1 DEF TaskType
    <3>2. Len(promiseTasks) - 1 \in Nat
      BY <3>1
    <3>3. QED
      BY <3>1, <3>2
  <2>3. PICK t \in Tasks : t = promiseTasks[n + 1]
    BY <2>2 DEF TaskType
  <2>4. /\ promiseTasks' \in Seq(Tasks)
        /\ Len(promiseTasks') = n
        /\ \A k \in 1..n : promiseTasks'[k] = promiseTasks[k]
    BY <2>1, <2>2 DEF TaskType
  <2>5. Elements(promiseTasks) = Elements(promiseTasks)' \union {t}
    BY <2>2, <2>3, <2>4 DEF Elements
  <2>6. /\ Working(h)'
        /\ currentTask'[h] = t
        /\ \A g \in HelperThreads : g # h =>
             (Working(g)' <=> Working(g)) /\ currentTask'[g] = currentTask[g]
    BY <2>1, <2>2, <2>3 DEF Working, TaskType
  <2>7. Busy' = Busy
    BY <2>1, <2>5, <2>6 DEF Busy, Working
  <2>8. TaskType' /\ OutstandingCounts'
    BY <2>1, <2>2, <2>3, <2>4, <2>7 DEF TaskType, OutstandingCounts
  <2>9. TaskInv'
    <3>1. \A k \in 1..n : promiseTasks[k] # t
      BY <2>2, <2>3 DEF TaskInv
    <3>2. \A g \in HelperThreads : Working(g) => currentTask[g] # t
      BY <2>2, <2>3 DEF TaskInv
    <3>3. t # starting
      BY <2>2, <2>3 DEF TaskInv
    <3>4. \A j, k \in 1..Len(promiseTasks') : promiseTasks'[j] = promiseTasks'[k] => j = k
      BY <2>2, <2>4 DEF TaskInv
    <3>5. \A k \in 1..Len(promiseTasks') : promiseTasks'[k] # starting'
      BY <2>1, <2>2, <2>4 DEF TaskInv
    <3>6. \A g \in HelperThreads : Working(g)' =>
             /\ currentTask'[g] \in Tasks
             /\ currentTask'[g] # starting'
             /\ \A k \in 1..Len(promiseTasks') : promiseTasks'[k] # currentTask'[g]
      BY <2>1, <2>2, <2>4, <2>6, <3>1, <3>3 DEF TaskInv
    <3>7. \A f, g \in HelperThreads :
             Working(f)' /\ Working(g)' /\ currentTask'[f] = currentTask'[g] => f = g
      BY <2>6, <3>2 DEF TaskInv
    <3>8. QED
      BY <2>1, <2>7, <3>4, <3>5, <3>6, <3>7 DEF TaskInv
  <2>10. QED
    BY <2>8, <2>9
<1>11. ASSUME NEW h \in HelperThreads, HelperSleep(h) \/ HelperExit(h) PROVE Goal
  <2>1. PICK s \in {"wait", "exited"} : helper' = [helper EXCEPT ![h] = s]
    BY <1>11 DEF HelperSleep, HelperExit
  <2>2. /\ UNCHANGED <<outstanding, toDestroy, terminate, process, finished, depth, task,
                       starting, promiseTasks>>
        /\ currentTask' = [currentTask EXCEPT ![h] = NoTask]
        /\ ~Working(h)
    BY <1>11 DEF HelperSleep, HelperExit, AtLoop, Working, shellVars
  <2>3. \A g \in HelperThreads :
          /\ Working(g)' <=> Working(g)
          /\ Working(g) => currentTask'[g] = currentTask[g]
    BY <2>1, <2>2 DEF Working, TaskType
  <2>4. TaskType'
    BY <2>1, <2>2 DEF TaskType
  <2>5. starting # NoTask => process' = "up" /\ depth' > 0
    BY <2>2 DEF TaskInv
  <2>6. TaskInv' /\ OutstandingCounts'
    BY <2>2, <2>3, <2>5, TaskKept
  <2>7. QED
    BY <2>4, <2>6
<1>12. ASSUME NEW h \in HelperThreads, HelperSpuriousWakeup(h) \/ HelperExecute(h)
       PROVE Goal
  <2>1. /\ UNCHANGED <<outstanding, toDestroy, terminate, process, finished, depth, task,
                       starting, promiseTasks, currentTask>>
        /\ \/ helper[h] = "wait" /\ helper' = [helper EXCEPT ![h] = "loop"]
           \/ helper[h] = "execute" /\ helper' = [helper EXCEPT ![h] = "callback"]
    BY <1>12 DEF HelperSpuriousWakeup, HelperExecute, shellVars
  <2>2. \A g \in HelperThreads : Working(g)' <=> Working(g)
    BY <2>1 DEF Working, TaskType
  <2>3. TaskType'
    BY <2>1 DEF TaskType
  <2>4. starting # NoTask => process' = "up" /\ depth' > 0
    BY <2>1 DEF TaskInv
  <2>5. TaskInv' /\ OutstandingCounts'
    BY <2>1, <2>2, <2>4, TaskKept
  <2>6. QED
    BY <2>3, <2>5
<1>13. ASSUME NEW h \in HelperThreads, HelperFinish(h) \/ HelperFinishDeleted(h)
       PROVE Goal
  <2>1. PICK t \in Tasks : t = currentTask[h]
    BY <1>13 DEF HelperFinish, HelperFinishDeleted, TaskInv, Working
  <2>2. /\ UNCHANGED <<terminate, depth, task, starting, promiseTasks, currentTask>>
        /\ helper[h] = "callback"
        /\ helper' = [helper EXCEPT ![h] = "relock"]
        /\ process' \in {process, "unloading", "crashed"}
        /\ finished' \in {finished, Append(finished, t)}
        /\ toDestroy' \in {toDestroy, toDestroy \union {t}}
    BY <1>13, <2>1 DEF HelperFinish, HelperFinishDeleted, ShellFinishAsyncTaskCallback,
                       shellVars
  <2>3. /\ Working(h) /\ ~Working(h)'
        /\ \A g \in HelperThreads : g # h => (Working(g)' <=> Working(g))
    BY <2>2 DEF Working, TaskType
  <2>4. t \in Busy
    BY <2>1, <2>2 DEF Busy
  <2>5. Busy' = Busy \ {t}
    <3>1. \A g \in HelperThreads : Working(g) /\ currentTask[g] = t => g = h
      BY <2>1, <2>3 DEF TaskInv
    <3>2. t # starting /\ t \notin Elements(promiseTasks)
      BY <2>1, <2>3 DEF TaskInv, Elements
    <3>3. QED
      BY <2>1, <2>2, <2>3, <3>1, <3>2 DEF Busy, Elements, Working
  <2>6. /\ process = "up" => outstanding' = outstanding - 1 /\ process' = "up"
        /\ process # "up" => outstanding' = outstanding /\ process' # "up"
        /\ starting # NoTask => process' = "up"
    BY <1>13 DEF HelperFinish, HelperFinishDeleted, ShellFinishAsyncTaskCallback,
                 shellVars, TaskInv
  <2>7. /\ process = "up" => outstanding' = Cardinality(Busy')
        /\ outstanding' \in Nat
    <3>1. /\ Cardinality(Busy') = Cardinality(Busy) - 1
          /\ Cardinality(Busy') \in Nat
      BY <2>4, <2>5, BusyFinite, FS_RemoveElement, FS_CardinalityType
    <3>2. QED
      BY <2>6, <3>1 DEF OutstandingCounts, TaskType
  <2>8. TaskType' /\ OutstandingCounts'
    <3>1. finished' \in Seq(Tasks) /\ toDestroy' \in SUBSET Tasks
      <4>1. Append(finished, t) \in Seq(Tasks)
        BY DEF TaskType
      <4>2. QED
        BY <2>2, <4>1 DEF TaskType
    <3>2. helper' \in [HelperThreads ->
                 {"loop", "wait", "execute", "callback", "relock", "exited"}]
      BY <2>2 DEF TaskType
    <3>3. QED
      BY <2>2, <2>6, <2>7, <3>1, <3>2 DEF TaskType, OutstandingCounts
  <2>9. TaskInv'
    <3>1. \A u \in Busy' : task'[u] # "unborn"
      BY <2>2, <2>5 DEF TaskInv
    <3>2. QED
      BY <2>2, <2>3, <2>6, <3>1 DEF TaskInv
  <2>10. QED
    BY <2>8, <2>9
<1>14. ASSUME NEW h \in HelperThreads, DestroyHelper(h) PROVE Goal
  <2>1. /\ UNCHANGED <<outstanding, toDestroy, process, finished, depth, task, starting,
                       promiseTasks, currentTask>>
        /\ terminate' = terminate \union {h}
        /\ helper' = [g \in HelperThreads |->
                        IF helper[g] = "wait" THEN "loop" ELSE helper[g]]
    BY <1>14 DEF DestroyHelper, shellVars
  <2>2. \A g \in HelperThreads : Working(g)' <=> Working(g)
    BY <2>1 DEF Working, TaskType
  <2>3. TaskType'
    BY <2>1 DEF TaskType
  <2>4. starting # NoTask => process' = "up" /\ depth' > 0
    BY <2>1 DEF TaskInv
  <2>5. TaskInv' /\ OutstandingCounts'
    BY <2>1, <2>2, <2>4, TaskKept
  <2>6. QED
    BY <2>3, <2>5
<1>15. QED
  BY <1>2, <1>3, <1>4, <1>5, <1>6, <1>7, <1>8, <1>9, <1>10, <1>11, <1>12, <1>13, <1>14
     DEF Next, JavaScript, JavaScriptEnds, StartPromiseTaskEnds, DrainStep, Helper,
         HelperLoop, HelperWork, ShutDown

-----------------------------------------------------------------------------
(***************************************************************************)
(* Sleeping and waking.                                                    *)
(***************************************************************************)
WaitInv == DispatchInScript /\ TakeInv /\ NoLostWakeup

\* Where the JavaScript thread is after a step that leads it away from the
\* test of outstanding.
LEMMA Elsewhere ==
  ASSUME depth' > 0 => stack'[depth'].pc \notin {"take", "wait", "sleep"},
         starting' = NoTask \/ stack'[depth'].pc \in ScriptPCs
  PROVE  WaitInv'
BY DEF WaitInv, DispatchInScript, TakeInv, NoLostWakeup, At, Top

\* Returning from a call leads back into the JavaScript that made it.
LEMMA PopElsewhere ==
  ASSUME StackType, StackInv, depth \in 1..MaxDepth, Pop, starting' = NoTask
  PROVE  WaitInv'
<1>1. /\ depth' = depth - 1
      /\ \A d \in 1..depth' : stack'[d] = stack[d]
  BY NewFrameType, ReplaceTop DEF StackType, Pop
<1>2. depth' > 0 => stack'[depth'].pc \in ScriptPCs
  BY <1>1 DEF StackInv, LowerFramesRunJS, StackType
<1>3. QED
  BY <1>2, Elsewhere DEF ScriptPCs

LEMMA WaitNext ==
  ASSUME IInv, [Next]_vars
  PROVE  WaitInv'
<1>1. /\ StackType /\ StackInv /\ TaskType /\ TaskInv /\ OutstandingCounts
      /\ DispatchInScript /\ TakeInv /\ NoLostWakeup
  BY DEF IInv, TypeOK, TaskType, StackType
<1>2. TaskType'
  BY TaskNext
<1> USE <1>1, <1>2
<1>3. CASE NativeCall
  <2>1. /\ depth' = depth + 1
        /\ depth + 1 \in 1..MaxDepth
        /\ stack' = [stack EXCEPT ![depth + 1] = NewFrame]
        /\ UNCHANGED starting
    BY <1>3 DEF NativeCall, StackType
  <2>2. stack'[depth'].pc = "script"
    BY <2>1 DEF StackType, NewFrame
  <2>3. QED
    BY <2>1, <2>2, Elsewhere DEF ScriptPCs
<1>4. CASE ShellEnqueuePromiseJobCallback \/ GC
           \/ \E t \in Tasks : ShellStartAsyncTaskCallback(t)
  <2>1. UNCHANGED <<depth, stack>> /\ stack[depth].pc \in ScriptPCs
    BY <1>4 DEF ShellEnqueuePromiseJobCallback, GC, ShellStartAsyncTaskCallback,
                JSRunning, At, Top
  <2>2. QED
    BY <2>1, Elsewhere DEF ScriptPCs
<1>5. CASE DispatchTask \/ DispatchFails
  <2>1. UNCHANGED <<depth, stack>> /\ stack[depth].pc \in ScriptPCs
    BY <1>5 DEF DispatchTask, DispatchFails, DispatchInScript, Top
  <2>2. QED
    BY <2>1, Elsewhere DEF ScriptPCs
<1>6. CASE ScriptFails \/ NestedDrain \/ DrainDone
  <2>1. depth \in 1..MaxDepth /\ Pop /\ starting' = NoTask
    BY <1>6 DEF ScriptFails, NestedDrain, DrainDone, Return, At, StackType
  <2>2. QED
    BY <2>1, PopElsewhere
<1>7. CASE EnterDrain \/ SpuriousWakeup \/ FinishTask \/ CallJob
  <2>1. /\ depth \in 1..MaxDepth
        /\ depth' = depth
        /\ starting' = NoTask
    BY <1>7 DEF EnterDrain, SpuriousWakeup, FinishTask, CallJob, At, StackType
  <2>2. PICK p \in {"check", "finishing", "job"} : Goto(p)
    BY <1>7 DEF EnterDrain, SpuriousWakeup, FinishTask, CallJob
  <2>3. stack'[depth].pc = p
    BY <2>1, <2>2, GotoTop DEF StackType, DrainPCs
  <2>4. QED
    BY <2>1, <2>3, Elsewhere
<1>8. CASE TakeFinished \/ FinishReturns \/ BeginJobs \/ JobReturns
  <2>1. /\ depth \in 1..MaxDepth
        /\ depth' = depth
        /\ starting' = NoTask
    BY <1>8 DEF TakeFinished, FinishReturns, BeginJobs, JobReturns, At, StackType
  <2>2. stack'[depth].pc \in {"finish", "jobs"}
    BY <1>8, <2>1 DEF TakeFinished, FinishReturns, BeginJobs, JobReturns, StackType,
                      Frame
  <2>3. QED
    BY <2>1, <2>2, Elsewhere
<1>9. CASE CheckOutstanding
  <2>1. /\ depth \in 1..MaxDepth
        /\ UNCHANGED <<depth, starting, outstanding>>
        /\ starting = NoTask
        /\ Goto(IF outstanding = 0 THEN "take" ELSE "wait")
    BY <1>9 DEF CheckOutstanding, At, StackType, shellVars
  <2>2. /\ outstanding = 0 => stack'[depth].pc = "take"
        /\ outstanding # 0 => stack'[depth].pc = "wait"
    BY <2>1, GotoTop DEF StackType, DrainPCs
  <2>3. QED
    BY <2>1, <2>2 DEF WaitInv, DispatchInScript, TakeInv, NoLostWakeup, At, Top, TaskType
<1>10. CASE WaitForConsumer
  <2>1. /\ depth \in 1..MaxDepth
        /\ UNCHANGED <<depth, starting, outstanding, helper>>
        /\ starting = NoTask
        /\ At("wait")
        /\ Goto("sleep")
    BY <1>10 DEF WaitForConsumer, At, StackType, shellVars, helperVars
  <2>2. stack'[depth].pc = "sleep"
    BY <2>1, GotoTop DEF StackType, DrainPCs
  <2>3. QED
    BY <2>1, <2>2 DEF WaitInv, DispatchInScript, TakeInv, NoLostWakeup, At, Top
<1>11. ASSUME NEW h \in HelperThreads, HelperLoop(h) PROVE WaitInv'
  <2>1. /\ UNCHANGED <<depth, starting, outstanding, process>>
        /\ NotifyConsumer(h)
        /\ \A g \in HelperThreads : g # h => helper'[g] = helper[g]
        /\ ~At("wait")
    BY <1>11 DEF HelperLoop, HelperTake, HelperSleep, HelperExit, shellVars, AtLoop,
                 HelperLockHeld, TaskType
  <2>2. CASE helper[h] = "relock" /\ At("sleep")
    <3>1. Goto("check") /\ depth \in 1..MaxDepth /\ starting' = NoTask
      BY <2>1, <2>2 DEF NotifyConsumer, At, StackType
    <3>2. stack'[depth].pc = "check"
      BY <3>1, GotoTop DEF StackType, DrainPCs
    <3>3. QED
      BY <2>1, <3>1, <3>2, Elsewhere
  <2>3. CASE ~(helper[h] = "relock" /\ At("sleep"))
    <3>1. UNCHANGED stack
      BY <2>1, <2>3 DEF NotifyConsumer
    <3>2. QED
      BY <2>1, <2>3, <3>1
         DEF WaitInv, DispatchInScript, TakeInv, NoLostWakeup, At, Top
  <2>4. QED
    BY <2>2, <2>3
<1>12. ASSUME NEW h \in HelperThreads, HelperFinish(h) PROVE WaitInv'
  <2>1. /\ UNCHANGED <<depth, stack, starting, process>>
        /\ helper[h] = "callback"
        /\ helper'[h] = "relock"
        /\ process = "up"
    BY <1>12 DEF HelperFinish, TaskType
  <2>2. ~At("take")
    <3>1. currentTask[h] \in Busy
      BY <2>1 DEF TaskInv, Working, Busy
    <3>2. Cardinality(Busy) # 0
      BY <3>1, BusyFinite, FS_EmptySet
    <3>3. QED
      BY <2>1, <3>2 DEF TakeInv, OutstandingCounts
  <2>3. QED
    BY <2>1, <2>2 DEF WaitInv, DispatchInScript, TakeInv, NoLostWakeup, At, Top
<1>13. ASSUME NEW h \in HelperThreads, HelperSpuriousWakeup(h) \/ HelperExecute(h)
       PROVE WaitInv'
  <2>1. /\ UNCHANGED <<depth, stack, starting, process, outstanding>>
        /\ helper[h] # "relock"
        /\ \A g \in HelperThreads : g # h => helper'[g] = helper[g]
    BY <1>13 DEF HelperSpuriousWakeup, HelperExecute, shellVars, TaskType
  <2>2. QED
    BY <2>1 DEF WaitInv, DispatchInScript, TakeInv, NoLostWakeup, At, Top
<1>14. ASSUME process' # "up", UNCHANGED <<depth, stack, starting>> PROVE WaitInv'
  BY <1>14 DEF WaitInv, DispatchInScript, TakeInv, NoLostWakeup, At, Top
<1>15. CASE Unload \/ ShutDown \/ \E h \in HelperThreads : HelperFinishDeleted(h)
  <2>1. process' # "up" /\ UNCHANGED <<depth, stack, starting>>
    BY <1>15 DEF Unload, ShutDown, DestroyHelper, JS_ShutDownReturns, HelperFinishDeleted
  <2>2. QED
    BY <2>1, <1>14
<1>16. CASE UNCHANGED vars
  BY <1>16 DEF vars, shellVars, helperVars, WaitInv, DispatchInScript, TakeInv,
               NoLostWakeup, At, Top
<1>17. QED
  BY <1>3, <1>4, <1>5, <1>6, <1>7, <1>8, <1>9, <1>10, <1>11, <1>12, <1>13, <1>15, <1>16
     DEF Next, JavaScript, JavaScriptEnds, StartPromiseTaskEnds, DrainStep, Helper,
         HelperWork

LEMMA ServedNext ==
  ASSUME IInv, [Next]_vars
  PROVE  QueuedTaskServed'
<1>1. TaskType /\ QueuedTaskServed
  BY DEF IInv, TypeOK, TaskType
<1> USE <1>1
<1>2. CASE DispatchTask
  <2>1. CASE Sleepers = {}
    BY <1>2, <2>1 DEF DispatchTask, Sleepers, QueuedTaskServed, TaskType
  <2>2. CASE Sleepers # {}
    BY <1>2, <2>2 DEF DispatchTask, Sleepers, QueuedTaskServed, TaskType
  <2>3. QED
    BY <2>1, <2>2
<1>3. ASSUME NEW h \in HelperThreads, Helper(h) PROVE QueuedTaskServed'
  <2>1. CASE HelperTake(h) \/ HelperExit(h) \/ HelperExecute(h) \/ HelperFinish(h)
             \/ HelperFinishDeleted(h) \/ HelperSpuriousWakeup(h)
    <3>1. helper'[h] # "wait"
      BY <2>1 DEF HelperTake, HelperExit, HelperExecute, HelperFinish,
                  HelperFinishDeleted, HelperSpuriousWakeup, TaskType
    <3>2. QED
      BY <3>1 DEF QueuedTaskServed
  <2>2. CASE HelperSleep(h)
    BY <2>2 DEF HelperSleep, QueuedTaskServed
  <2>3. QED
    BY <1>3, <2>1, <2>2 DEF Helper, HelperLoop, HelperWork
<1>4. ASSUME UNCHANGED <<promiseTasks, helper>>, process' = "up" => process = "up"
      PROVE  QueuedTaskServed'
  BY <1>4 DEF QueuedTaskServed
<1>5. CASE ShutDown
  BY <1>5 DEF ShutDown, DestroyHelper, JS_ShutDownReturns, QueuedTaskServed
<1>6. CASE JavaScript \/ JavaScriptEnds \/ DispatchFails \/ DrainStep \/ SpuriousWakeup
           \/ Unload
  <2>1. UNCHANGED <<promiseTasks, helper>>
    BY <1>6 DEF JavaScript, NativeCall, ShellEnqueuePromiseJobCallback,
       ShellStartAsyncTaskCallback, GC, JavaScriptEnds, ScriptFails, EnterDrain,
       NestedDrain, FinishReturns, JobReturns, DispatchFails, DrainStep,
       CheckOutstanding, WaitForConsumer, TakeFinished, FinishTask, BeginJobs, CallJob,
       DrainDone, SpuriousWakeup, Unload, helperVars
  <2>2. process' = "up" => process = "up"
    BY <1>6 DEF JavaScript, NativeCall, ShellEnqueuePromiseJobCallback,
       ShellStartAsyncTaskCallback, GC, JavaScriptEnds, ScriptFails, EnterDrain,
       NestedDrain, FinishReturns, JobReturns, DispatchFails, DrainStep,
       CheckOutstanding, WaitForConsumer, TakeFinished, FinishTask, BeginJobs, CallJob,
       DrainDone, SpuriousWakeup, Unload, At
  <2>3. QED
    BY <2>1, <2>2, <1>4
<1>7. CASE UNCHANGED vars
  BY <1>7, <1>4 DEF vars, helperVars
<1>8. QED
  BY <1>2, <1>3, <1>5, <1>6, <1>7 DEF Next, StartPromiseTaskEnds

-----------------------------------------------------------------------------
(***************************************************************************)
(* The theorems.                                                           *)
(***************************************************************************)
LEMMA InitIInv == Init => IInv
<1> SUFFICES ASSUME Init PROVE IInv
  OBVIOUS
<1>1. TypeOK
  <2>1. drainingJobQueue \in BOOLEAN
    BY Zenon DEF Init
  <2>2. stack \in [1..MaxDepth -> Frame]
    BY NewFrameType DEF Init
  <2>3. depth \in 0..MaxDepth /\ enqueued \in 0..MaxJobs /\ ran \in 0..MaxJobs
    BY DEF Init
  <2>4. jobQueue \in Seq(NoJob..MaxJobs) /\ finished \in Seq(Tasks)
        /\ promiseTasks \in Seq(Tasks)
    BY DEF Init
  <2>5. QED
    BY <2>1, <2>2, <2>3, <2>4 DEF Init, TypeOK
<1>2. StackInv /\ ~SomeoneLoops
  BY DEF Init, StackInv, LowerFramesRunJS, FinishingHasTask, ScriptsAboveLoop,
         SomeoneLoops
<1>3. DrainFlag
  BY <1>2, Zenon DEF Init, DrainFlag
<1>4. QueueInv
  BY DEF Init, QueueInv, PendingFrom
<1>5. Busy = {}
  BY DEF Init, Busy, Elements
<1>6. TaskInv /\ OutstandingCounts
  BY <1>5, FS_EmptySet DEF Init, TaskInv, OutstandingCounts, Working
<1>7. DispatchInScript /\ TakeInv /\ NoLostWakeup /\ QueuedTaskServed
  BY DEF Init, DispatchInScript, TakeInv, NoLostWakeup, QueuedTaskServed, At
<1>8. QED
  BY <1>1, <1>2, <1>3, <1>4, <1>6, <1>7 DEF IInv

LEMMA NextIInv == IInv /\ [Next]_vars => IInv'
<1> SUFFICES ASSUME IInv, [Next]_vars PROVE IInv'
  OBVIOUS
<1>1. /\ StackInv' /\ DrainFlag'
      /\ depth' \in 0..MaxDepth
      /\ stack' \in [1..MaxDepth -> Frame]
      /\ drainingJobQueue' \in BOOLEAN
  BY StackNext
<1>2. QueueInv' /\ QueueType'
  BY QueueNext
<1>3. TaskInv' /\ TaskType' /\ OutstandingCounts'
  BY TaskNext
<1>4. DispatchInScript' /\ TakeInv' /\ NoLostWakeup' /\ QueuedTaskServed'
  BY WaitNext, ServedNext DEF WaitInv
<1>5. TypeOK'
  BY <1>1, <1>2, <1>3, Zenon DEF TypeOK, QueueType, TaskType
<1>6. QED
  BY <1>1, <1>2, <1>3, <1>4, <1>5 DEF IInv

\* Every reachable state satisfies the inductive invariant.
THEOREM Invariance == Spec => []IInv
BY InitIInv, NextIInv, PTL DEF Spec

\* The state of the bridge and of the helper threads keeps its types; above all
\* ShellAsyncTasks::outstanding is never decremented below zero, the assertion
\* in ShellFinishAsyncTaskCallback.
THEOREM TypeCorrect == Spec => []TypeOK
BY Invariance, PTL DEF IInv

\* outstanding counts the tasks started and not yet handed back.
THEOREM OutstandingIsExact == Spec => []OutstandingCounts
BY Invariance, PTL DEF IInv

\* No task is on its way when DrainJobQueue takes the finished list.
THEOREM FinishedListIsFixed == Spec => []ListFixedWhenTaken
<1>1. IInv => ListFixedWhenTaken
  <2> SUFFICES ASSUME IInv, At("take") PROVE Busy = {}
    BY DEF ListFixedWhenTaken
  <2>1. Cardinality(Busy) = 0
    BY DEF IInv, TakeInv, OutstandingCounts, At
  <2>2. QED
    BY <2>1, BusyFinite, FS_EmptySet
<1>2. QED
  BY <1>1, Invariance, PTL

\* DrainJobQueue never sleeps through the last notification.
THEOREM WakeupNotLost == Spec => []NoLostWakeup
BY Invariance, PTL DEF IInv

\* A queued task finds a helper thread awake.
THEOREM QueuedTaskIsServed == Spec => []QueuedTaskServed
BY Invariance, PTL DEF IInv

LEMMA OneLoop == IInv => OneJobLoop
<1> SUFFICES ASSUME IInv PROVE OneJobLoop
  OBVIOUS
<1>1. drainingJobQueue <=> \E d \in 1..depth : Looping(d)
  BY Zenon DEF IInv, DrainFlag, SomeoneLoops
<1>2. depth \in Nat
  BY DEF IInv, TypeOK
<1>3. ASSUME NEW c \in 1..depth, NEW d \in 1..depth, Looping(c), Looping(d), c < d
      PROVE  FALSE
  BY <1>3 DEF IInv, StackInv, ScriptsAboveLoop, Looping
<1>4. \A c, d \in 1..depth : Looping(c) /\ Looping(d) => c = d
  BY <1>2, <1>3
<1>5. QED
  BY <1>1, <1>4, Zenon DEF OneJobLoop

\* One loop over the jobs at a time, and drainingJobQueue tells of it.
THEOREM LoopIsExclusive == Spec => []OneJobLoop
BY OneLoop, Invariance, PTL

\* Only CallJob changes ran, and it runs the job after the last one.
LEMMA RanStep ==
  ASSUME IInv, [Next]_vars
  PROVE  ran' = ran \/ ran' = ran + 1
<1>1. CASE CallJob
  <2>1. /\ Top.pc = "jobs"
        /\ depth \in 1..depth
        /\ Top.i <= Len(jobQueue)
        /\ ran' = jobQueue[Top.i]
    BY <1>1 DEF CallJob, At, IInv, TypeOK
  <2>2. PICK n \in Nat : n = Top.i
    BY <1>1 DEF CallJob, At, IInv, TypeOK, Top, Frame
  <2>3. PendingFrom(n)
    BY <2>1, <2>2 DEF IInv, QueueInv, Top
  <2>4. ran' = jobQueue[n] /\ n \in n..Len(jobQueue)
    BY <2>1, <2>2 DEF IInv, TypeOK
  <2>5. jobQueue[n] = ran + 1 + (n - n) /\ ran \in Nat
    BY <2>3, <2>4 DEF PendingFrom, IInv, TypeOK
  <2>6. QED
    BY <2>4, <2>5
<1>2. CASE UNCHANGED ran
  BY <1>2
<1>3. QED
  BY <1>1, <1>2 DEF Next, vars, JavaScript, NativeCall, ShellEnqueuePromiseJobCallback,
     ShellStartAsyncTaskCallback, GC, JavaScriptEnds, ScriptFails, EnterDrain,
     NestedDrain, FinishReturns, JobReturns, StartPromiseTaskEnds, DispatchTask,
     DispatchFails, DrainStep, CheckOutstanding, WaitForConsumer, TakeFinished,
     FinishTask, BeginJobs, DrainDone, SpuriousWakeup, Helper, HelperLoop, HelperWork,
     HelperTake, HelperSleep, HelperExit, HelperExecute, HelperFinish,
     HelperFinishDeleted, HelperSpuriousWakeup, Unload, ShutDown, JS_ShutDownReturns,
     DestroyHelper

\* The promise jobs run in order and each once.
THEOREM JobsRunInOrder == Spec => JobsInOrder
<1>1. IInv /\ [Next]_vars => [ran' # ran => ran' = ran + 1]_ran
  BY RanStep
<1>2. QED
  BY <1>1, Invariance, PTL DEF Spec, JobsInOrder

\* Only a return changes depth from one to zero.
LEMMA ReturnStep ==
  ASSUME IInv, Next, depth = 1, depth' = 0, ~ScriptFails
  PROVE  ran' = enqueued'
<1>1. CASE NestedDrain
  <2>1. ~SomeoneLoops
    BY <1>1 DEF NestedDrain, At, Top, SomeoneLoops, Looping
  <2>2. QED
    BY <1>1, <2>1, Zenon DEF NestedDrain, IInv, DrainFlag
<1>2. CASE DrainDone
  <2>1. /\ Top.pc = "jobs" /\ Top.i > Len(jobQueue)
        /\ UNCHANGED <<ran, enqueued>>
    BY <1>2 DEF DrainDone, At
  <2>2. PendingFrom(Top.i)
    BY <2>1 DEF IInv, QueueInv, Top
  <2>3. QED
    BY <2>1, <2>2 DEF PendingFrom, IInv, TypeOK
<1>3. CASE depth' = depth \/ depth' = depth + 1
  BY <1>3
<1>4. QED
  BY <1>1, <1>2, <1>3 DEF Next, JavaScript, NativeCall, ShellEnqueuePromiseJobCallback,
     ShellStartAsyncTaskCallback, GC, JavaScriptEnds, EnterDrain,
     FinishReturns, JobReturns, StartPromiseTaskEnds, DispatchTask,
     DispatchFails, DrainStep, CheckOutstanding, WaitForConsumer, TakeFinished,
     FinishTask, BeginJobs, CallJob, SpuriousWakeup, Helper, HelperLoop, HelperWork,
     HelperTake, HelperSleep, HelperExit, HelperExecute, HelperFinish,
     HelperFinishDeleted, HelperSpuriousWakeup, Unload, ShutDown, JS_ShutDownReturns,
     DestroyHelper

\* The outermost call that drains leaves no job behind.
THEOREM QueueIsDrained == Spec => NoJobLeftBehind
<1>1. IInv /\ [Next]_vars
        => [depth = 1 /\ depth' = 0 /\ ~ScriptFails => ran' = enqueued']_vars
  BY ReturnStep
<1>2. QED
  BY <1>1, Invariance, PTL DEF Spec, NoJobLeftBehind

-----------------------------------------------------------------------------
(***************************************************************************)
(* JobQueue implements PromiseQueue.                                       *)
(***************************************************************************)

\* Drainer names the call that loops, or is zero.
DrainerInv ==
  /\ \A d \in 1..depth : Looping(d) => Drainer = d
  /\ ~SomeoneLoops => Drainer = 0

LEMMA DrainerNamed == IInv => DrainerInv
<1> SUFFICES ASSUME IInv PROVE DrainerInv
  OBVIOUS
<1>1. /\ drainingJobQueue <=> SomeoneLoops
      /\ \A c, d \in 1..depth : Looping(c) /\ Looping(d) => c = d
  BY OneLoop, Zenon DEF IInv, DrainFlag, OneJobLoop
<1>2. ASSUME NEW d \in 1..depth, Looping(d) PROVE Drainer = d
  <2>1. Drainer = CHOOSE c \in 1..depth : Looping(c)
    BY <1>1, <1>2, Zenon DEF Drainer, SomeoneLoops
  <2>2. (CHOOSE c \in 1..depth : Looping(c)) = d
    BY <1>1, <1>2, Zenon
  <2>3. QED
    BY <2>1, <2>2
<1>3. ~SomeoneLoops => Drainer = 0
  BY <1>1, Zenon DEF Drainer
<1>4. QED
  BY <1>2, <1>3 DEF DrainerInv

\* The drainer stays as long as the same calls loop.
LEMMA DrainerKept ==
  ASSUME DrainerInv, DrainerInv',
         \A d \in 1..depth : Looping(d) => d \in 1..depth' /\ Looping(d)',
         \A d \in 1..depth' : Looping(d)' => d \in 1..depth /\ Looping(d)
  PROVE  Drainer' = Drainer
<1>1. CASE SomeoneLoops
  <2>1. PICK d \in 1..depth : Looping(d)
    BY <1>1 DEF SomeoneLoops
  <2>2. Drainer = d /\ Drainer' = d
    BY <2>1 DEF DrainerInv
  <2>3. QED
    BY <2>2
<1>2. CASE ~SomeoneLoops
  <2>1. ~SomeoneLoops'
    BY <1>2 DEF SomeoneLoops
  <2>2. QED
    BY <1>2, <2>1 DEF DrainerInv
<1>3. QED
  BY <1>1, <1>2

\* A step that runs nothing of the queue, keeps depth and moves at most the
\* top frame, within the loop or outside it.
LEMMA QueueStutters ==
  ASSUME IInv, DrainerInv, DrainerInv', UNCHANGED <<depth, enqueued, ran>>,
         \A d \in 1..depth : Looping(d)' <=> Looping(d)
  PROVE  UNCHANGED Queue!vars
<1>1. Drainer' = Drainer
  BY DrainerKept DEF IInv, TypeOK
<1>2. QED
  BY <1>1 DEF Queue!vars

LEMMA QueueStep ==
  ASSUME IInv, DrainerInv, DrainerInv', [Next]_vars
  PROVE  [Queue!Next]_Queue!vars
<1>1. StackType /\ enqueued \in Nat /\ ran \in Nat /\ depth \in Nat
  BY DEF IInv, TypeOK, StackType
<1> USE <1>1
<1>2. CASE NativeCall
  <2>1. /\ depth' = depth + 1
        /\ UNCHANGED <<enqueued, ran>>
        /\ depth + 1 \in 1..MaxDepth
        /\ stack' = [stack EXCEPT ![depth + 1] = NewFrame]
    BY <1>2 DEF NativeCall, StackType
  <2>2. /\ stack'[depth + 1].pc = "script"
        /\ \A d \in 1..depth : stack'[d] = stack[d]
    BY <2>1 DEF StackType, NewFrame
  <2>3. Drainer' = Drainer
    BY <2>1, <2>2, DrainerKept DEF Looping
  <2>4. QED
    BY <2>1, <2>3 DEF Queue!Next, Queue!Call
<1>3. CASE ShellEnqueuePromiseJobCallback
  <2>1. /\ depth > 0
        /\ enqueued' = enqueued + 1
        /\ UNCHANGED <<depth, stack, ran>>
    BY <1>3 DEF ShellEnqueuePromiseJobCallback, JSRunning, At
  <2>2. Drainer' = Drainer
    BY <2>1, DrainerKept DEF Looping
  <2>3. QED
    BY <2>1, <2>2 DEF Queue!Next, Queue!Enqueue
<1>4. CASE BeginJobs
  <2>1. /\ depth \in 1..MaxDepth
        /\ stack[depth].pc = "finish"
        /\ UNCHANGED <<depth, enqueued, ran>>
        /\ stack'[depth].pc = "jobs"
    BY <1>4 DEF BeginJobs, At, Top, StackType, Frame
  <2>2. ~SomeoneLoops
    BY <2>1 DEF SomeoneLoops, Looping, IInv, StackInv, ScriptsAboveLoop
  <2>3. Drainer = 0
    BY <2>2 DEF DrainerInv
  <2>4. Drainer' = depth
    BY <2>1 DEF DrainerInv, Looping
  <2>5. QED
    BY <2>1, <2>3, <2>4 DEF Queue!Next, Queue!BeginDrain
<1>5. CASE CallJob
  <2>1. /\ depth \in 1..MaxDepth
        /\ stack[depth].pc = "jobs"
        /\ Goto("job")
        /\ UNCHANGED <<depth, enqueued>>
        /\ Top.i <= Len(jobQueue)
        /\ ran' = jobQueue[Top.i]
    BY <1>5 DEF CallJob, At, Top, StackType
  <2>2. stack'[depth].pc = "job"
    BY <2>1, GotoTop DEF StackType, DrainPCs
  <2>3. Drainer = depth /\ Drainer' = depth
    BY <2>1, <2>2 DEF DrainerInv, Looping
  <2>4. PICK n \in Nat : n = Top.i
    BY <2>1 DEF Top, StackType, Frame
  <2>5. PendingFrom(n)
    BY <2>1, <2>4 DEF IInv, QueueInv, Top
  <2>6. Len(jobQueue) \in Nat
    BY DEF IInv, TypeOK
  <2>7. n \in n..Len(jobQueue)
    BY <2>1, <2>4, <2>6
  <2>8. jobQueue[n] = ran + 1 + (n - n) /\ enqueued = ran + 1 + (Len(jobQueue) - n)
    BY <2>5, <2>7 DEF PendingFrom
  <2>9. ran' = ran + 1 /\ ran < enqueued
    <3>1. ran' = jobQueue[n] /\ n <= Len(jobQueue)
      BY <2>1, <2>4
    <3>2. QED
      BY <3>1, <2>6, <2>8
  <2>10. QED
    BY <2>1, <2>3, <2>9 DEF Queue!Next, Queue!RunJob
<1>6. CASE DrainDone
  <2>1. /\ depth \in 1..MaxDepth
        /\ stack[depth].pc = "jobs"
        /\ Pop
        /\ UNCHANGED <<enqueued, ran>>
        /\ Top.i > Len(jobQueue)
    BY <1>6 DEF DrainDone, Return, At, Top, StackType
  <2>2. Drainer = depth
    BY <2>1 DEF DrainerInv, Looping
  <2>3. /\ depth' = depth - 1
        /\ \A d \in 1..(depth - 1) : stack'[d] = stack[d]
    BY <2>1 DEF Pop, StackType
  <2>4. ~SomeoneLoops'
    BY <2>1, <2>3 DEF SomeoneLoops, Looping, IInv, StackInv, ScriptsAboveLoop
  <2>5. Drainer' = 0
    BY <2>4 DEF DrainerInv
  <2>6. PendingFrom(Top.i)
    BY <2>1 DEF IInv, QueueInv, Top
  <2>7. ran = enqueued
    BY <2>1, <2>6 DEF PendingFrom, IInv, TypeOK
  <2>8. QED
    BY <2>1, <2>2, <2>3, <2>5, <2>7 DEF Queue!Next, Queue!EndDrain
<1>7. CASE ScriptFails \/ NestedDrain
  <2>1. /\ depth \in 1..MaxDepth
        /\ stack[depth].pc = "script"
        /\ Pop
        /\ UNCHANGED <<enqueued, ran>>
    BY <1>7 DEF ScriptFails, NestedDrain, Return, At, Top, StackType
  <2>2. /\ depth' = depth - 1
        /\ \A d \in 1..(depth - 1) : stack'[d] = stack[d]
    BY <2>1 DEF Pop, StackType
  <2>3. Drainer' = Drainer
    BY <2>1, <2>2, DrainerKept DEF Looping
  <2>4. Drainer # depth
    <3>1. CASE SomeoneLoops
      <4>1. PICK d \in 1..depth : Looping(d)
        BY <3>1 DEF SomeoneLoops
      <4>2. QED
        BY <2>1, <4>1 DEF Looping, DrainerInv
    <3>2. CASE ~SomeoneLoops
      BY <2>1, <3>2 DEF DrainerInv
    <3>3. QED
      BY <3>1, <3>2
  <2>5. QED
    BY <2>1, <2>2, <2>3, <2>4 DEF Queue!Next, Queue!Return
<1>8. CASE JobReturns
  <2>1. /\ depth \in 1..MaxDepth
        /\ stack[depth].pc = "job"
        /\ UNCHANGED <<depth, enqueued, ran>>
        /\ stack'[depth].pc = "jobs"
        /\ \A d \in 1..MaxDepth : d # depth => stack'[d] = stack[d]
    BY <1>8 DEF JobReturns, At, Top, StackType, Frame
  <2>2. QED
    BY <2>1, QueueStutters DEF Looping, StackType
<1>9. ASSUME UNCHANGED <<depth, enqueued, ran>>,
             depth \in 1..MaxDepth,
             stack[depth].pc \notin {"jobs", "job"},
             \A d \in 1..MaxDepth : d # depth => stack'[d] = stack[d],
             stack'[depth].pc \notin {"jobs", "job"}
      PROVE  UNCHANGED Queue!vars
  BY <1>9, QueueStutters DEF Looping, StackType
<1>10. CASE EnterDrain \/ CheckOutstanding \/ WaitForConsumer \/ SpuriousWakeup
            \/ FinishTask
  <2>1. /\ depth \in 1..MaxDepth
        /\ stack[depth].pc \in {"script", "check", "wait", "sleep", "finish"}
        /\ UNCHANGED <<depth, enqueued, ran>>
    BY <1>10 DEF EnterDrain, CheckOutstanding, WaitForConsumer, SpuriousWakeup,
                 FinishTask, At, Top, StackType
  <2>2. PICK p \in {"check", "take", "wait", "sleep", "finishing"} : Goto(p)
    BY <1>10 DEF EnterDrain, CheckOutstanding, WaitForConsumer, SpuriousWakeup,
                 FinishTask
  <2>3. /\ stack'[depth].pc = p
        /\ \A d \in 1..MaxDepth : d # depth => stack'[d] = stack[d]
    BY <2>1, <2>2, GotoTop DEF StackType, DrainPCs
  <2>4. QED
    BY <2>1, <2>2, <2>3, <1>9
<1>11. CASE TakeFinished \/ FinishReturns
  <2>1. /\ depth \in 1..MaxDepth
        /\ stack[depth].pc \in {"take", "finishing"}
        /\ UNCHANGED <<depth, enqueued, ran>>
    BY <1>11 DEF TakeFinished, FinishReturns, At, Top, StackType
  <2>2. /\ stack'[depth].pc = "finish"
        /\ \A d \in 1..MaxDepth : d # depth => stack'[d] = stack[d]
    BY <1>11, <2>1 DEF TakeFinished, FinishReturns, StackType, Frame
  <2>3. QED
    BY <2>1, <2>2, <1>9
<1>12. ASSUME UNCHANGED <<depth, stack, enqueued, ran>> PROVE UNCHANGED Queue!vars
  BY <1>12, QueueStutters DEF Looping
<1>13. ASSUME NEW h \in HelperThreads, HelperLoop(h) PROVE UNCHANGED Queue!vars
  <2>1. UNCHANGED <<depth, enqueued, ran>> /\ NotifyConsumer(h)
    BY <1>13 DEF HelperLoop, HelperTake, HelperSleep, HelperExit
  <2>2. CASE helper[h] = "relock" /\ At("sleep")
    <3>1. Goto("check") /\ depth \in 1..MaxDepth /\ stack[depth].pc = "sleep"
      BY <2>1, <2>2 DEF NotifyConsumer, At, Top, StackType
    <3>2. /\ stack'[depth].pc = "check"
          /\ \A d \in 1..MaxDepth : d # depth => stack'[d] = stack[d]
      BY <3>1, GotoTop DEF StackType, DrainPCs
    <3>3. QED
      BY <2>1, <3>1, <3>2, <1>9
  <2>3. CASE ~(helper[h] = "relock" /\ At("sleep"))
    BY <2>1, <2>3, <1>12 DEF NotifyConsumer
  <2>4. QED
    BY <2>2, <2>3
<1>14. CASE \/ GC \/ StartPromiseTaskEnds \/ Unload \/ ShutDown \/ UNCHANGED vars
            \/ \E t \in Tasks : ShellStartAsyncTaskCallback(t)
            \/ \E h \in HelperThreads : HelperWork(h) \/ HelperSpuriousWakeup(h)
  <2>1. UNCHANGED <<depth, stack, enqueued, ran>>
    BY <1>14 DEF GC, StartPromiseTaskEnds, DispatchTask, DispatchFails, Unload,
       ShutDown, DestroyHelper, JS_ShutDownReturns, vars, ShellStartAsyncTaskCallback,
       HelperWork, HelperExecute, HelperFinish, HelperFinishDeleted,
       HelperSpuriousWakeup
  <2>2. QED
    BY <2>1, <1>12
<1>15. QED
  BY <1>2, <1>3, <1>4, <1>5, <1>6, <1>7, <1>8, <1>10, <1>11, <1>13, <1>14
     DEF Next, JavaScript, JavaScriptEnds, DrainStep, Helper

\* DrainJobQueue implements the abstract queue: one native call drains at a
\* time, it runs the jobs in order and once each, and it returns only when
\* none is left.
THEOREM QueueImplemented == Spec => ImplementsQueue
<1>1. Init => Queue!Init
  <2> SUFFICES ASSUME Init PROVE Queue!Init
    OBVIOUS
  <2>1. Drainer = 0
    BY Zenon DEF Init, Drainer
  <2>2. QED
    BY <2>1 DEF Init, Queue!Init
<1>2. IInv /\ DrainerInv /\ DrainerInv' /\ [Next]_vars => [Queue!Next]_Queue!vars
  BY QueueStep
<1>3. QED
  BY <1>1, <1>2, Invariance, DrainerNamed, PTL DEF Spec, ImplementsQueue, Queue!Spec

-----------------------------------------------------------------------------
(***************************************************************************)
(* The finished tasks, as long as no append fails.  A started task is in   *)
(* one place until FinishReturns deletes it: on its way to the callback,   *)
(* in the shared list, or in the list of one native call, and once there.  *)
(***************************************************************************)
NoDuplicates(s) == \A j, k \in 1..Len(s) : s[j] = s[k] => j = k

\* What a native call has taken is neither on its way nor in another call's list.
OwnLists ==
  \A d \in 1..depth :
    /\ NoDuplicates(stack[d].fin)
    /\ \A t \in Elements(stack[d].fin) :
         /\ t \notin Busy
         /\ \A c \in 1..depth : c # d => t \notin Elements(stack[c].fin)

SharedList == NoDuplicates(finished) /\ \A t \in Elements(finished) : t \notin Busy

BusyLive == \A t \in Busy : task[t] = "live"

LiveInv == toDestroy = {} /\ BusyLive /\ SharedList /\ OwnLists /\ FinishedTasksLive

\* A step that at most forgets tasks: a call returns, a task stays with a
\* helper thread that has nobody left to hand it to.
LEMMA LiveKept ==
  ASSUME LiveInv, UNCHANGED <<toDestroy, task, finished>>, Busy' \subseteq Busy,
         \A d \in 1..depth' : \/ stack'[d].fin = <<>>
                              \/ d \in 1..depth /\ stack'[d].fin = stack[d].fin
  PROVE  LiveInv'
<1>1. BusyLive' /\ SharedList'
  BY DEF LiveInv, BusyLive, SharedList
<1>2. \A d \in 1..depth' : \A t \in Elements(stack'[d].fin) :
        d \in 1..depth /\ t \in Elements(stack[d].fin)
  BY DEF Elements
<1>3. OwnLists'
  <2>1. \A d \in 1..depth' : NoDuplicates(stack'[d].fin)
    BY DEF LiveInv, OwnLists, NoDuplicates
  <2>2. QED
    BY <1>2, <2>1 DEF LiveInv, OwnLists
<1>4. FinishedTasksLive'
  BY <1>2 DEF LiveInv, FinishedTasksLive
<1>5. QED
  BY <1>1, <1>3, <1>4 DEF LiveInv

\* The helper threads and the worklist pass tasks on and make none up.
LEMMA BusyShrinks ==
  ASSUME TaskType, TaskInv,
         \/ DispatchTask
         \/ \E h \in HelperThreads : HelperLoop(h) \/ HelperExecute(h)
              \/ HelperSpuriousWakeup(h) \/ HelperFinishDeleted(h) \/ DestroyHelper(h)
  PROVE  Busy' \subseteq Busy
<1>1. CASE DispatchTask
  <2>1. /\ promiseTasks' = Append(promiseTasks, starting)
        /\ starting \in Tasks
        /\ UNCHANGED currentTask
    BY <1>1 DEF DispatchTask, TaskType
  <2>2. /\ starting' \notin Tasks
        /\ \A h \in HelperThreads : Working(h)' => Working(h)
    BY <1>1 DEF DispatchTask, Sleepers, Working, TaskType
  <2>3. \A t \in Elements(promiseTasks') : t = starting \/ t \in Elements(promiseTasks)
    BY <2>1 DEF Elements, TaskType
  <2>4. QED
    BY <2>1, <2>2, <2>3 DEF Busy, Working
<1>2. ASSUME NEW h \in HelperThreads, HelperTake(h) PROVE Busy' \subseteq Busy
  <2>1. PICK n \in Nat : Len(promiseTasks) = n + 1
    <3>1. Len(promiseTasks) \in Nat \ {0}
      BY <1>2 DEF HelperTake, TaskType
    <3>2. Len(promiseTasks) - 1 \in Nat
      BY <3>1
    <3>3. QED
      BY <3>1, <3>2
  <2>2. /\ promiseTasks' = SubSeq(promiseTasks, 1, Len(promiseTasks) - 1)
        /\ UNCHANGED starting
        /\ currentTask' = [currentTask EXCEPT ![h] = promiseTasks[Len(promiseTasks)]]
        /\ helper' = [helper EXCEPT ![h] = "execute"]
    BY <1>2 DEF HelperTake
  <2>3. promiseTasks[n + 1] \in Elements(promiseTasks)
    BY <2>1 DEF Elements
  <2>4. \A t \in Elements(promiseTasks') : t \in Elements(promiseTasks)
    BY <2>1, <2>2 DEF Elements, TaskType
  <2>5. /\ currentTask'[h] \in Elements(promiseTasks)
        /\ \A g \in HelperThreads : g # h =>
             helper'[g] = helper[g] /\ currentTask'[g] = currentTask[g]
    BY <2>1, <2>2, <2>3 DEF TaskType
  <2>6. QED
    BY <2>2, <2>4, <2>5 DEF Busy
<1>3. ASSUME NEW h \in HelperThreads,
             HelperSleep(h) \/ HelperExit(h) \/ HelperExecute(h) \/ HelperSpuriousWakeup(h)
               \/ HelperFinishDeleted(h) \/ DestroyHelper(h)
      PROVE  Busy' \subseteq Busy
  <2>1. UNCHANGED <<promiseTasks, starting>>
    BY <1>3 DEF HelperSleep, HelperExit, HelperExecute, HelperSpuriousWakeup,
                HelperFinishDeleted, DestroyHelper
  <2>2. \A g \in HelperThreads : Working(g)' => Working(g) /\ currentTask'[g] = currentTask[g]
    BY <1>3 DEF HelperSleep, HelperExit, HelperExecute, HelperSpuriousWakeup,
                HelperFinishDeleted, DestroyHelper, TaskType, Working
  <2>3. QED
    BY <2>1, <2>2 DEF Busy, Working
<1>4. QED
  BY <1>1, <1>2, <1>3 DEF HelperLoop

LEMMA LiveNext ==
  ASSUME MayFail = FALSE, IInv, LiveInv, [Next]_vars
  PROVE  LiveInv'
<1>1. StackType /\ StackInv /\ TaskType /\ TaskInv
  BY DEF IInv, TypeOK, TaskType, StackType
<1>2. /\ toDestroy = {}
      /\ DestroyTasks => UNCHANGED <<toDestroy, task>>
  BY <1>1 DEF LiveInv, DestroyTasks, TaskType
<1>3. ASSUME UNCHANGED <<starting, promiseTasks, helper, currentTask>>
      PROVE  Busy' = Busy
  BY <1>3 DEF Busy
<1>4. CASE NativeCall
  <2>1. /\ depth' = depth + 1
        /\ depth + 1 \in 1..MaxDepth
        /\ stack' = [stack EXCEPT ![depth + 1] = NewFrame]
        /\ UNCHANGED <<toDestroy, task, finished, starting, promiseTasks, helper,
                       currentTask>>
    BY <1>1, <1>4 DEF NativeCall, StackType, shellVars, helperVars
  <2>2. stack'[depth + 1].fin = <<>> /\ \A d \in 1..depth : stack'[d] = stack[d]
    BY <1>1, <2>1 DEF StackType, NewFrame
  <2>3. QED
    BY <1>1, <1>3, <2>1, <2>2, LiveKept DEF StackType
<1>5. CASE ShellEnqueuePromiseJobCallback \/ GC \/ Unload \/ JS_ShutDownReturns
           \/ UNCHANGED vars
  <2>1. UNCHANGED <<depth, stack, toDestroy, task, finished, starting, promiseTasks,
                    helper, currentTask>>
    BY <1>2, <1>5 DEF ShellEnqueuePromiseJobCallback, GC, Unload, JS_ShutDownReturns,
                      shellVars, helperVars, vars
  <2>2. QED
    BY <1>3, <2>1, LiveKept
<1>6. CASE ScriptFails \/ NestedDrain \/ DrainDone
  <2>1. /\ Pop
        /\ depth \in 1..MaxDepth
        /\ UNCHANGED <<toDestroy, task, finished, starting, promiseTasks, helper,
                       currentTask>>
    BY <1>1, <1>2, <1>6 DEF ScriptFails, NestedDrain, DrainDone, Return, At, StackType,
                            shellVars, helperVars
  <2>2. depth' = depth - 1 /\ \A d \in 1..depth' : stack'[d] = stack[d]
    BY <1>1, <2>1 DEF Pop, StackType
  <2>3. QED
    BY <1>1, <1>3, <2>1, <2>2, LiveKept DEF StackType
<1>7. CASE EnterDrain \/ CheckOutstanding \/ WaitForConsumer \/ SpuriousWakeup
           \/ FinishTask \/ BeginJobs \/ CallJob \/ JobReturns
  <2>1. /\ UNCHANGED <<depth, toDestroy, task, finished, starting, promiseTasks, helper,
                       currentTask>>
        /\ depth \in 1..MaxDepth
    BY <1>1, <1>7 DEF EnterDrain, CheckOutstanding, WaitForConsumer, SpuriousWakeup,
       FinishTask, BeginJobs, CallJob, JobReturns, At, StackType, shellVars, helperVars
  <2>2. \A d \in 1..depth : stack'[d].fin = stack[d].fin
    <3>1. \/ \E p \in {"check", "take", "wait", "sleep", "finishing", "job"} : Goto(p)
          \/ \E n \in Nat : stack' = [stack EXCEPT ![depth].pc = "jobs", ![depth].i = n]
      BY <1>1, <1>7, <2>1 DEF EnterDrain, CheckOutstanding, WaitForConsumer,
         SpuriousWakeup, FinishTask, BeginJobs, CallJob, JobReturns, Top, StackType, Frame
    <3>2. 1..depth \subseteq 1..MaxDepth
      BY <2>1
    <3>3. CASE \E p \in {"check", "take", "wait", "sleep", "finishing", "job"} : Goto(p)
      BY <1>1, <2>1, <3>2, <3>3, GotoTop DEF StackType, DrainPCs
    <3>4. CASE \E n \in Nat :
                 stack' = [stack EXCEPT ![depth].pc = "jobs", ![depth].i = n]
      BY <1>1, <2>1, <3>2, <3>4, SetIndex DEF StackType, DrainPCs
    <3>5. QED
      BY <3>1, <3>3, <3>4
  <2>3. QED
    BY <1>3, <2>1, <2>2, LiveKept
<1>8. ASSUME NEW t \in Tasks, ShellStartAsyncTaskCallback(t) PROVE LiveInv'
  <2>1. /\ UNCHANGED <<depth, stack, toDestroy, finished, promiseTasks, helper,
                       currentTask>>
        /\ task[t] = "unborn"
        /\ task' = [task EXCEPT ![t] = "live"]
        /\ starting' = t
    BY <1>8 DEF ShellStartAsyncTaskCallback, helperVars
  <2>2. \A u \in Busy' : u = t \/ u \in Busy
    BY <2>1 DEF Busy
  <2>3. /\ t \notin Elements(finished)
        /\ \A d \in 1..depth : t \notin Elements(stack[d].fin)
    BY <2>1 DEF LiveInv, FinishedTasksLive
  <2>4. /\ task'[t] = "live"
        /\ \A u \in Tasks : task[u] = "live" => task'[u] = "live"
    BY <1>1, <2>1 DEF TaskType
  <2>5. /\ \A u \in Elements(finished) : u \in Tasks
        /\ \A d \in 1..depth : \A u \in Elements(stack[d].fin) : u \in Tasks
    BY <1>1 DEF TaskType, StackType, Frame, Elements
  <2>6. BusyLive' /\ SharedList' /\ OwnLists'
    <3>1. BusyLive'
      BY <2>2, <2>4 DEF LiveInv, BusyLive, Busy
    <3>2. SharedList'
      BY <2>1, <2>2, <2>3 DEF LiveInv, SharedList
    <3>3. OwnLists'
      BY <2>1, <2>2, <2>3 DEF LiveInv, OwnLists
    <3>4. QED
      BY <3>1, <3>2, <3>3
  <2>7. FinishedTasksLive'
    BY <2>1, <2>4, <2>5 DEF LiveInv, FinishedTasksLive
  <2>8. QED
    BY <1>2, <2>1, <2>6, <2>7 DEF LiveInv
<1>9. CASE DispatchTask
  <2>1. UNCHANGED <<depth, stack, toDestroy, task, finished>>
    BY <1>9 DEF DispatchTask, shellVars
  <2>2. QED
    BY <1>1, <1>9, <2>1, BusyShrinks, LiveKept
<1>10. CASE TakeFinished
  <2>1. /\ UNCHANGED <<depth, toDestroy, task, starting, promiseTasks, helper, currentTask>>
        /\ depth \in 1..MaxDepth
        /\ stack' = [stack EXCEPT ![depth].pc = "finish", ![depth].fin = finished]
        /\ finished' = <<>>
    BY <1>1, <1>10 DEF TakeFinished, At, StackType, helperVars
  <2>2. /\ stack'[depth].fin = finished
        /\ \A d \in 1..MaxDepth : d # depth => stack'[d] = stack[d]
    <3>1. "finish" \in DrainPCs /\ finished \in Seq(Tasks)
      BY <1>1 DEF DrainPCs, TaskType
    <3>2. QED
      BY <1>1, <2>1, <3>1, SetFin DEF StackType
  <2>3. 1..depth \subseteq 1..MaxDepth
    BY <2>1
  <2>4. Elements(finished') = {}
    BY <2>1 DEF Elements
  <2>5. Busy' = Busy
    BY <1>3, <2>1
  <2>6. BusyLive' /\ SharedList'
    BY <2>1, <2>4, <2>5 DEF LiveInv, BusyLive, SharedList, NoDuplicates
  <2>7. OwnLists'
    <3>1. \A d \in 1..depth : NoDuplicates(stack'[d].fin)
      BY <2>1, <2>2, <2>3 DEF LiveInv, OwnLists, SharedList
    <3>2. \A d \in 1..depth : \A t \in Elements(stack'[d].fin) :
            t \notin Busy' /\ \A c \in 1..depth : c # d => t \notin Elements(stack'[c].fin)
      BY <2>2, <2>3, <2>5 DEF LiveInv, OwnLists, SharedList, FinishedTasksLive
    <3>3. QED
      BY <2>1, <3>1, <3>2 DEF OwnLists
  <2>8. FinishedTasksLive'
    BY <2>1, <2>2, <2>3, <2>4 DEF LiveInv, FinishedTasksLive
  <2>9. QED
    BY <1>2, <2>1, <2>6, <2>7, <2>8 DEF LiveInv
<1>11. CASE FinishReturns
  <2>1. /\ UNCHANGED <<depth, toDestroy, finished, starting, promiseTasks, helper,
                       currentTask>>
        /\ depth \in 1..MaxDepth
        /\ depth \in 1..depth
        /\ 1..depth \subseteq 1..MaxDepth
        /\ Top.pc = "finishing"
        /\ stack' = [stack EXCEPT ![depth].pc = "finish", ![depth].fin = Tail(Top.fin)]
        /\ task' = [task EXCEPT ![Head(Top.fin)] = "freed"]
    BY <1>1, <1>11 DEF FinishReturns, At, StackType, shellVars, helperVars
  <2>2. PICK s \in Seq(Tasks) : s = Top.fin
    BY <1>1, <2>1 DEF Top, StackType, Frame
  <2>3. s # <<>>
    BY <1>1, <2>1, <2>2 DEF StackInv, FinishingHasTask, Top
  <2>4. PICK u \in Tasks : u = Head(s)
    BY <2>2, <2>3
  <2>5. stack[depth].fin = s /\ NoDuplicates(s)
    BY <2>1, <2>2 DEF LiveInv, OwnLists, Top
  <2>6. PICK r \in Seq(Tasks) : r = Tail(s)
    <3>1. Tail(s) \in Seq(Tasks)
      BY <2>3
    <3>2. QED
      BY <3>1
  <2>7. /\ NoDuplicates(r)
        /\ \A t \in Elements(r) : t \in Elements(s) /\ t # u
        /\ u \in Elements(s)
    <3>1. Len(r) = Len(s) - 1 /\ Len(s) \in Nat \ {0}
      BY <2>3, <2>6
    <3>2. \A k \in 1..Len(r) : r[k] = s[k + 1]
      BY <2>3, <2>6
    <3>3. u = s[1]
      BY <2>3, <2>4
    <3>4. QED
      BY <2>5, <3>1, <3>2, <3>3 DEF NoDuplicates, Elements
  <2>8. /\ stack'[depth].fin = r
        /\ \A d \in 1..MaxDepth : d # depth => stack'[d] = stack[d]
    <3>1. "finish" \in DrainPCs /\ Tail(Top.fin) = r
      BY <2>2, <2>6 DEF DrainPCs
    <3>2. QED
      BY <1>1, <2>1, <2>6, <3>1, SetFin DEF StackType
  <2>9. /\ u \notin Busy
        /\ u \notin Elements(finished)
        /\ \A d \in 1..depth : d # depth => u \notin Elements(stack[d].fin)
    BY <2>1, <2>5, <2>7 DEF LiveInv, OwnLists, FinishedTasksLive
  <2>10. \A t : t # u /\ task[t] = "live" => task'[t] = "live"
    BY <1>1, <2>1, <2>2, <2>4 DEF TaskType
  <2>11. Busy' = Busy
    BY <1>3, <2>1
  <2>12. \A d \in 1..depth : \A t \in Elements(stack'[d].fin) :
           t \in Elements(stack[d].fin) /\ t # u
    BY <2>1, <2>5, <2>7, <2>8, <2>9
  <2>13. BusyLive' /\ SharedList'
    BY <2>1, <2>9, <2>10, <2>11 DEF LiveInv, BusyLive, SharedList
  <2>14. OwnLists'
    <3>1. \A d \in 1..depth : NoDuplicates(stack'[d].fin)
      BY <2>1, <2>7, <2>8 DEF LiveInv, OwnLists
    <3>2. QED
      BY <2>1, <2>11, <2>12, <3>1 DEF LiveInv, OwnLists
  <2>15. FinishedTasksLive'
    BY <2>1, <2>9, <2>10, <2>12 DEF LiveInv, FinishedTasksLive
  <2>16. QED
    BY <1>2, <2>1, <2>13, <2>14, <2>15 DEF LiveInv
<1>12. ASSUME NEW h \in HelperThreads, HelperFinish(h) PROVE LiveInv'
  <2>1. PICK t \in Tasks : t = currentTask[h]
    BY <1>1, <1>12 DEF HelperFinish, TaskInv, Working
  <2>2. /\ UNCHANGED <<depth, stack, toDestroy, task, starting, promiseTasks, currentTask>>
        /\ helper[h] = "callback"
        /\ helper' = [helper EXCEPT ![h] = "relock"]
        /\ finished' = Append(finished, t)
    BY <1>12, <2>1 DEF HelperFinish, ShellFinishAsyncTaskCallback
  <2>3. t \in Busy
    BY <2>1, <2>2 DEF Busy
  <2>4. \A u \in Busy' : u \in Busy /\ u # t
    <3>1. \A g \in HelperThreads : Working(g) /\ currentTask[g] = t => g = h
      BY <1>1, <2>1, <2>2 DEF TaskInv, Working
    <3>2. t # starting /\ t \notin Elements(promiseTasks)
      BY <1>1, <2>1, <2>2 DEF TaskInv, Working, Elements
    <3>3. \A g \in HelperThreads : Working(g)' => Working(g) /\ g # h
      BY <1>1, <2>2 DEF Working, TaskType
    <3>4. QED
      BY <2>2, <3>1, <3>2, <3>3 DEF Busy, Working
  <2>5. /\ t \notin Elements(finished)
        /\ \A d \in 1..depth : t \notin Elements(stack[d].fin)
    BY <2>3 DEF LiveInv, SharedList, OwnLists
  <2>6. /\ \A u \in Elements(finished') : u = t \/ u \in Elements(finished)
        /\ NoDuplicates(finished')
    <3>1. /\ Len(finished') = Len(finished) + 1
          /\ Len(finished) \in Nat
          /\ \A k \in 1..Len(finished) : finished'[k] = finished[k]
          /\ finished'[Len(finished) + 1] = t
      BY <1>1, <2>2 DEF TaskType
    <3>2. QED
      BY <2>5, <3>1 DEF NoDuplicates, Elements, LiveInv, SharedList
  <2>7. BusyLive' /\ SharedList'
    BY <2>2, <2>4, <2>6 DEF LiveInv, BusyLive, SharedList
  <2>8. OwnLists'
    BY <2>2, <2>4 DEF LiveInv, OwnLists
  <2>9. FinishedTasksLive'
    BY <2>2, <2>3, <2>5, <2>6 DEF LiveInv, FinishedTasksLive, BusyLive
  <2>10. QED
    BY <1>2, <2>2, <2>7, <2>8, <2>9 DEF LiveInv
<1>13. ASSUME NEW h \in HelperThreads,
              HelperLoop(h) \/ HelperExecute(h) \/ HelperSpuriousWakeup(h)
                \/ HelperFinishDeleted(h) \/ DestroyHelper(h)
       PROVE  LiveInv'
  <2>1. UNCHANGED <<depth, toDestroy, task, finished>>
    BY <1>13 DEF HelperLoop, HelperTake, HelperSleep, HelperExit, HelperExecute,
       HelperSpuriousWakeup, HelperFinishDeleted, DestroyHelper, shellVars
  <2>2. UNCHANGED stack \/ (At("sleep") /\ Goto("check"))
    BY <1>13 DEF HelperLoop, HelperTake, HelperSleep, HelperExit, HelperExecute,
       HelperSpuriousWakeup, HelperFinishDeleted, DestroyHelper, NotifyConsumer
  <2>3. \A d \in 1..depth : stack'[d].fin = stack[d].fin
    BY <1>1, <2>2, GotoTop DEF At, StackType, DrainPCs
  <2>4. QED
    BY <1>1, <1>13, <2>1, <2>3, BusyShrinks, LiveKept
<1>14. ~DispatchFails
  BY DEF DispatchFails
<1>15. QED
  BY <1>4, <1>5, <1>6, <1>7, <1>8, <1>9, <1>10, <1>11, <1>12, <1>13, <1>14
     DEF Next, JavaScript, JavaScriptEnds, StartPromiseTaskEnds, DrainStep, Helper,
         HelperWork, ShutDown

\* As long as no append fails, DrainJobQueue never finishes a task that has
\* been deleted: a task in a finished list is alive, and it is in one list.
\* (With failing appends the property does not hold; MCJobQueueOOM shows how.)
THEOREM FinishedAreLive ==
  ASSUME MayFail = FALSE
  PROVE  Spec => []FinishedTasksLive
<1>1. Init => LiveInv
  <2> SUFFICES ASSUME Init PROVE LiveInv
    OBVIOUS
  <2>1. Elements(finished) = {} /\ NoDuplicates(finished) /\ 1..depth = {}
    BY DEF Init, Elements, NoDuplicates
  <2>2. Busy = {}
    BY DEF Init, Busy, Elements
  <2>3. QED
    BY <2>1, <2>2 DEF Init, LiveInv, BusyLive, SharedList, OwnLists, FinishedTasksLive
<1>2. IInv /\ LiveInv /\ [Next]_vars => LiveInv'
  BY LiveNext
<1>3. LiveInv => FinishedTasksLive
  BY DEF LiveInv
<1>4. QED
  BY <1>1, <1>2, <1>3, Invariance, PTL DEF Spec
=============================================================================
