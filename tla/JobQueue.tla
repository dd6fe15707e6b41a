------------------------------ MODULE JobQueue ------------------------------
(***************************************************************************)
(* The promise job queue of the bridge and the helper threads that feed    *)
(* it.  One JavaScript thread runs native calls (native_execJS,            *)
(* native_execJSService, native_initFramework); each ends in               *)
(* DrainJobQueue, which waits for the asynchronous tasks that JavaScript   *)
(* has started, finishes them and then runs the queued promise jobs.       *)
(* Helper threads execute the tasks and hand them back through             *)
(* ShellFinishAsyncTaskCallback.                                           *)
(*                                                                         *)
(* JavaScript calls Java, and Java may call back into a native method, so  *)
(* native calls nest: the JavaScript thread is a stack of frames, one per  *)
(* native call, of which only the top one runs.                            *)
(*                                                                         *)
(* Two locks matter.  The mutex of ShellContext::asyncTasks is only held   *)
(* across single steps.  The helper-thread lock is held across several in  *)
(* one place, between the test of `outstanding' and the wait on CONSUMER:  *)
(* see HelperLockHeld.                                                     *)
(*                                                                         *)
(* LockNotTaken, StartUncounted, DispatchSilently, CountAccepted,          *)
(* EnterUnguarded, CheckOnce, TakeKeepingList, StopOneEarly, KeepSlots,    *)
(* NotifyNobody and DestroyQuietly are no part of the specification: each  *)
(* is the definition after it with a mistake, and the properties are tried *)
(* against them.                                                           *)
(***************************************************************************)
EXTENDS Naturals, Sequences, FiniteSets

CONSTANTS
  Tasks,          \* the PromiseTasks that JavaScript may start
  HelperThreads,  \* SetFakeCPUCount(2) makes six of them
  NoTask,         \* no task
  MaxJobs,        \* bound on the promise jobs enqueued
  MaxDepth,       \* bound on the nesting of native calls
  MayFail,        \* a vector's append may run out of memory
  MayUnload       \* Java may unload the library

ASSUME JobQueueAssumption ==
  /\ IsFiniteSet(Tasks)
  /\ NoTask \notin Tasks
  /\ HelperThreads # {}
  /\ MaxJobs \in Nat
  /\ MaxDepth \in Nat \ {0}
  /\ MayFail \in BOOLEAN
  /\ MayUnload \in BOOLEAN

VARIABLES
  depth,             \* native calls on the stack
  stack,             \* stack[1..depth]: their frames
  jobQueue,          \* ShellContext::jobQueue; NoJob is a nulled slot
  drainingJobQueue,  \* ShellContext::drainingJobQueue
  outstanding,       \* ShellAsyncTasks::outstanding
  finished,          \* ShellAsyncTasks::finished
  starting,          \* the task that StartPromiseTask is dispatching
  promiseTasks,      \* the helper threads' worklist
  toDestroy,         \* JSRuntime::promiseTasksToDestroy
  helper,            \* helper[h]: where thread h is
  currentTask,       \* currentTask[h]: the task it works on
  terminate,         \* the threads told to terminate
  process,           \* the library's life cycle
  task,              \* history: each task's life cycle
  enqueued,          \* history: jobs enqueued, numbered from 1
  ran                \* history: the last job run

shellVars == <<jobQueue, drainingJobQueue, outstanding, finished>>

helperVars == <<promiseTasks, helper, currentTask, terminate>>

vars == <<depth, stack, shellVars, starting, helperVars, toDestroy, process,
          task, enqueued, ran>>

NoJob == 0

\* Where a native call is: in its script, or in DrainJobQueue.
ScriptPCs == {"script", "finishing", "job"}   \* JavaScript runs

DrainPCs == {"check", "wait", "sleep", "take", "finish", "finishing", "jobs", "job"}

\* A native call: pc, its local list of finished tasks, its loop index.
Frame == [pc : {"script"} \union DrainPCs, fin : Seq(Tasks), i : Nat]

NewFrame == [pc |-> "script", fin |-> <<>>, i |-> 0]

Top == stack[depth]

At(pc) == process = "up" /\ depth > 0 /\ starting = NoTask /\ Top.pc = pc

JSRunning == \E pc \in ScriptPCs : At(pc)

LockNotTaken == FALSE

\* The JavaScript thread holds the helper-thread lock from its test of
\* outstanding until it waits.
HelperLockHeld == At("wait")

Goto(pc) == stack' = [stack EXCEPT ![depth].pc = pc]

Init ==
  /\ depth = 0
  /\ stack = [d \in 1..MaxDepth |-> NewFrame]
  /\ jobQueue = <<>>
  /\ drainingJobQueue = FALSE
  /\ outstanding = 0
  /\ finished = <<>>
  /\ starting = NoTask
  /\ promiseTasks = <<>>
  /\ toDestroy = {}
  /\ helper = [h \in HelperThreads |-> "loop"]
  /\ currentTask = [h \in HelperThreads |-> NoTask]
  /\ terminate = {}
  /\ process = "up"
  /\ task = [t \in Tasks |-> "unborn"]
  /\ enqueued = 0
  /\ ran = 0

-----------------------------------------------------------------------------
(***************************************************************************)
(* JavaScript: native calls, promise jobs, asynchronous tasks.             *)
(***************************************************************************)

\* Java calls a native method, from outside or from a callback that
\* JavaScript called.
NativeCall ==
  /\ process = "up"
  /\ depth = 0 \/ JSRunning
  /\ depth < MaxDepth
  /\ depth' = depth + 1
  /\ stack' = [stack EXCEPT ![depth + 1] = NewFrame]
  /\ UNCHANGED <<shellVars, starting, helperVars, toDestroy, process, task,
                 enqueued, ran>>

ShellEnqueuePromiseJobCallback ==
  /\ JSRunning
  /\ enqueued < MaxJobs
  /\ enqueued' = enqueued + 1
  /\ jobQueue' = Append(jobQueue, enqueued + 1)
  /\ UNCHANGED <<depth, stack, drainingJobQueue, outstanding, finished, starting,
                 helperVars, toDestroy, process, task, ran>>

StartUncounted(t) ==
  /\ JSRunning
  /\ task[t] = "unborn"
  /\ task' = [task EXCEPT ![t] = "live"]
  /\ starting' = t
  /\ UNCHANGED <<depth, stack, shellVars, helperVars, toDestroy, process,
                 enqueued, ran>>

\* StartPromiseTask up to the return of the callback.
ShellStartAsyncTaskCallback(t) ==
  /\ JSRunning
  /\ task[t] = "unborn"
  /\ task' = [task EXCEPT ![t] = "live"]
  /\ starting' = t
  /\ outstanding' = outstanding + 1
  /\ UNCHANGED <<depth, stack, jobQueue, drainingJobQueue, finished, helperVars,
                 toDestroy, process, enqueued, ran>>

Sleepers == {h \in HelperThreads : helper[h] = "wait"}

DispatchSilently ==
  /\ starting # NoTask
  /\ promiseTasks' = Append(promiseTasks, starting)
  /\ starting' = NoTask
  /\ UNCHANGED <<depth, stack, shellVars, toDestroy, helper, currentTask,
                 terminate, process, task, enqueued, ran>>

\* The rest of StartPromiseTask, under the helper-thread lock: queue the task
\* and notify one producer.
DispatchTask ==
  /\ starting # NoTask
  /\ promiseTasks' = Append(promiseTasks, starting)
  /\ starting' = NoTask
  /\ IF Sleepers = {}
     THEN UNCHANGED helper
     ELSE \E h \in Sleepers : helper' = [helper EXCEPT ![h] = "loop"]
  /\ UNCHANGED <<depth, stack, shellVars, toDestroy, currentTask, terminate,
                 process, task, enqueued, ran>>

CountAccepted(t, accepted) ==
  /\ accepted \/ MayFail
  /\ outstanding' = IF accepted THEN outstanding - 1 ELSE outstanding
  /\ finished' = IF accepted THEN Append(finished, t) ELSE finished
  /\ UNCHANGED <<jobQueue, drainingJobQueue>>

\* ShellFinishAsyncTaskCallback(t): the count goes down even when the append
\* fails and the callback returns false.
ShellFinishAsyncTaskCallback(t, accepted) ==
  /\ accepted \/ MayFail
  /\ outstanding' = outstanding - 1
  /\ finished' = IF accepted THEN Append(finished, t) ELSE finished
  /\ UNCHANGED <<jobQueue, drainingJobQueue>>

\* StartPromiseTask cannot queue the task: it calls the finish callback, and
\* its UniquePtr deletes the task on return.
DispatchFails ==
  /\ MayFail
  /\ starting # NoTask
  /\ \E accepted \in BOOLEAN : ShellFinishAsyncTaskCallback(starting, accepted)
  /\ task' = [task EXCEPT ![starting] = "freed"]
  /\ starting' = NoTask
  /\ UNCHANGED <<depth, stack, helperVars, toDestroy, process, enqueued, ran>>

\* Any collection, such as makeIdleNotification's, first destroys the tasks that
\* could not be handed back (GCRuntime::purgeRuntime, jsgc.cpp:3627).
DestroyTasks ==
  /\ toDestroy' = {}
  /\ task' = [t \in Tasks |-> IF t \in toDestroy THEN "freed" ELSE task[t]]

GC ==
  /\ JSRunning
  /\ toDestroy # {}
  /\ DestroyTasks
  /\ UNCHANGED <<depth, stack, shellVars, starting, helperVars, process,
                 enqueued, ran>>

Pop ==
  /\ depth' = depth - 1
  /\ stack' = [stack EXCEPT ![depth] = NewFrame]

\* The native call returns; makeIdleNotification may have collected first.
Return ==
  /\ Pop
  /\ DestroyTasks \/ UNCHANGED <<toDestroy, task>>

\* native_execJSService and native_initFramework return without draining
\* when their script throws.
ScriptFails ==
  /\ At("script")
  /\ Pop
  /\ UNCHANGED <<shellVars, starting, helperVars, toDestroy, process, task,
                 enqueued, ran>>

-----------------------------------------------------------------------------
(***************************************************************************)
(* DrainJobQueue.                                                          *)
(***************************************************************************)
EnterUnguarded ==
  /\ At("script")
  /\ Goto("check")
  /\ UNCHANGED <<depth, shellVars, starting, helperVars, toDestroy, process,
                 task, enqueued, ran>>

EnterDrain ==
  /\ At("script")
  /\ ~drainingJobQueue
  /\ Goto("check")
  /\ UNCHANGED <<depth, shellVars, starting, helperVars, toDestroy, process,
                 task, enqueued, ran>>

\* if (sc->drainingJobQueue) return true
NestedDrain ==
  /\ At("script")
  /\ drainingJobQueue
  /\ Return
  /\ UNCHANGED <<shellVars, starting, helperVars, process, enqueued, ran>>

CheckOnce ==
  /\ At("check")
  /\ Goto("take")
  /\ UNCHANGED <<depth, shellVars, starting, helperVars, toDestroy, process,
                 task, enqueued, ran>>

\* Take the helper-thread lock and test outstanding.
CheckOutstanding ==
  /\ At("check")
  /\ Goto(IF outstanding = 0 THEN "take" ELSE "wait")
  /\ UNCHANGED <<depth, shellVars, starting, helperVars, toDestroy, process,
                 task, enqueued, ran>>

\* HelperThreadState().wait(lock, CONSUMER) releases the lock and sleeps.
WaitForConsumer ==
  /\ At("wait")
  /\ Goto("sleep")
  /\ UNCHANGED <<depth, shellVars, starting, helperVars, toDestroy, process,
                 task, enqueued, ran>>

SpuriousWakeup ==
  /\ At("sleep")
  /\ Goto("check")
  /\ UNCHANGED <<depth, shellVars, starting, helperVars, toDestroy, process,
                 task, enqueued, ran>>

TakeKeepingList ==
  /\ At("take")
  /\ stack' = [stack EXCEPT ![depth].pc = "finish", ![depth].fin = finished]
  /\ UNCHANGED <<depth, shellVars, starting, helperVars, toDestroy,
                 process, task, enqueued, ran>>

\* Move the finished list into the call's own.
TakeFinished ==
  /\ At("take")
  /\ stack' = [stack EXCEPT ![depth].pc = "finish", ![depth].fin = finished]
  /\ finished' = <<>>
  /\ UNCHANGED <<depth, jobQueue, drainingJobQueue, outstanding, starting,
                 helperVars, toDestroy, process, task, enqueued, ran>>

\* task->finish(cx) settles the promise, which may run JavaScript.  With a
\* task that has been deleted the process may crash.
FinishTask ==
  /\ At("finish")
  /\ Top.fin # <<>>
  /\ Goto("finishing")
  /\ \/ UNCHANGED process
     \/ task[Head(Top.fin)] = "freed" /\ process' = "crashed"
  /\ UNCHANGED <<depth, shellVars, starting, helperVars, toDestroy, task,
                 enqueued, ran>>

\* finish() ends by deleting the task (PromiseTask::finish, Promise.cpp:2685).
FinishReturns ==
  /\ At("finishing")
  /\ task' = [task EXCEPT ![Head(Top.fin)] = "freed"]
  /\ stack' = [stack EXCEPT ![depth].pc = "finish", ![depth].fin = Tail(Top.fin)]
  /\ UNCHANGED <<depth, shellVars, starting, helperVars, toDestroy, process,
                 enqueued, ran>>

BeginJobs ==
  /\ At("finish")
  /\ Top.fin = <<>>
  /\ drainingJobQueue' = TRUE
  /\ stack' = [stack EXCEPT ![depth].pc = "jobs", ![depth].i = 1]
  /\ UNCHANGED <<depth, jobQueue, outstanding, finished, starting, helperVars,
                 toDestroy, process, task, enqueued, ran>>

CallJob ==
  /\ At("jobs")
  /\ Top.i <= Len(jobQueue)
  /\ ran' = jobQueue[Top.i]
  /\ Goto("job")
  /\ UNCHANGED <<depth, shellVars, starting, helperVars, toDestroy, process,
                 task, enqueued>>

\* The job has returned or thrown: null its slot.
JobReturns ==
  /\ At("job")
  /\ jobQueue' = [jobQueue EXCEPT ![Top.i] = NoJob]
  /\ stack' = [stack EXCEPT ![depth].pc = "jobs", ![depth].i = Top.i + 1]
  /\ UNCHANGED <<depth, drainingJobQueue, outstanding, finished, starting,
                 helperVars, toDestroy, process, task, enqueued, ran>>

StopOneEarly ==
  /\ At("jobs")
  /\ Top.i >= Len(jobQueue)
  /\ jobQueue' = <<>>
  /\ drainingJobQueue' = FALSE
  /\ Return
  /\ UNCHANGED <<outstanding, finished, starting, helperVars, process, enqueued,
                 ran>>

KeepSlots ==
  /\ At("jobs")
  /\ Top.i > Len(jobQueue)
  /\ drainingJobQueue' = FALSE
  /\ Return
  /\ UNCHANGED <<jobQueue, outstanding, finished, starting, helperVars, process,
                 enqueued, ran>>

DrainDone ==
  /\ At("jobs")
  /\ Top.i > Len(jobQueue)
  /\ jobQueue' = <<>>
  /\ drainingJobQueue' = FALSE
  /\ Return
  /\ UNCHANGED <<outstanding, finished, starting, helperVars, process, enqueued,
                 ran>>

-----------------------------------------------------------------------------
(***************************************************************************)
(* HelperThread::threadLoop and handlePromiseTaskWorkload.  A thread that  *)
(* comes back from a task takes the helper-thread lock, notifies CONSUMER  *)
(* and tests for work before it releases the lock.                         *)
(***************************************************************************)
AtLoop(h) == helper[h] \in {"loop", "relock"} /\ ~HelperLockHeld

NotifyNobody(h) == UNCHANGED stack

\* notifyAll(CONSUMER) wakes the JavaScript thread if it sleeps.
NotifyConsumer(h) ==
  IF helper[h] = "relock" /\ At("sleep") THEN Goto("check") ELSE UNCHANGED stack

HelperTake(h) ==
  /\ AtLoop(h)
  /\ h \notin terminate
  /\ promiseTasks # <<>>
  /\ currentTask' = [currentTask EXCEPT ![h] = promiseTasks[Len(promiseTasks)]]
  /\ promiseTasks' = SubSeq(promiseTasks, 1, Len(promiseTasks) - 1)
  /\ helper' = [helper EXCEPT ![h] = "execute"]
  /\ NotifyConsumer(h)
  /\ UNCHANGED <<depth, shellVars, starting, toDestroy, terminate, process, task,
                 enqueued, ran>>

HelperSleep(h) ==
  /\ AtLoop(h)
  /\ h \notin terminate
  /\ promiseTasks = <<>>
  /\ currentTask' = [currentTask EXCEPT ![h] = NoTask]
  /\ helper' = [helper EXCEPT ![h] = "wait"]
  /\ NotifyConsumer(h)
  /\ UNCHANGED <<depth, shellVars, starting, promiseTasks, toDestroy, terminate,
                 process, task, enqueued, ran>>

HelperExit(h) ==
  /\ AtLoop(h)
  /\ h \in terminate
  /\ currentTask' = [currentTask EXCEPT ![h] = NoTask]
  /\ helper' = [helper EXCEPT ![h] = "exited"]
  /\ NotifyConsumer(h)
  /\ UNCHANGED <<depth, shellVars, starting, promiseTasks, toDestroy, terminate,
                 process, task, enqueued, ran>>

HelperSpuriousWakeup(h) ==
  /\ helper[h] = "wait"
  /\ helper' = [helper EXCEPT ![h] = "loop"]
  /\ UNCHANGED <<depth, stack, shellVars, starting, promiseTasks, currentTask,
                 terminate, toDestroy, process, task, enqueued, ran>>

HelperExecute(h) ==
  /\ helper[h] = "execute"
  /\ helper' = [helper EXCEPT ![h] = "callback"]
  /\ UNCHANGED <<depth, stack, shellVars, starting, promiseTasks, currentTask,
                 terminate, toDestroy, process, task, enqueued, ran>>

\* finishAsyncTaskCallback; a task it does not accept waits for the next GC.
HelperFinish(h) ==
  /\ helper[h] = "callback"
  /\ process = "up"
  /\ \E accepted \in BOOLEAN :
       /\ ShellFinishAsyncTaskCallback(currentTask[h], accepted)
       /\ toDestroy' = IF accepted THEN toDestroy ELSE toDestroy \union {currentTask[h]}
  /\ helper' = [helper EXCEPT ![h] = "relock"]
  /\ UNCHANGED <<depth, stack, starting, promiseTasks, currentTask, terminate,
                 process, task, enqueued, ran>>

-----------------------------------------------------------------------------
(***************************************************************************)
(* JNI_OnUnload deletes the ShellContext, then JS_ShutDown terminates and  *)
(* joins the helper threads one after the other.                           *)
(***************************************************************************)
Unload ==
  /\ MayUnload
  /\ process = "up"
  /\ depth = 0
  /\ process' = "unloading"
  /\ UNCHANGED <<depth, stack, shellVars, starting, helperVars, toDestroy, task,
                 enqueued, ran>>

\* The callback's locks, counts and appends on the deleted ShellContext: the
\* process may crash, or the writes go nowhere.
HelperFinishDeleted(h) ==
  /\ helper[h] = "callback"
  /\ process = "unloading"
  /\ process' \in {"unloading", "crashed"}
  /\ helper' = [helper EXCEPT ![h] = "relock"]
  /\ UNCHANGED <<depth, stack, shellVars, starting, promiseTasks, currentTask,
                 terminate, toDestroy, task, enqueued, ran>>

DestroyQuietly(h) ==
  /\ process = "unloading"
  /\ h \notin terminate
  /\ \A g \in terminate : helper[g] = "exited"
  /\ terminate' = terminate \union {h}
  /\ UNCHANGED <<depth, stack, shellVars, starting, helper, promiseTasks, currentTask,
                 toDestroy, process, task, enqueued, ran>>

\* HelperThread::destroy: set terminate, notify all producers, join.
DestroyHelper(h) ==
  /\ process = "unloading"
  /\ h \notin terminate
  /\ \A g \in terminate : helper[g] = "exited"
  /\ terminate' = terminate \union {h}
  /\ helper' = [g \in HelperThreads |->
                  IF helper[g] = "wait" THEN "loop" ELSE helper[g]]
  /\ UNCHANGED <<depth, stack, shellVars, starting, promiseTasks, currentTask,
                 toDestroy, process, task, enqueued, ran>>

JS_ShutDownReturns ==
  /\ process = "unloading"
  /\ \A h \in HelperThreads : helper[h] = "exited"
  /\ process' = "down"
  /\ UNCHANGED <<depth, stack, shellVars, starting, helperVars, toDestroy, task,
                 enqueued, ran>>

-----------------------------------------------------------------------------
\* JavaScript itself: what a script, a promise job or a finish handler does.
JavaScript ==
  \/ NativeCall
  \/ ShellEnqueuePromiseJobCallback
  \/ \E t \in Tasks : ShellStartAsyncTaskCallback(t)
  \/ GC

\* A piece of JavaScript comes to its end.
JavaScriptEnds ==
  \/ ScriptFails \/ EnterDrain \/ NestedDrain \/ FinishReturns \/ JobReturns

StartPromiseTaskEnds == DispatchTask \/ DispatchFails

\* The steps of DrainJobQueue between two pieces of JavaScript.
DrainStep ==
  \/ CheckOutstanding \/ WaitForConsumer \/ TakeFinished
  \/ FinishTask \/ BeginJobs \/ CallJob \/ DrainDone

\* The steps of a helper thread that need the helper-thread lock, and the rest.
HelperLoop(h) == HelperTake(h) \/ HelperSleep(h) \/ HelperExit(h)

HelperWork(h) == HelperExecute(h) \/ HelperFinish(h) \/ HelperFinishDeleted(h)

Helper(h) ==
  /\ process # "crashed"
  /\ HelperLoop(h) \/ HelperWork(h) \/ HelperSpuriousWakeup(h)

ShutDown == JS_ShutDownReturns \/ \E h \in HelperThreads : DestroyHelper(h)

Next ==
  \/ JavaScript
  \/ JavaScriptEnds
  \/ StartPromiseTaskEnds
  \/ DrainStep
  \/ SpuriousWakeup
  \/ \E h \in HelperThreads : Helper(h)
  \/ Unload
  \/ ShutDown

Spec == Init /\ [][Next]_vars

(***************************************************************************)
(* Fairness.  The native code of a running thread proceeds.  Strong        *)
(* fairness twice: a helper thread that keeps finding the helper-thread    *)
(* lock free gets it although the JavaScript thread keeps taking it (after *)
(* spurious wakeups), and every piece of JavaScript ends, at whatever      *)
(* depth it runs, although it makes nested native calls.                   *)
(***************************************************************************)
Fairness ==
  /\ WF_vars(DrainStep)
  /\ WF_vars(StartPromiseTaskEnds)
  /\ WF_vars(ShutDown)
  /\ \A d \in 1..MaxDepth : SF_vars(depth = d /\ JavaScriptEnds)
  /\ \A h \in HelperThreads :
       /\ WF_vars(process # "crashed" /\ HelperWork(h))
       /\ SF_vars(process # "crashed" /\ HelperLoop(h))

FairSpec == Spec /\ Fairness

-----------------------------------------------------------------------------
(***************************************************************************)
(* Properties.                                                             *)
(***************************************************************************)

\* The frames stay on the stack's bounded range, the queue holds jobs and nulled
\* slots, and outstanding, a size_t, never goes below zero.
TypeOK ==
  /\ depth \in 0..MaxDepth
  /\ stack \in [1..MaxDepth -> Frame]
  /\ jobQueue \in Seq(NoJob..MaxJobs)
  /\ drainingJobQueue \in BOOLEAN
  /\ outstanding \in Nat
  /\ finished \in Seq(Tasks)
  /\ starting \in Tasks \union {NoTask}
  /\ promiseTasks \in Seq(Tasks)
  /\ toDestroy \in SUBSET Tasks
  /\ helper \in [HelperThreads ->
                   {"loop", "wait", "execute", "callback", "relock", "exited"}]
  /\ currentTask \in [HelperThreads -> Tasks \union {NoTask}]
  /\ terminate \in SUBSET HelperThreads
  /\ process \in {"up", "unloading", "down", "crashed"}
  /\ task \in [Tasks -> {"unborn", "live", "freed"}]
  /\ enqueued \in 0..MaxJobs
  /\ ran \in 0..MaxJobs

Elements(s) == {s[k] : k \in 1..Len(s)}

\* The tasks on their way to ShellFinishAsyncTaskCallback.
Busy ==
  {t \in Tasks :
     \/ t = starting
     \/ t \in Elements(promiseTasks)
     \/ \E h \in HelperThreads :
          helper[h] \in {"execute", "callback"} /\ currentTask[h] = t}

\* Until the library is unloaded, ShellAsyncTasks::outstanding counts exactly
\* the tasks started and not yet handed back, whichever thread has them.
OutstandingCounts == process = "up" => outstanding = Cardinality(Busy)

\* The comment in DrainJobQueue: it waits "so that the finishedAsyncTasks list
\* is fixed".  When it takes the list no task is on its way.
ListFixedWhenTaken == At("take") => Busy = {}

\* DrainJobQueue cannot sleep through the last notification: while it waits
\* either a task is on its way or a helper thread is about to notify.
NoLostWakeup ==
  At("wait") \/ At("sleep") =>
    outstanding > 0 \/ \E h \in HelperThreads : helper[h] = "relock"

\* A queued task is never left to helper threads that all sleep on PRODUCER.
QueuedTaskServed ==
  process = "up" /\ promiseTasks # <<>> =>
    \E h \in HelperThreads : helper[h] # "wait"

Looping(d) == stack[d].pc \in {"jobs", "job"}

\* At most one call on the stack is in the loop over the jobs, and
\* drainingJobQueue says that there is one.
OneJobLoop ==
  /\ drainingJobQueue <=> \E d \in 1..depth : Looping(d)
  /\ \A c, d \in 1..depth : Looping(c) /\ Looping(d) => c = d

\* The promise jobs run in the order of their enqueuing and each once: the
\* loop never meets a slot it has nulled, nor a job it has run.
JobsInOrder == [][ran' # ran => ran' = ran + 1]_ran

\* The outermost native call, when it drains, leaves no job behind.
NoJobLeftBehind ==
  [][depth = 1 /\ depth' = 0 /\ ~ScriptFails => ran' = enqueued']_vars

\* As long as no append fails: a task in a finished list has not been deleted,
\* and it is not both in the shared list and in a call's own (jsapi.h on
\* AsyncTask: "After the FinishAsyncTaskCallback is called and succeeds, one of
\* these two functions will be called on the original JSContext's owner
\* thread", finish and cancel both deleting the task).
FinishedTasksLive ==
  /\ \A t \in Elements(finished) : task[t] = "live"
  /\ \A d \in 1..depth : \A t \in Elements(stack[d].fin) :
       task[t] = "live" /\ t \notin Elements(finished)

\* DrainJobQueue's wait ends once the helper threads have done their work.
WaitEnds == At("check") ~> At("take")

\* Every native call returns if the JavaScript in it ends.
CallsReturn == depth > 0 ~> depth = 0 \/ process = "crashed"

\* JS_ShutDown joins every helper thread and returns.
ShutDownReturns == process = "unloading" ~> process \in {"down", "crashed"}

\* The call in the loop over the jobs, if there is one.
Drainer ==
  IF drainingJobQueue THEN CHOOSE d \in 1..depth : Looping(d) ELSE 0

Queue == INSTANCE PromiseQueue WITH calls <- depth, drainer <- Drainer

\* DrainJobQueue, with its flag, its nulled slots and its index, and with the
\* tasks and nested calls around it, is the simple queue of PromiseQueue: one
\* drainer, jobs in order and once, nothing left when the drainer returns.
ImplementsQueue == Queue!Spec
=============================================================================
