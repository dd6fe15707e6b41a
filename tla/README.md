# TLA+ verification of the weex native bridge

The repository is the native half of Weex's JavaScript bridge on Android: a
shared library, `src/weexion.cpp`, that embeds a vendored SpiderMonkey 52 and
connects it to Java through JNI.  This directory models the bridge and the part
of the engine that runs concurrently with it.

## Inventory

First-party code is `weexion.cpp`, `Trace.cpp`, `Trace.h` and `LogUtils.h`;
everything else (`js/`, `mfbt/`, `mozglue/`, `fdlibm/`) is vendored.  The build
defines `SPIDERMONKEY_PROMISE`, so the promise code is part of the program.

| Component | State | Operations | What makes it correct |
|---|---|---|---|
| Idle notification policy | `execJSCount`, `lastExecJSCount`, `samplingExecJSCount`, `idle_notification_FLAG` | `needIdleNotification`, `makeIdleNotification`, `markupStateInternally`, `resetIdleNotificationCount` | no collection during start-up; a bounded number of full collections per epoch, spaced out |
| Promise job queue | `ShellContext`: `jobQueue`, `drainingJobQueue`, `asyncTasks.outstanding`, `asyncTasks.finished` | the enqueue, start and finish callbacks, `DrainJobQueue` | jobs run once, in order, none left behind; the count is exact; one job loop at a time |
| Helper threads | the worklist `promiseTasks`, per thread `currentTask`, `terminate`, the lock and two condition variables | `StartPromiseTask`, `threadLoop`, `handlePromiseTaskWorkload`, `destroy` | no lost wake-up, no forgotten task, shutdown terminates |
| Off-thread Ion compilation | the worklist, the finished and the lazy link list, per thread `ionBuilder` and `pause`, per script `ion`, `recompiling_`, `pendingBuilder_`, the interrupt flag | `IonCompile`, `handleIonWorkload`, `AttachFinishedCompilations`, `LinkIonScript`, `CancelOffThreadIonCompile`, `ForbidCompilation` | a builder has one owner and a script one builder; a cancellation leaves nothing behind; no thread sleeps without a waker |
| Native entry points | the context's pending exception, the stack of native calls | `native_initFramework`, `native_execJS`, `native_execJSService`, `ExecuteJavaScript`, `ReportException` | a call's own exception is reported, first by that call; what has been cleared does not come back |
| Callbacks into Java | JNI local references, pending exception | `CallNative`, `CallNativeModule`, `CallNativeComponent`, `CallAddElement`, `SetTimeoutNative`, `NativeLog`, `NotifyTrimMemory`, `MarkupState` | references and buffers are released on every return |
| Life cycle | `globalContext`, `_globalObject`, `jThis`, the ShellContext | `JNI_OnLoad`, `native_initFramework`, `JNI_OnUnload` | a failed start leaves a state from which later calls are safe |
| ATrace | `g_atrace_fd`, `jTraceClass` | `StartATrace`, `StopATrace`, `TraceScope` | begin and end events pair up |

How they interact.  Java calls a native method on one JavaScript thread.  The
method runs JavaScript, which calls back into Java, which may call another
native method: native calls nest.  JavaScript enqueues promise jobs and starts
asynchronous tasks; helper threads execute the tasks and hand them back through
`ShellFinishAsyncTaskCallback`.  Before it returns, a native method drains: it
waits for the outstanding tasks, finishes them, runs the jobs, and
`native_execJS` finally asks the idle policy whether to run a full collection.
Meanwhile the engine, which the bridge starts with Ion enabled and six helper
threads, compiles hot scripts on the same threads, pausing one compilation for
another, and links the results when the JavaScript thread sees the interrupt.

What is hard here: the handshake of `DrainJobQueue` with the helper threads
over two locks and a condition variable; re-entrancy at every point where
JavaScript runs; allocation failures half way through a hand-over; unloading
while helper threads work; compilations that are paused, cancelled and linked
while priorities change; references that outlive their frame; counters at their limits; an exception left pending
by one call and found by the next.  `PROJECT.json` lists each hazard at its line.

## Modules

| Module | Role |
|---|---|
| `IdleNotification` | the idle policy: one action per path through `needIdleNotification`, plus the markup and the reset |
| `IdleNotificationProofs` | its theorems |
| `JobQueue` | the job queue, the asynchronous tasks and the helper threads |
| `PromiseQueue` | what the job queue promises, without tasks, threads, slots or indices; `JobQueue` instantiates it |
| `JobQueueProofs` | the theorems of `JobQueue`, the refinement among them |
| `IonCompile` | off-thread Ion compilation: the JavaScript thread and the helper threads |
| `Bridge` | the entry points, the callbacks into Java and the pending exception |
| `LocalRefs` | the JNI local references and string buffers of the entry points, callbacks and reports |
| `Lifecycle` | load, initialisation with its failures, unload, and the trace marker |
| `IonCompileProofs`, `BridgeProofs`, `LocalRefsProofs`, `LifecycleProofs` | the theorems of these four |

The runs check these specifications directly; each `MC*.cfg` gives one instance.

### IdleNotification

`MIN_EXECJS_COUNT` (100 in the code) and `MAX_EXECJS_COUNT` (`LONG_MAX`) are
constants; `samplingBegin`, `denomValue` and `samplingExecJSCountMax` have the
code's values.  The C variables are unsigned longs, and no sum the code forms
exceeds `LONG_MAX + 5`, so the only wrap is the explicit one, which is modelled.
`Suppressed`, `WarmUp`, `BeforeSampling`, `StartSampling` and `Sample` are the
five paths of `needIdleNotification`; `MarkupState` is the JavaScript global of
that name; `ResetIdleNotificationCount` is the call in `native_initFramework`,
which happens once.  `notified`, `sinceGC`, `idleGCs`, `calls` and `sampled` are
history variables, capped just above every value a property tells apart.  `sampled`
counts the calls since sampling began, also after the policy has switched itself off.

The comment above `needIdleNotification` and its code disagree at the boundary: the
comment stops "if the times are greater than upper limit of 10", the code at line 1432
when they are equal to it (`>=`).  `SampledAsCommented` states the comment's rule of
what can be seen: of the sampled calls those collect that are a multiple of three and not
greater than ten.  It holds, as ten is no multiple of three: the code's one call less
makes no difference.

### JobQueue

The JavaScript thread is a stack of frames, one per native call; the top frame
is in its script (`script`) or in `DrainJobQueue` (`check`, `wait`, `sleep`,
`take`, `finish`, `finishing`, `jobs`, `job`).  JavaScript runs in `script`,
`finishing` and `job`, and only there can it enqueue a job, start a task,
collect, or make a nested native call.  The entry points are one action,
`NativeCall`: to the queue they differ only in whether a failing script returns
without draining, which is `ScriptFails`.

Each step of the drain is an action.  The mutex of `asyncTasks` is held only
inside single steps.  The helper-thread lock is held across two steps, the test
of `outstanding` and the wait (`HelperLockHeld`), and a helper thread's loop
steps need it.  A helper thread that comes back from a task (`relock`) takes the
lock, notifies CONSUMER and looks for work without releasing it, so these are one
step.  Condition variables wake spuriously, on both sides.

`MayFail` lets the two vector appends of a hand-over fail: the worklist's, in
`StartPromiseTask`, and the finished list's, in `ShellFinishAsyncTaskCallback`.
`MayUnload` lets Java unload the library between native calls; the ShellContext
is then deleted, and what a helper thread does to it afterwards is undefined:
nothing, or a crash.  `finish()` on a deleted task is undefined in the same way.
An append to `jobQueue` that fails leaves the queue as it was and throws in
JavaScript: no step of its own.

`task`, `enqueued` and `ran` are history variables: jobs are numbered as they
are enqueued, and `ran` is the last one run.

### PromiseQueue

The abstract queue has four variables: the native calls on the stack, which of
them drains, and how many jobs have been enqueued and run.  A call begins to
drain only if none does; it runs the next job only while it is on top; it returns
only when no job is left.  The refinement mapping takes `depth` for the calls and
`Drainer`, the position of the frame in the job loop, for the one that drains.
Everything else `JobQueue` does, from starting tasks to waiting, finishing and
unloading, is a stutter.

### IonCompile

The JavaScript thread is at one place, `main`: in JavaScript (`js`), between
`StartOffThreadIonCompile` and the mark on the script (`mark`), in the interrupt
handler (`interrupted`, `attach`), in `LinkIonScript` after it has taken the builder
(`link`), in `CancelOffThreadIonCompile` (`cancel`, `cancelWait`, `cancelWoken`,
`cancelled`), or unloading.  Linking can collect garbage or change types and so
cancel (`MayInvalidate`), and `InvokeInterruptCallback` collects garbage if asked to
after the interrupt flag has been cleared and before it attaches (`MayCollect`);
`cancelReturn` says where to go on.  A helper thread is at the top of its
loop with the lock (`top`) or without it (`ready`), waiting on PRODUCER (`idle`),
compiling, waiting on PAUSE (`paused`) or woken from it (`resumed`).  Steps that
need the helper-thread lock have `LockFree` as guard; the lock is held across two
steps only in two places, named there.

A builder has its script, whether that had code when it was built, its code or
none, and the script's warm-up count, which stands for the quotient that
`IonBuilderHasHigherPriority` compares and may change at any time.  The two vectors
of builders are sets: their order only breaks ties, and the model breaks them
either way.  There is one limit, one unpaused compilation at a time, which is
`maxUnpausedIonCompilationThreads`.  A compilation may fail or succeed, a link may
fail or succeed, and `ForbidCompilation`, an invalidation of one script, a discard
of all code and a cancellation by a minor collection may come at any time.
`FinishOffThreadBuilder` never disables a script: a builder on the worklist has
`AbortReason_NoAbort`, which `IonBuilder::build` sets last.  Waits are loops that
test again, so a spurious wake-up adds nothing but steps and is left out here.

### Bridge

The stack of native calls again, now with what they do about exceptions.  The
context has one pending exception, which stays until it is cleared or replaced.
A frame is converting its arguments (`args`), in the JavaScript it runs (`js`,
`version`, `finishing`, `job`), at a place that asks `JS_IsExceptionPending`
(`badArgument`, `called`, `evaluated`, `failed`, `versioned`) or draining; `java`
says which Java method it is in, if any, and only then can Java make a nested
call.  `saved` is what the frame's `AutoSaveExceptionState` holds: one surrounds
each script of `ExecuteJavaScript` and each promise job.  Its destructor keeps a
newer exception.  A JavaScript `try` that catches clears whatever was pending.

Exceptions are numbered; the history `exceptions` has, for each, the call that
raised it and how, whether that was `native_execJS` before it asks for the pending
exception (`InFunction`), the call that reported it first and whether it was cleared
after a report.  `ToStringThrows`, `NamespaceAborts` and `ReportCrashes` are the
places where the code ends the process.  Which jobs and tasks there are is left to
`JobQueue`: here a drain may always find another one.  `MaxRaised` bounds the
exceptions; beyond it nothing throws any more.

### LocalRefs

Each native call has a frame of local references that the virtual machine frees
when the call returns.  The stack holds activations of native calls and of the
functions that share their frame: the six callbacks that make references,
`reportException` and `setJSFVersion`.  `Params` lists the references a function
makes, in the code's order, with the conversion that makes each; `Deleted` lists
those it deletes.  JavaScript runs in a conversion (`toString`, `toJSON`) as well as
in scripts and jobs, and may make the next callback from there; Java may re-enter
a native method, with a frame of its own.  What a function holds and does not
delete is `lost` in the frame, a bag.  Buffers of characters (`func`, `_namespace`,
the script's source, the keys of the options) are tracked the same way.  What is done
with a reference between its making and its end is not tracked.  The frame is the virtual
machine's and external to the repository; it is modelled from the
JNI calls in `weexion.cpp`.  Exceptions are `Bridge`'s: here a report may happen
wherever the code can reach one.

### Lifecycle

`library` and `init` follow `JNI_OnLoad`, the steps of `native_initFramework` and
`JNI_OnUnload`; each step of the initialisation is an action with its success and
its failure.  `JNI_OnLoad` may find any of its three classes or none: `FindClass`
answers NULL and only `jBridgeClazz` is tested, by `registerNativeMethods`.  A call of
`native_execJS` or `native_execJSService` without a context or a global object crashes,
and so does `JS_ShutDown` on an engine that was never initialised.  Where the fields of a
`WXJSObject` are read although its class was not found (`FieldsFound`), an argument of
`native_execJS` or the result of `callNativeModule`, the process ends too.  The stack has one entry per native call or callback, with
a `TraceScope` where the code has one; `events` counts begin events less end
events in the marker file, which `StartATrace` opens or not.

## Runs

| Run | Shows | Instance |
|---|---|---|
| `idle_policy` | ranges, collections per epoch and their spacing, silent warm-up, sampling as commented | warm-up of 4 calls, wrap at 40 |
| `job_queue` | the safety properties of the queue, the life of tasks, and that it implements `PromiseQueue` | 2 tasks, 2 threads, 3 jobs, depth 3 |
| `job_queue_live` | the count and the wake-up survive failing appends; the wait ends, calls return, shutdown returns | 2 tasks, 2 threads, 1 job, depth 2 |
| `task_oom` (violation) | a failed worklist append makes the drain finish a deleted task | 1 task, 1 thread |
| `ion` | one owner per builder, the script's state, complete cancellations, wake-ups, notice of finished builders | 3 scripts, 2 threads, 3 builders |
| `ion_live` | every compilation gets through, every cancellation returns | 2 scripts, 2 threads, 3 builders |
| `ion_unload` (violation) | the shutdown joins a paused thread for ever | 3 scripts, 2 threads, 3 builders |
| `bridge` | a failing call's own error is reported first by that call; scripts and jobs see no older exception; what was raised in a `native_execJS` is reported during it or never; a cleared one never returns | depth 3, 3 calls, 2 exceptions |
| `bridge_report` (violation) | a thrown object that is no Error crashes the report | depth 2, 2 calls, 1 exception |
| `local_refs` | what callbacks, reports and native calls leave in a frame, buffers released | 4 activations, 2 callbacks with 0 or 5 arguments, 1 argument, 1 option |
| `local_refs_args` (violation) | a callback reads past its arguments | 1 callback with 2 or 3 arguments |
| `lifecycle` | JavaScript runs only with what the callbacks and the queue use untested; the first context stays the only one; trace events pair up | depth 6 |

Why the bounds are enough.  In the idle policy only distances between counters
matter; a warm-up of 4 and a wrap at 40 leave room for full epochs before, at and
across the wrap (an epoch is 15 calls).  In the queue, two tasks and two threads
give one task handed back while another runs, and one thread woken while the
other takes the task; depth 3 gives a nested call inside a nested call from each
of the three places where JavaScript runs; two or three jobs give a job enqueued
by a job.  In the compilations, two threads are enough to pause one another and
three builders put a third on the worklist while one is paused and one runs, which
is where the decision to unpause is made; warm-up counts 0 and 1 give every order
and every tie; a lazy link list of one makes the third attach link the oldest; three
scripts let all three compile at once, two let a recompilation follow a link.  Three
builders are too few for one thing: `EveryCompileFinishes` says that a builder gets
through once the supply of better ones ends.  Scripts that never stopped starting
builders of higher priority could starve it, and no finite number of builders shows that.
Script names are a symmetry set in the safety run only.  In `LocalRefs`, four
activations are a native call, a callback in it, and a nested native call or a
second callback from a conversion, with one more inside; 0 and 5 arguments are none
of a callback's and all of them.  In the bridge, depth 3 with 2 exceptions gives an exception saved by a
script while a nested call raises and reports another, and a third call that finds
what they leave.  In the life cycle, depth 6 is three native calls, each nested in
the other's callback; retries of the initialisation are unbounded.  All safety
properties of the passing runs are also proved, for every instance.
No run but `idle_policy` checks deadlock: an unloaded or crashed library stops, and
so does one that has used up its calls or its builders.  That nobody waits for ever
is said by `WaitersHaveWakers`, `NoLostWakeup` and the liveness properties.

Fairness of `IonCompile!FairSpec`, used by `ion_live` and `ion_unload`: weak
fairness of each helper thread and of what the JavaScript thread has begun, which
is what scheduling gives.  Running JavaScript owes nothing: it need not link, take
an interrupt or stop cancelling.

Fairness of `JobQueue!FairSpec`, used by `job_queue_live`.  Weak fairness of
the native steps of each running thread: the operating system schedules runnable
threads.  Strong fairness of a helper thread's loop steps: a mutex that becomes
free again and again is acquired eventually, although the JavaScript thread may
take it after every spurious wake-up.  Strong fairness of the end of every piece
of JavaScript, per depth: scripts terminate, also when they make nested calls in
between.  The last is an assumption about scripts, not about the bridge: a script
that loops for ever never returns, and the properties claim nothing of it.
Nothing is assumed about Java calling or unloading.

Every property of a passing run is also tried against a mistake in the code (the
definitions named in the header comments, such as `CheckOnce` or
`StartSamplingAtOne`): each property fails on its mutant.

## What is proved

Every invariant, every action property and the refinement that a passing run checks
is also a theorem.  The theorems hold for every value of the constants that satisfies
the modules' assumptions (the named `ASSUME` of each: bounds are natural numbers,
scripts and tasks are finite sets that do not contain the value for none, there is a helper
thread, and the idle policy's wrap lies beyond its warm-up and one sampling), and rest on
nothing else; one, `FinishedAreLive`, has a hypothesis besides.  Each proof module has an inductive invariant `IInv`, a
lemma that the initial states satisfy it, one that every step keeps it, with one case
per action, and the theorems follow from it.

`IdleNotificationProofs`.  The type invariant, `SilentWarmUp`, `GCBudget` and the action
properties `SampledAsCommented` and `SpacedInEpoch`.  The budget is not inductive: the invariant
`EpochInv` says, for each phase of an epoch, how many collections have happened
as a function of the counters, with `sinceGC` tied to the counter's residue
modulo three.  `DeadBranch` shows that the test at line 1422 never holds where it
stands.

`JobQueueProofs`.  The type invariant, `OutstandingCounts`,
`ListFixedWhenTaken`, `NoLostWakeup`, `QueuedTaskServed`, `OneJobLoop` and the
action properties `JobsInOrder` and `NoJobLeftBehind`.  The inductive invariant
`IInv` adds to them:

* `StackInv`: every frame below the top is at a place where JavaScript runs, and
  all frames above one in the job loop are in their script (a nested call cannot
  enter the drain while the flag is set);
* `QueueInv`: between drains the queue is exactly the jobs `ran+1 .. enqueued`;
  inside the loop the slots before the index are nulled and those from the index
  on are the jobs not yet run.  Order and completeness follow from it;
* `TaskInv`: a task that has been started is in exactly one place among the
  dispatching call, the worklist and the threads, which makes `outstanding` the
  cardinality of `Busy` and every decrement safe;
* `TakeInv` and `DispatchInScript`: `outstanding` is still zero when the list is
  taken, as only running JavaScript starts tasks.

Each component of `IInv` has one lemma that every step preserves it, with one
step per action.

`QueueImplemented` is the refinement: `Spec => ImplementsQueue`, that is,
`PromiseQueue`'s specification under the mapping above, for every value of the
constants.  `OneJobLoop` makes `Drainer` well defined (`DrainerNamed`), `StackInv`
shows that only the top frame can be it when a job runs or the drain ends, and
`QueueInv` gives the abstract guards `ran < enqueued` and `ran = enqueued` from the
index and the slots.  `QueueStep` has one case per action.

`FinishedAreLive` says `FinishedTasksLive` under the hypothesis `MayFail = FALSE`;
without it the property is false, which is what `task_oom` shows.  `LiveInv` follows a
task from its start: it is on its way to the callback (`Busy`), in the shared list or in
the list that one call has taken, in one of these and once, until `FinishReturns`
deletes it.  That no list has duplicates is needed for the step that deletes: a second
copy further on in the list would be dead.

`LifecycleProofs`.  `TypeOK`, `CallsFindEverything`, `TracePaired` and the action
property `ContextKept`, at any depth.  `CallsFindEverything` is about states with a
stack and so says nothing of the initialisation that precedes them: `BuildInv` says what
each step of `native_initFramework` may rely on, `StaticsInv` that a global object
implies everything the calls use, whatever failed before and whichever of the other
classes was not found, and `StackInv` that nothing is
called without a global object and that `native_initFramework` is at the bottom of the
stack and only while its script runs.  The events are counted by the cardinality of the
open scopes, to which a call adds one and a return takes it away.

`BridgeProofs`.  `TypeOK`, `OwnErrorsReported`, `ClearedForGood` and the action properties
`ScopesIsolate` and `FunctionErrorsContained`.  `IsolateInv` says that what is pending, saved in a frame or being
reported was raised inside every guarded scope around it (`Younger`): exceptions are
numbered as they are raised, so that it is enough to compare with the count when the
scope was entered.  An `AutoSaveExceptionState` that restores then never restores
something younger than itself, nor something that was cleared meanwhile.  `OwnInv` says
that an exception of a call's own which has not been reported is pending and that the
call is on top of the stack and about to ask for it (`AboutToReport`): nothing can happen between
the throw and the test but the end of the process.  `TopStep` and the lemmas after it
treat the three ways a step changes the stack once for all actions.  For
`FunctionErrorsContained`, `ContainInv` says where an exception of a `native_execJS` can
be before that call has asked for it: pending over its frame, or saved in a frame above it.
It is proved on top of `IInv`.

`IonCompileProofs`.  `TypeOK`, `OneBuilderPerScript`, `ScriptStateAgrees`,
`CancelComplete`, `WaitersHaveWakers` and `FinishedNoticed`, for any scripts, any number
of helper threads, builders and warm-up counts.  They are conjuncts of `IInv`; none is inductive
alone.  `ThreadInv` (a thread has a builder exactly while it compiles) and `FreshInv`
(unallocated builders have no script) keep a new builder apart from all others;
`LinkInv` says that a link has its builder until it ends, also during a cancellation it
causes, and that only a cancellation has a place to return to; `MarkInv` bridges the two steps between the worklist and the mark on the script;
`TerminateInv` says that no thread exits while the library is loaded, without which
nobody would be left to wake.  For `WaitersHaveWakers` a thread that ends a compilation
either unpauses another or leaves a builder that is taken by itself, as it is at the top
of its loop: `HighestExists` gives the builder of highest priority that both decisions
speak of.  The removal from the lazy link list is a function on positions (`Nth`,
`ionLazyLinkListRemove`), so that what it leaves can be proved without induction
(`NthExists`, `RemovedList`): the builders that were not removed.

`LocalRefsProofs`.  `TypeOK`, `OnlyResultsLost` and `BuffersReleased`, for any nesting and any number of callbacks, arguments and options.  `ActivationOK` says of each
activation what it may hold where it is: a function only what it will delete
(`ParamFacts`: every reference a function makes it also deletes), a native call only the
buffers of the block it is in (`CharsAt`), and only the bottom of the stack
is `native_initFramework`.  `FrameInv` says that there are as many frames as native
calls on the stack, so that a function that returns loses its references in the frame of
the call that runs it, and a native call that returns takes its own frame away.
`Losing` says what losing a set of references does to a bag: the references become
members, and the copies of the result grow by one or not at all.

Only model-checked: the liveness properties (`WaitEnds`, `CallsReturn`,
`ShutDownReturns`, `EveryCompileFinishes`, `CancelReturns`), as reasoning about fairness
and `ENABLED` is outside the prover's reach; the safety they rest on, that no wake-up is
lost, is proved.  The four violations are counterexamples and need no proof.

## What the violations show

1. `task_oom`: `StartPromiseTask` hands a task back and deletes it.
2. `bridge_report`: `throw {}` reaches `ReportException`, which dereferences null.
3. `ion_unload`: thread 2 is paused, thread 1 has been told to terminate and ends its
   compilation while a builder of equal priority is pending.  It does not unpause
   thread 2, as somebody will start that builder, and exits; nobody does, and
   `destroy` joins thread 2 for ever.
4. `local_refs_args`: `getArgumentAsJByteArray` and its JSON kin read an argument
   without asking how many there are.

Observations that the models contain as steps but no run singles out:

* `JNI_OnUnload` deletes the ShellContext with accepted tasks in its finished list
  (`JobQueue!Unload`); `jsapi.h:4623` wants each finished or cancelled.  A helper thread
  still in a task then hands it to the deleted object (`JobQueue!HelperFinishDeleted`).
* The exception of a failed script or promise job stays pending (`Bridge!ScriptFailed`,
  `Bridge!JobThrows`): a later `native_execJS` reports it under its own instance and
  returns false, unless JavaScript or a later job replaces it before.
  `FunctionErrorsContained` is about the other exceptions, and `ClearedForGood` says that
  it ends there.
* A retry of `native_initFramework` after `JS_NewContext` has failed calls `JS_Init` a
  second time (`Lifecycle!JS_Init`), which the engine asserts against.
* If `FindClass` does not find `WXJSObject` the library loads all the same, and the first
  argument or result is read through a null class (`Lifecycle!FieldsFound`).
* Nested drains are ignored only once the job loop has begun; one made while tasks
  are finished runs.  `ImplementsQueue` shows that this does no harm to the jobs.
* A callback whose JSON argument or result does not convert returns true with an
  exception pending (`Bridge!Convert`, `Bridge!JavaReturns`), which the engine's debug
  build asserts against.
* Unloading before initialisation calls `JS_ShutDown` without `JS_Init`
  (`Lifecycle!JNI_OnUnload`).
* `OnlyResultsLost` and `BuffersReleased` name their exceptions: each module call leaves
  its result in the frame, `initWXEnvironment` leaves four references and the keys'
  characters, `StartATrace` the trace class.
* Two references are used after their end, which LocalRefs does not follow: `StopATrace`
  (`Trace.cpp:85`) deletes the trace class of a frame long gone, and the early return
  of `native_execJS` (line 1277) deletes `jDataObj` before the destructor of `scopedStr`
  releases its characters through it.
* After an unselected thread has been unpaused for a cancellation more compilations
  than the limit may run for a while; nothing depends on the limit but speed.

Two provisos in the idle policy's properties matter: `GCBudget` holds for epochs
that end before the wrap, as the wrap does not move `lastExecJSCount` and an epoch
that meets it goes on collecting; and `SpacedInEpoch` is about one epoch, as a
markup re-bases the count and may bring two collections closer.

## Not modelled

The engine's other helper-thread work (asm.js and wasm compilation, parsing, source
compression, the collector's), its interpreter, compilers and collector: some nine
hundred thousand vendored lines, of which a faithful model can only ever cover the
few that the bridge makes run concurrently.  Of `IonCompile` the compiler's own phases,
inlining, on-stack replacement and the debugger.  String conversion, logging, the
values of WXEnvironment's properties; `native_takeHeapSnapshot`, which is empty; the
capacity of the virtual machine's reference table; which objects a compacting
collection moves (`_globalObject` is a static that no tracer updates).

## Plan

Done: all modules above, `PromiseQueue` and the refinement, and proofs of every safety
property that the passing runs check.  Left:

1. A composition of the entry points' exceptions with the queue's jobs (`Bridge`
   over `PromiseQueue`), and of `native_execJS` with the idle policy.
2. An abstract specification of a compilation's life (built, finished, linked or
   cancelled) that `IonCompile` implements, with its refinement proved.
