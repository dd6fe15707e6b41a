----------------------------- MODULE IonCompile -----------------------------
(***************************************************************************)
(* Off-thread Ion compilation.  The JavaScript thread builds an IonBuilder *)
(* for a hot script and puts it on the helper threads' worklist; a helper  *)
(* thread compiles it and puts it on the finished list; the JavaScript     *)
(* thread, interrupted, attaches it to the script's baseline code and the  *)
(* lazy link list, and links it when the script is next entered.           *)
(*                                                                         *)
(* Only one compilation should run at a time: a thread that starts a       *)
(* builder of higher priority pauses the one that runs, and a thread that  *)
(* ends one unpauses another.  A garbage collection, an invalidation or an *)
(* abort cancels the compilations of some scripts and waits for them.      *)
(* JNI_OnUnload stops the helper threads one by one and cancels nothing.   *)
(*                                                                         *)
(* Abstracted: the bridge has one runtime, one compartment and the single  *)
(* optimization level Normal; every script has baseline code; the two      *)
(* vectors of builders are sets, for their order only breaks ties; the     *)
(* other work of the helper threads is left out (JobQueue has the promise  *)
(* tasks), and so is whether a script's type constraints still hold: an    *)
(* invalidation may come at any time.                                      *)
(*                                                                         *)
(* RecompileAgain, KeepPendingIonBuilder, WaitOnce, NotifyNoPaused,        *)
(* StayPaused, KeepPauseFlag, NoInterrupt and NotifyNoConsumer are no part *)
(* of the specification: each is the definition after it with a mistake,   *)
(* and the properties are tried against them.                              *)
(***************************************************************************)
EXTENDS Naturals, Sequences, FiniteSets, SequencesExt

CONSTANTS
  Scripts,      \* the scripts hot enough to be compiled
  NumThreads,   \* helper threads; SetFakeCPUCount(2) makes six
  MaxBuilders,  \* bound on the compilations started
  MaxWarmUp,    \* bound on a script's warm-up count, relative to its length
  LazyMax       \* builders kept for lazy linking; 100 in the code

ASSUME IonCompileAssumption ==
  /\ IsFiniteSet(Scripts)
  /\ 0 \notin Scripts
  /\ NumThreads \in Nat \ {0}
  /\ MaxBuilders \in Nat
  /\ MaxWarmUp \in Nat
  /\ LazyMax \in Nat

Threads == 1..NumThreads

Builders == 1..MaxBuilders

None == 0   \* no builder, no script

VARIABLES
  main,           \* where the JavaScript thread is
  linkReturn,     \* where LinkIonScript returns to
  cancelReturn,   \* where the caller of CancelOffThreadIonCompile goes on
  selected,       \* the scripts being cancelled
  afterCancel,    \* what its caller does to them afterwards
  linking,        \* the builder LinkIonScript works on
  ion,            \* JSScript::ion
  recompiling,    \* IonScript::recompiling_
  pendingBuilder, \* BaselineScript::pendingBuilder_
  started,        \* builders allocated so far
  script,         \* IonBuilder::script()
  hadIonScript,   \* IonBuilder::scriptHasIonScript_
  warmUp,         \* the script's warm-up count, relative to its length
  codegen,        \* IonBuilder::backgroundCodegen() is not null
  ionWorklist,    \* GlobalHelperThreadState::ionWorklist_
  finishedList,   \* GlobalHelperThreadState::ionFinishedList_
  lazyLinkList,   \* JSRuntime::ionLazyLinkList_, youngest first
  interrupt,      \* JSRuntime::interrupt_
  helper,         \* helper[t]: where thread t is
  ionBuilder,     \* HelperThread::ionBuilder()
  pause,          \* HelperThread::pause
  terminate       \* HelperThread::terminate

callVars == <<linkReturn, cancelReturn, selected, afterCancel, linking>>

scriptVars == <<ion, recompiling, pendingBuilder>>

builderVars == <<started, script, hadIonScript, warmUp, codegen>>

threadVars == <<helper, ionBuilder, pause, terminate>>

vars == <<main, callVars, scriptVars, builderVars, ionWorklist, finishedList,
          lazyLinkList, interrupt, threadVars>>

Init ==
  /\ main = "js"
  /\ linkReturn = "js"
  /\ cancelReturn = "js"
  /\ selected = {}
  /\ afterCancel = "nothing"
  /\ linking = None
  /\ ion = [s \in Scripts |-> "none"]
  /\ recompiling = [s \in Scripts |-> FALSE]
  /\ pendingBuilder = [s \in Scripts |-> None]
  /\ started = 0
  /\ script = [b \in Builders |-> None]
  /\ hadIonScript = [b \in Builders |-> FALSE]
  /\ warmUp = [b \in Builders |-> 0]
  /\ codegen = [b \in Builders |-> FALSE]
  /\ ionWorklist = {}
  /\ finishedList = {}
  /\ lazyLinkList = <<>>
  /\ interrupt = FALSE
  /\ helper = [t \in Threads |-> "ready"]
  /\ ionBuilder = [t \in Threads |-> None]
  /\ pause = [t \in Threads |-> FALSE]
  /\ terminate = [t \in Threads |-> FALSE]

(***************************************************************************)
(* The helper-thread lock is held across two of the model's steps in two   *)
(* places: a thread that has ended a compilation goes back to the top of   *)
(* its loop with it, and AttachFinishedCompilations keeps it from one      *)
(* builder to the next.                                                    *)
(***************************************************************************)
LockFree == main # "attach" /\ \A t \in Threads : helper[t] # "top"

-----------------------------------------------------------------------------
(***************************************************************************)
(* Priorities.                                                             *)
(***************************************************************************)

\* The optimization levels are equal.
IonBuilderHasHigherPriority(first, second) ==
  IF hadIonScript[first] # hadIonScript[second]
  THEN ~hadIonScript[first]
  ELSE warmUp[first] > warmUp[second]

highestPriorityPendingIonCompile ==
  {b \in ionWorklist :
     \A c \in ionWorklist : ~IonBuilderHasHigherPriority(c, b)}

Unpaused == {t \in Threads : ionBuilder[t] # None /\ ~pause[t]}

Paused == {t \in Threads : pause[t]}

\* Empty below the limit of one unpaused compilation.
lowestPriorityUnpausedIonCompileAtThreshold ==
  {t \in Unpaused :
     \A u \in Unpaused : ~IonBuilderHasHigherPriority(ionBuilder[t], ionBuilder[u])}

highestPriorityPausedIonCompile(paused) ==
  {t \in paused :
     \A u \in paused : ~IonBuilderHasHigherPriority(ionBuilder[u], ionBuilder[t])}

pendingIonCompileHasSufficientPriority ==
  /\ ionWorklist # {}
  /\ \/ Unpaused = {}
     \/ \E b \in highestPriorityPendingIonCompile,
           t \in lowestPriorityUnpausedIonCompileAtThreshold :
          IonBuilderHasHigherPriority(b, ionBuilder[t])

-----------------------------------------------------------------------------

(***************************************************************************)
(* The JavaScript thread: building, attaching and linking.                 *)
(***************************************************************************)

InThreads == {ionBuilder[t] : t \in Threads} \ {None}

OffThread == ionWorklist \union InThreads \union finishedList

Lazy == Range(lazyLinkList)

BuildersOf(scripts, builders) == {b \in builders : script[b] \in scripts}

\* Deletes the builders' allocators, and with them everything they hold.
Delete(builders) ==
  /\ script' = [b \in Builders |-> IF b \in builders THEN None ELSE script[b]]
  /\ hadIonScript' = [b \in Builders |-> b \notin builders /\ hadIonScript[b]]
  /\ warmUp' = [b \in Builders |-> IF b \in builders THEN 0 ELSE warmUp[b]]
  /\ codegen' = [b \in Builders |-> b \notin builders /\ codegen[b]]

\* Scripts run and are reset, and the priorities of their compilations change
\* on the fly.  The count of a script not being compiled is never read.
WarmUp(b, count) ==
  /\ main = "js"
  /\ b \in ionWorklist \union InThreads
  /\ warmUp' = [warmUp EXCEPT ![b] = count]
  /\ UNCHANGED <<main, callVars, scriptVars, started, script, hadIonScript, codegen,
                 ionWorklist, finishedList, lazyLinkList, interrupt, threadVars>>

RecompileAgain(s, force) ==
  /\ main = "js"
  /\ IF force THEN ion[s] = "ion" ELSE ion[s] = "none" /\ pendingBuilder[s] = None

\* CanEnter, BaselineCanEnterAtEntry, BaselineCanEnterAtBranch and Recompile
\* reach IonCompile for a script without code or, forced, for one with code
\* that is not being recompiled.
Compile(s, force) ==
  /\ main = "js"
  /\ IF force
     THEN ion[s] = "ion" /\ ~recompiling[s]
     ELSE ion[s] = "none" /\ pendingBuilder[s] = None

\* Some thread that waits on PRODUCER is woken, if there is one.
NotifyOneProducer ==
  \/ /\ \A t \in Threads : helper[t] # "idle"
     /\ UNCHANGED helper
  \/ \E t \in Threads :
       /\ helper[t] = "idle"
       /\ helper' = [helper EXCEPT ![t] = "ready"]

\* IonCompile up to the end of StartOffThreadIonCompile.  A first
\* compilation has yet to mark the script.
IonCompile(s, recompile) ==
  /\ Compile(s, recompile)
  /\ started < MaxBuilders
  /\ LockFree
  /\ started' = started + 1
  /\ script' = [script EXCEPT ![started'] = s]
  /\ hadIonScript' = [hadIonScript EXCEPT ![started'] = recompile]
  /\ \E count \in 0..MaxWarmUp : warmUp' = [warmUp EXCEPT ![started'] = count]
  /\ recompiling' = [recompiling EXCEPT ![s] = recompile]
  /\ ionWorklist' = ionWorklist \union {started'}
  /\ NotifyOneProducer
  /\ main' = IF recompile THEN "js" ELSE "mark"
  /\ UNCHANGED <<callVars, ion, pendingBuilder, codegen, finishedList,
                 lazyLinkList, interrupt, ionBuilder, pause, terminate>>

\* The rest of IonCompile, without the lock.
MarkCompiling ==
  /\ main = "mark"
  /\ main' = "js"
  /\ ion' = [ion EXCEPT ![script[started]] = "compiling"]
  /\ UNCHANGED <<callVars, recompiling, pendingBuilder, builderVars,
                 ionWorklist, finishedList, lazyLinkList, interrupt, threadVars>>

\* A recompilation is given up before the worklist: the build aborts for
\* inlining or preliminary objects, or memory runs out.  (A first one that
\* is given up leaves no trace.)
AbortRecompile(s) ==
  /\ Compile(s, TRUE)
  /\ recompiling' = [recompiling EXCEPT ![s] = TRUE]
  /\ UNCHANGED <<main, callVars, ion, pendingBuilder, builderVars,
                 ionWorklist, finishedList, lazyLinkList, interrupt, threadVars>>

\* The interrupt check of running code clears the flag and goes on to
\* InvokeInterruptCallback.
handleInterrupt ==
  /\ main = "js"
  /\ interrupt
  /\ interrupt' = FALSE
  /\ main' = "interrupted"
  /\ UNCHANGED <<callVars, scriptVars, builderVars, ionWorklist, finishedList,
                 lazyLinkList, threadVars>>

AttachLock ==
  /\ main = "interrupted"
  /\ LockFree
  /\ main' = "attach"
  /\ UNCHANGED <<callVars, scriptVars, builderVars, ionWorklist, finishedList,
                 lazyLinkList, interrupt, threadVars>>

\* One builder: setPendingIonBuilder and ionLazyLinkListAdd.
AttachFinishedBuilder(b) ==
  /\ main = "attach"
  /\ Len(lazyLinkList) <= LazyMax
  /\ b \in finishedList
  /\ finishedList' = finishedList \ {b}
  /\ ion' = [ion EXCEPT ![script[b]] = IF @ = "compiling" THEN "pending" ELSE @]
  /\ pendingBuilder' = [pendingBuilder EXCEPT ![script[b]] = b]
  /\ lazyLinkList' = <<b>> \o lazyLinkList
  /\ UNCHANGED <<main, callVars, recompiling, builderVars, ionWorklist,
                 interrupt, threadVars>>

AttachDone ==
  /\ main = "attach"
  /\ Len(lazyLinkList) <= LazyMax
  /\ finishedList = {}
  /\ main' = "js"
  /\ UNCHANGED <<callVars, scriptVars, builderVars, ionWorklist, finishedList,
                 lazyLinkList, interrupt, threadVars>>

\* The n-th smallest of a set of numbers.
Nth(numbers, n) == CHOOSE k \in numbers : Cardinality({j \in numbers : j <= k}) = n

\* ionLazyLinkListRemove of each of the builders.
ionLazyLinkListRemove(list, builders) ==
  LET kept == {k \in 1..Len(list) : list[k] \notin builders}
  IN  [n \in 1..Cardinality(kept) |-> list[Nth(kept, n)]]

KeepPendingIonBuilder(s) == UNCHANGED pendingBuilder

removePendingIonBuilder(s) == pendingBuilder' = [pendingBuilder EXCEPT ![s] = None]

\* LinkIonScript takes the builder off the script and the list; if there is
\* code to link, the old code is invalidated first.
LinkIonScript(s, ret) ==
  LET b == pendingBuilder[s]
  IN  /\ main' = "link"
      /\ linkReturn' = ret
      /\ linking' = b
      /\ removePendingIonBuilder(s)
      /\ lazyLinkList' = ionLazyLinkListRemove(lazyLinkList, {b})
      /\ ion' = [ion EXCEPT ![s] = IF codegen[b] \/ @ = "pending" THEN "none" ELSE @]
      /\ recompiling' = [recompiling EXCEPT ![s] = @ /\ ~codegen[b]]
      /\ UNCHANGED <<cancelReturn, selected, afterCancel, builderVars,
                     ionWorklist, finishedList, interrupt, threadVars>>

\* CanEnter, LazyLinkTopActivation and BaselineCanEnterAtBranch.
LinkOnEntry(s) ==
  /\ main = "js"
  /\ pendingBuilder[s] # None
  /\ LockFree
  /\ LinkIonScript(s, "js")

\* AttachFinishedCompilations unlocks and links the oldest.
LinkOldest ==
  /\ main = "attach"
  /\ Len(lazyLinkList) > LazyMax
  /\ LinkIonScript(script[Last(lazyLinkList)], "interrupted")

\* CodeGenerator::link installs the code or fails; the builder is finished.
FinishLink ==
  LET s == script[linking]
  IN  /\ main = "link"
      /\ LockFree
      /\ \E linked \in {codegen[linking], FALSE} :
           /\ ion' = [ion EXCEPT ![s] = IF linked THEN "ion" ELSE @]
           /\ recompiling' = [recompiling EXCEPT ![s] = FALSE]
      /\ Delete({linking})
      /\ linking' = None
      /\ main' = linkReturn
      /\ linkReturn' = "js"
      /\ UNCHANGED <<cancelReturn, selected, afterCancel, pendingBuilder,
                     started, ionWorklist, finishedList, lazyLinkList, interrupt,
                     threadVars>>

-----------------------------------------------------------------------------
(***************************************************************************)
(* The JavaScript thread: cancelling.                                      *)
(***************************************************************************)

\* Where types change: in running code and in LinkIonScript, with code to link.
MayInvalidate == main = "js" \/ (main = "link" /\ codegen[linking])

\* Garbage is also collected by gcIfRequested, between the clearing of the
\* interrupt and the attaching.
MayCollect == MayInvalidate \/ main = "interrupted"

\* A caller of CancelOffThreadIonCompile.
CallCancel(scripts, after) ==
  /\ main' = "cancel"
  /\ cancelReturn' = main
  /\ selected' = scripts
  /\ afterCancel' = after
  /\ UNCHANGED <<linkReturn, linking, scriptVars, builderVars, ionWorklist,
                 finishedList, lazyLinkList, interrupt, threadVars>>

\* A minor collection, or a major one that preserves code.
CancelAll == MayCollect /\ CallCancel(Scripts, "nothing")

\* discardJitCode, after a garbage collection or an OOM in type inference.
CancelAndDiscard == MayCollect /\ CallCancel(Scripts, "invalidate")

\* Invalidate and TypeZone::addPendingRecompile.
CancelAndInvalidate(s) == MayInvalidate /\ CallCancel({s}, "invalidate")

\* ForbidCompilation: its callers skip scripts disabled or compiling.
ForbidCompilation(s) ==
  /\ main = "js"
  /\ ion[s] \notin {"disabled", "compiling"}
  /\ CallCancel({s}, "forbid")

InProgress == {t \in Threads : ionBuilder[t] # None /\ script[ionBuilder[t]] \in selected}

WaitOnce == InProgress # {} /\ main = "cancel"

\* The condition of the loop that waits on CONSUMER.
WaitAgain == InProgress # {}

\* FinishOffThreadBuilder for each of the builders.  None has aborted: build()
\* ends with AbortReason_NoAbort before the builder goes off thread.
FinishOffThreadBuilder(builders) ==
  LET done(s) == \E b \in builders : script[b] = s
      wasPending(s) == pendingBuilder[s] \in builders
  IN  /\ pendingBuilder' = [s \in Scripts |->
           IF wasPending(s) THEN None ELSE pendingBuilder[s]]
      /\ ion' = [s \in Scripts |->
           IF \/ done(s) /\ ion[s] = "compiling"
              \/ wasPending(s) /\ ion[s] = "pending"
           THEN "none"
           ELSE ion[s]]
      /\ recompiling' = [s \in Scripts |-> recompiling[s] /\ ~done(s)]
      /\ Delete(builders)

NotifyNoPaused == UNCHANGED helper

\* The threads that wait on PAUSE are woken.
NotifyAllPaused ==
  helper' = [t \in Threads |-> IF helper[t] = "paused" THEN "resumed" ELSE helper[t]]

\* Some selected compilation is in progress: unpause those, and wait.
CancelInProgress ==
  /\ WaitAgain
  /\ finishedList' = finishedList \union BuildersOf(selected, ionWorklist)
  /\ pause' = [t \in Threads |-> pause[t] /\ t \notin InProgress]
  /\ IF \E t \in InProgress : pause[t] THEN NotifyAllPaused ELSE UNCHANGED helper
  /\ main' = "cancelWait"
  /\ UNCHANGED <<scriptVars, builderVars, lazyLinkList>>

\* None is: drop the finished ones and those kept for lazy linking.
CancelFinished ==
  LET finished == BuildersOf(selected, finishedList \union ionWorklist)
      lazy == BuildersOf(selected, Lazy)
  IN  /\ ~WaitAgain
      /\ FinishOffThreadBuilder(finished \union lazy)
      /\ finishedList' = finishedList \ finished
      /\ lazyLinkList' = ionLazyLinkListRemove(lazyLinkList, lazy)
      /\ main' = "cancelled"
      /\ UNCHANGED <<started, helper, pause>>

\* One turn of the loop of CancelOffThreadIonCompile, the lock held.  The
\* worklist is only scanned on the first; nothing is added to it later.
CancelOffThreadIonCompile ==
  /\ main \in {"cancel", "cancelWoken"}
  /\ LockFree
  /\ ionWorklist' = ionWorklist \ BuildersOf(selected, ionWorklist)
  /\ CancelInProgress \/ CancelFinished
  /\ UNCHANGED <<callVars, interrupt, ionBuilder, terminate>>

\* What the caller does next: invalidate the scripts' code or disable them.
AfterCancel ==
  /\ main = "cancelled"
  /\ main' = cancelReturn
  /\ cancelReturn' = "js"
  /\ selected' = {}
  /\ afterCancel' = "nothing"
  /\ ion' = [s \in Scripts |->
       CASE s \in selected /\ afterCancel = "forbid" -> "disabled"
         [] s \in selected /\ afterCancel = "invalidate" /\ ion[s] = "ion" -> "none"
         [] OTHER -> ion[s]]
  /\ recompiling' = [s \in Scripts |-> recompiling[s] /\ ion'[s] = "ion"]
  /\ UNCHANGED <<linkReturn, linking, pendingBuilder, builderVars, ionWorklist,
                 finishedList, lazyLinkList, interrupt, threadVars>>

-----------------------------------------------------------------------------
(***************************************************************************)
(* JNI_OnUnload: JS_ShutDown destroys the helper threads in order.         *)
(***************************************************************************)

Living == {t \in Threads : helper[t] # "exited"}

Unload ==
  /\ main = "js"
  /\ main' = "unload"
  /\ UNCHANGED <<callVars, scriptVars, builderVars, ionWorklist, finishedList,
                 lazyLinkList, interrupt, threadVars>>

\* HelperThread::destroy, up to the join.
destroy(t) ==
  /\ main = "unload"
  /\ t \in Living
  /\ \A u \in Living : t <= u
  /\ ~terminate[t]
  /\ LockFree
  /\ terminate' = [terminate EXCEPT ![t] = TRUE]
  /\ helper' = [u \in Threads |-> IF helper[u] = "idle" THEN "ready" ELSE helper[u]]
  /\ UNCHANGED <<main, callVars, scriptVars, builderVars, ionWorklist, finishedList,
                 lazyLinkList, interrupt, ionBuilder, pause>>

finishThreads ==
  /\ main = "unload"
  /\ Living = {}
  /\ main' = "down"
  /\ UNCHANGED <<callVars, scriptVars, builderVars, ionWorklist, finishedList,
                 lazyLinkList, interrupt, threadVars>>

-----------------------------------------------------------------------------
(***************************************************************************)
(* A helper thread.                                                        *)
(***************************************************************************)

AtLoop(t) == helper[t] = "top" \/ (helper[t] = "ready" /\ LockFree)

\* threadLoop returns.
ExitLoop(t) ==
  /\ AtLoop(t)
  /\ terminate[t]
  /\ helper' = [helper EXCEPT ![t] = "exited"]
  /\ UNCHANGED <<main, callVars, scriptVars, builderVars, ionWorklist, finishedList,
                 lazyLinkList, interrupt, ionBuilder, pause, terminate>>

\* threadLoop waits on PRODUCER.
WaitForWork(t) ==
  /\ AtLoop(t)
  /\ ~terminate[t]
  /\ ~pendingIonCompileHasSufficientPriority
  /\ helper' = [helper EXCEPT ![t] = "idle"]
  /\ UNCHANGED <<main, callVars, scriptVars, builderVars, ionWorklist, finishedList,
                 lazyLinkList, interrupt, ionBuilder, pause, terminate>>

\* handleIonWorkload up to the unlock: the thread takes the builder of
\* highest priority and pauses the compilation of lowest.
StartWorkload(t) ==
  /\ AtLoop(t)
  /\ ~terminate[t]
  /\ pendingIonCompileHasSufficientPriority
  /\ \E b \in highestPriorityPendingIonCompile :
       /\ ionWorklist' = ionWorklist \ {b}
       /\ ionBuilder' = [ionBuilder EXCEPT ![t] = b]
  /\ \/ /\ lowestPriorityUnpausedIonCompileAtThreshold = {}
        /\ UNCHANGED pause
     \/ \E other \in lowestPriorityUnpausedIonCompileAtThreshold :
          pause' = [pause EXCEPT ![other] = TRUE]
  /\ helper' = [helper EXCEPT ![t] = "compile"]
  /\ UNCHANGED <<main, callVars, scriptVars, builderVars, finishedList,
                 lazyLinkList, interrupt, terminate>>

\* CompileBackEnd asks shouldCancel, which waits on PAUSE while it is paused.
PauseCurrentHelperThread(t) ==
  /\ LockFree
  /\ \/ helper[t] = "compile" /\ pause[t]
     \/ helper[t] = "resumed"
  /\ helper' = [helper EXCEPT ![t] = IF pause[t] THEN "paused" ELSE "compile"]
  /\ UNCHANGED <<main, callVars, scriptVars, builderVars, ionWorklist, finishedList,
                 lazyLinkList, interrupt, ionBuilder, pause, terminate>>

StayPaused(other) == FALSE

\* "there isn't a higher priority builder which this thread or another can
\* start on": none has the same priority either.
MayUnpause(other) ==
  \A b \in ionWorklist : IonBuilderHasHigherPriority(ionBuilder[other], b)

KeepPauseFlag(t) ==
  /\ UNCHANGED pause
  /\ helper' = [helper EXCEPT ![t] = "top"]

\* The end of handleIonWorkload: a paused compilation goes on unless a
\* pending builder has the same or a higher priority.
UnpauseOther(t) ==
  LET rest == Paused \ {t}
      woken(u) == helper[u] = "paused"
  IN  \/ /\ \A other \in highestPriorityPausedIonCompile(rest) : ~MayUnpause(other)
         /\ pause' = [pause EXCEPT ![t] = FALSE]
         /\ helper' = [helper EXCEPT ![t] = "top"]
      \/ \E other \in highestPriorityPausedIonCompile(rest) :
           /\ MayUnpause(other)
           /\ pause' = [pause EXCEPT ![t] = FALSE, ![other] = FALSE]
           /\ helper' = [u \in Threads |-> CASE u = t -> "top"
                                             [] woken(u) -> "resumed"
                                             [] OTHER -> helper[u]]

NoInterrupt == UNCHANGED interrupt

requestInterrupt == interrupt' = TRUE

NotifyNoConsumer == UNCHANGED main

NotifyAllConsumer == main' = IF main = "cancelWait" THEN "cancelWoken" ELSE main

\* handleIonWorkload from the end of CompileBackEnd, which may have failed
\* or have been cancelled.
FinishWorkload(t) ==
  /\ helper[t] = "compile"
  /\ LockFree
  /\ \E ok \in BOOLEAN : codegen' = [codegen EXCEPT ![ionBuilder[t]] = ok]
  /\ finishedList' = finishedList \union {ionBuilder[t]}
  /\ ionBuilder' = [ionBuilder EXCEPT ![t] = None]
  /\ requestInterrupt
  /\ NotifyAllConsumer
  /\ UnpauseOther(t)
  /\ UNCHANGED <<callVars, scriptVars, started, script, hadIonScript, warmUp,
                 ionWorklist, lazyLinkList, terminate>>

-----------------------------------------------------------------------------

\* What running JavaScript may do, at any time and never.
Script ==
  \/ \E b \in Builders, count \in 0..MaxWarmUp : WarmUp(b, count)
  \/ \E s \in Scripts :
       \/ \E recompile \in BOOLEAN : IonCompile(s, recompile)
       \/ AbortRecompile(s)
       \/ LinkOnEntry(s)
       \/ CancelAndInvalidate(s)
       \/ ForbidCompilation(s)
  \/ CancelAll
  \/ CancelAndDiscard
  \/ handleInterrupt
  \/ Unload

\* What the JavaScript thread has begun and goes on with.
MainStep ==
  \/ MarkCompiling
  \/ AttachLock
  \/ \E b \in Builders : AttachFinishedBuilder(b)
  \/ AttachDone
  \/ LinkOldest
  \/ FinishLink
  \/ CancelOffThreadIonCompile
  \/ AfterCancel
  \/ \E t \in Threads : destroy(t)
  \/ finishThreads

ThreadStep(t) ==
  \/ ExitLoop(t)
  \/ WaitForWork(t)
  \/ StartWorkload(t)
  \/ PauseCurrentHelperThread(t)
  \/ FinishWorkload(t)

Next == Script \/ MainStep \/ \E t \in Threads : ThreadStep(t)

Spec == Init /\ [][Next]_vars

(***************************************************************************)
(* The scheduler runs every thread that can run, and the JavaScript thread *)
(* goes on with what it has begun.  Running scripts owes nothing.          *)
(***************************************************************************)
FairSpec ==
  /\ Spec
  /\ WF_vars(MainStep)
  /\ \A t \in Threads : WF_vars(ThreadStep(t))

-----------------------------------------------------------------------------

Loaded == main \notin {"unload", "down"}

\* Scripts are interchangeable.
ScriptSymmetry == Permutations(Scripts)

\* The state keeps its types, and "only threads with IonBuilders can be
\* paused" (HelperThreads.cpp:1015).
TypeOK ==
  /\ main \in {"js", "mark", "interrupted", "attach", "link", "cancel",
               "cancelWait", "cancelWoken", "cancelled", "unload", "down"}
  /\ linkReturn \in {"js", "interrupted"}
  /\ cancelReturn \in {"js", "link", "interrupted"}
  /\ selected \subseteq Scripts
  /\ afterCancel \in {"nothing", "invalidate", "forbid"}
  /\ linking \in Builders \union {None}
  /\ (main = "link") => linking # None
  /\ ion \in [Scripts -> {"none", "disabled", "compiling", "pending", "ion"}]
  /\ recompiling \in [Scripts -> BOOLEAN]
  /\ pendingBuilder \in [Scripts -> Builders \union {None}]
  /\ started \in 0..MaxBuilders
  /\ script \in [Builders -> Scripts \union {None}]
  /\ hadIonScript \in [Builders -> BOOLEAN]
  /\ warmUp \in [Builders -> 0..MaxWarmUp]
  /\ codegen \in [Builders -> BOOLEAN]
  /\ ionWorklist \subseteq Builders
  /\ finishedList \subseteq Builders
  /\ lazyLinkList \in Seq(Builders)
  /\ interrupt \in BOOLEAN
  /\ helper \in [Threads -> {"ready", "top", "idle", "compile", "paused", "resumed", "exited"}]
  /\ ionBuilder \in [Threads -> Builders \union {None}]
  /\ pause \in [Threads -> BOOLEAN]
  /\ \A t \in Paused : ionBuilder[t] # None
  /\ terminate \in [Threads -> BOOLEAN]

\* Every builder that lives is in one place, and no script has two: a second
\* one would overwrite the script's pending builder (the assertion of
\* setPendingIonBuilder), whatever recompilations, aborts, links and
\* cancellations came before.
OneBuilderPerScript ==
  /\ \A t, u \in Threads : ionBuilder[t] = ionBuilder[u] /\ ionBuilder[t] # None => t = u
  /\ ionWorklist \intersect InThreads = {}
  /\ finishedList \intersect (ionWorklist \union InThreads) = {}
  /\ Lazy \intersect OffThread = {}
  /\ linking \notin OffThread \union Lazy
  /\ \A b, c \in Builders : script[b] = script[c] /\ script[b] # None => b = c
  /\ {b \in Builders : script[b] # None} = (OffThread \union Lazy \union {linking}) \ {None}

\* JSScript::ion tells where the script's builder is, also after a
\* cancellation in the middle of a link: it says compiling exactly while a
\* first compilation is off thread, pending exactly while it waits to be
\* linked, and a recompilation's script has code flagged as recompiling.
ScriptStateAgrees ==
  \A s \in Scripts :
    /\ \/ main = "mark" /\ script[started] = s
       \/ ion[s] = "compiling" <=>
            \E b \in OffThread : script[b] = s /\ ~hadIonScript[b]
    /\ ion[s] = "pending" <=> \E b \in Lazy : script[b] = s /\ ~hadIonScript[b]
    /\ \A b \in OffThread \union Lazy :
         script[b] = s /\ hadIonScript[b] => ion[s] = "ion" /\ recompiling[s]
    /\ \A b \in Builders : pendingBuilder[s] = b <=> b \in Lazy /\ script[b] = s

\* When CancelOffThreadIonCompile returns, no compilation of the selected
\* scripts is left anywhere that a helper thread or a later link could reach.
CancelComplete ==
  main = "cancelled" => BuildersOf(selected, OffThread \union Lazy) = {}

\* As long as the library is loaded, whoever waits has somebody to wake it.
\* While a compilation is paused another one runs, or a thread that has just
\* ended one goes on to the next with the lock in hand; no thread sleeps on
\* PAUSE with its flag down; while a builder waits and none is compiled, some
\* thread is awake to take it; and while the JavaScript thread waits on
\* CONSUMER, a compilation it waits for is in progress.
WaitersHaveWakers ==
  Loaded =>
    /\ Paused # {} =>
         \/ Unpaused # {}
         \/ ionWorklist # {} /\ \E t \in Threads : helper[t] = "top"
    /\ \A t \in Threads : helper[t] = "paused" => pause[t]
    /\ ionWorklist # {} /\ Unpaused = {} =>
         \E t \in Threads : helper[t] \in {"ready", "top"}
    /\ main = "cancelWait" => InProgress # {}

\* A finished builder never waits unnoticed: the interrupt that makes the
\* JavaScript thread attach it is requested, or it is being attached or
\* cancelled.
FinishedNoticed ==
  finishedList # {} =>
    \/ interrupt
    \/ main \in {"interrupted", "attach"}
    \/ linkReturn = "interrupted" \/ cancelReturn = "interrupted"
    \/ main \in {"cancelWait", "cancelWoken"} /\ BuildersOf(Scripts \ selected, finishedList) = {}

\* "All off thread compilations which are started must eventually be
\* finished" (HelperThreads.cpp:117): a builder on the worklist or in a
\* thread, paused or not, gets through, unless the library is unloaded.  The
\* supply of builders is finite here: scripts that never stop starting better
\* ones may starve it.
EveryCompileFinishes ==
  \A b \in Builders :
    b \in ionWorklist \union InThreads ~>
      b \notin ionWorklist \union InThreads \/ ~Loaded

\* CancelOffThreadIonCompile returns, although the thread it waits for may
\* have been paused before, and may be paused again by one that starts.
CancelReturns == main = "cancelWait" ~> main = "cancelled"

\* "this strategy will eventually unpause all paused threads, regardless of
\* how many there are" (HelperThreads.cpp:1530): the join of every helper
\* thread in JS_ShutDown returns.
UnloadReturns == main = "unload" ~> main = "down"

=============================================================================
