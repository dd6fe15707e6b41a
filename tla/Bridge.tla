------------------------------- MODULE Bridge -------------------------------
(***************************************************************************)
(* The native entry points, the JavaScript callbacks into Java, and the    *)
(* one thing they all share: the pending exception of the JSContext.       *)
(*                                                                         *)
(* SpiderMonkey leaves a thrown value pending in the context until someone *)
(* clears it or another one takes its place.  native_execJS, which calls   *)
(* one function, asks afterwards whether something is pending, reports it  *)
(* to Java under its own instance and clears it.  ExecuteJavaScript, which *)
(* evaluates a script, and DrainJobQueue, which runs promise jobs, guard   *)
(* what was pending before with an AutoSaveExceptionState.                 *)
(*                                                                         *)
(* A native call is a frame of the JavaScript thread's stack; Java may make*)
(* another one whenever it has been called.  Which jobs and tasks a drain  *)
(* finds is the matter of JobQueue; here there may always be one.          *)
(*                                                                         *)
(* ForgetToClear, LeaveUnguarded, KeepSaved, ReportFailuresOnly and        *)
(* AskFailuresOnly are no part of the specification: each is the           *)
(* definition after it with a mistake, and the properties are tried        *)
(* against them.                                                           *)
(***************************************************************************)
EXTENDS Naturals

CONSTANTS
  MaxDepth,    \* bound on the nesting of native calls
  MaxCalls,    \* bound on the native calls
  MaxRaised    \* bound on the exceptions that are left pending

ASSUME BridgeAssumption ==
  /\ MaxDepth \in Nat \ {0}
  /\ MaxCalls \in Nat
  /\ MaxRaised \in Nat

VARIABLES
  depth,       \* native calls on the stack
  stack,       \* stack[1..depth]: their frames
  pending,     \* the context's pending exception
  process,     \* "up", or how it ended
  calls,       \* history: native calls made, numbered from 1
  raised,      \* history: exceptions left pending so far, numbered from 1
  exceptions   \* history: what became of each

vars == <<depth, stack, pending, process, calls, raised, exceptions>>

NoException == 0

\* The callbacks that turn an argument into JSON.
JSONCallbacks == {"callNative", "callNativeModule", "callNativeComponent",
                  "callAddElement"}

Callbacks == JSONCallbacks \union {"setTimeoutNative", "nativeLog"}

\* Where a native call is.  JavaScript runs at the first four.
JSPCs == {"js", "version", "finishing", "job"}

PCs == JSPCs \union {"args", "badArgument", "called", "evaluated", "failed",
                     "versioned", "drain", "jobs"}

\* The Java methods that the bridge tells apart once it has called them.
JavaMethods == {"callNativeModule", "otherCallback", "reportJSException",
                "setJSFrmVersion"}

\* A native call: what it is, its number, the Java method it is in, the
\* exception it reports, what its AutoSaveExceptionState holds and how many
\* exceptions there were when that was built.
Frame == [fn : {"initFramework", "execJSService", "execJS"}, call : Nat, pc : PCs,
          java : JavaMethods \union {"none"}, exception : Nat,
          saved : Nat, base : Nat]

NoFrame == [fn |-> "execJS", call |-> 0, pc |-> "args", java |-> "none",
            exception |-> NoException, saved |-> NoException, base |-> 0]

\* An exception: the call that raised it, how, whether that was native_execJS
\* with its arguments or function, the call that reported it first, and whether
\* it has been cleared after a report.  It is a syntax error in a JSON argument
\* or result, or thrown by the function or script that the call runs, or by
\* other JavaScript (a job, getJSFMVersion, toJSON).
Exception == [by : Nat, via : {"argument", "result", "call", "other"},
              inFunction : BOOLEAN, reporter : Nat, cleared : BOOLEAN]

NotRaised == [by |-> 0, via |-> "other", inFunction |-> FALSE, reporter |-> 0,
              cleared |-> FALSE]

Top == stack[depth]

Up == process = "up" /\ depth > 0

At(pc) == Up /\ Top.pc = pc /\ Top.java = "none"

JSRunning == \E pc \in JSPCs : At(pc)

InJava == Up /\ Top.java # "none"

\* A scope with an AutoSaveExceptionState is open in frame f.
Guarded(f) ==
  \/ f.pc = "job"
  \/ f.fn # "execJS" /\ f.pc \in {"js", "evaluated", "failed"}

Init ==
  /\ depth = 0
  /\ stack = [d \in 1..MaxDepth |-> NoFrame]
  /\ pending = NoException
  /\ process = "up"
  /\ calls = 0
  /\ raised = 0
  /\ exceptions = [e \in 1..MaxRaised |-> NotRaised]

-----------------------------------------------------------------------------
(***************************************************************************)
(* Exceptions.                                                             *)
(***************************************************************************)

\* Frame f is in native_execJS, before its question for an exception.
InFunction(f) == f.fn = "execJS" /\ f.pc \in {"args", "js"}

\* The running code throws and leaves its exception pending.
Raise(via) ==
  /\ raised < MaxRaised
  /\ raised' = raised + 1
  /\ pending' = raised + 1
  /\ exceptions' = [exceptions EXCEPT ![raised + 1] =
                      [NotRaised EXCEPT !.by = Top.call, !.via = via,
                                        !.inFunction = InFunction(Top)]]

NothingRaised == UNCHANGED <<raised, exceptions>>

\* AutoSaveExceptionState's constructor (jsapi.cpp:6041), and what it leaves
\* pending.
Save(f) == [f EXCEPT !.saved = pending, !.base = raised]

LeaveUnguarded == pending

Guard == NoException

KeepSaved(f) == f

\* Its destructor (jsapi.cpp:6070): what was pending before comes back unless
\* something new is.
Restored(f) == [f EXCEPT !.saved = NoException, !.base = 0]

Restoring(now) == IF now = NoException THEN Top.saved ELSE now

SetTop(f) == stack' = [stack EXCEPT ![depth] = f]

Goto(pc) == SetTop([Top EXCEPT !.pc = pc, !.java = "none", !.exception = NoException])

Pop ==
  /\ depth' = depth - 1
  /\ stack' = [stack EXCEPT ![depth] = NoFrame]

-----------------------------------------------------------------------------
(***************************************************************************)
(* The native methods.                                                     *)
(***************************************************************************)

\* Java calls native method fn, from outside or from a method that it was
\* called in.  initFramework does its work in the first call only.
Enter(fn) ==
  /\ process = "up"
  /\ depth = 0 \/ InJava
  /\ depth < MaxDepth
  /\ calls < MaxCalls
  /\ fn = "initFramework" <=> calls = 0
  /\ depth' = depth + 1
  /\ calls' = calls + 1
  /\ UNCHANGED process
  /\ NothingRaised

Push(f) == stack' = [stack EXCEPT ![depth + 1] = f]

Called(fn, pc) == [NoFrame EXCEPT !.fn = fn, !.call = calls + 1, !.pc = pc]

native_execJS ==
  /\ Enter("execJS")
  /\ Push(Called("execJS", "args"))
  /\ UNCHANGED pending

\* ExecuteJavaScript begins.
ExecuteJavaScript(fn) ==
  /\ Enter(fn)
  /\ Push(Save(Called(fn, "js")))
  /\ pending' = Guard

native_execJSService == ExecuteJavaScript("execJSService")

\* From where native_initFramework runs its script, if it has one.
native_initFramework ==
  \/ ExecuteJavaScript("initFramework")
  \/ /\ Enter("initFramework")
     /\ Push(Called("initFramework", "drain"))
     /\ UNCHANGED pending

\* The arguments are converted and the namespace is an object.
ConvertArguments ==
  /\ At("args")
  /\ Goto("js")
  /\ UNCHANGED <<depth, pending, process, calls>>
  /\ NothingRaised

\* A JSON argument does not parse.
ArgumentFails ==
  /\ At("args")
  /\ Raise("argument")
  /\ Goto("badArgument")
  /\ UNCHANGED <<depth, process, calls>>

\* "namespace is not a js object"
NamespaceAborts ==
  /\ At("args")
  /\ process' = "aborted"
  /\ UNCHANGED <<depth, stack, pending, calls>>
  /\ NothingRaised

-----------------------------------------------------------------------------
(***************************************************************************)
(* JavaScript.                                                             *)
(***************************************************************************)

\* A throw that JavaScript catches takes the pending exception's place and is
\* then cleared.
TryCatch ==
  /\ JSRunning
  /\ pending # NoException
  /\ pending' = NoException
  /\ UNCHANGED <<depth, stack, process, calls>>
  /\ NothingRaised

AskFailuresOnly ==
  CASE Top.pc = "version" -> "versioned"
    [] Top.fn = "execJS" -> "drain"
    [] OTHER -> "evaluated"

AfterReturn ==
  CASE Top.pc = "version" -> "versioned"
    [] Top.fn = "execJS" -> "called"
    [] OTHER -> "evaluated"

\* The function or script that the native method runs returns.
JSReturns ==
  /\ At("js") \/ At("version")
  /\ Goto(AfterReturn)
  /\ UNCHANGED <<depth, pending, process, calls>>
  /\ NothingRaised

FunctionThrows ==
  /\ At("js")
  /\ Top.fn = "execJS"
  /\ Raise("call")
  /\ Goto("called")
  /\ UNCHANGED <<depth, process, calls>>

ScriptThrows ==
  /\ At("js")
  /\ Top.fn # "execJS"
  /\ Raise("call")
  /\ Goto("failed")
  /\ UNCHANGED <<depth, process, calls>>

\* "failed to call getJSFMVersion function": logged, and left pending.
VersionThrows ==
  /\ At("version")
  /\ Raise("other")
  /\ Goto("drain")
  /\ UNCHANGED <<depth, process, calls>>

-----------------------------------------------------------------------------
(***************************************************************************)
(* Callbacks into Java.                                                    *)
(***************************************************************************)

\* An argument's toJSON throws or it is cyclic: the array is null, Java is
\* called all the same and the exception stays.
Convert(m) ==
  \/ UNCHANGED pending /\ NothingRaised
  \/ m \in JSONCallbacks /\ Raise("other")

CallJava(m) ==
  /\ JSRunning
  /\ Convert(m)
  /\ SetTop([Top EXCEPT
               !.java = IF m = "callNativeModule" THEN m ELSE "otherCallback"])
  /\ UNCHANGED <<depth, process, calls>>

\* ToString throws: getArgumentAsJString aborts, NativeLog goes on with a null
\* string.
ToStringThrows(m) ==
  /\ JSRunning
  /\ process' = IF m = "nativeLog" THEN "crashed" ELSE "aborted"
  /\ UNCHANGED <<depth, stack, pending, calls>>
  /\ NothingRaised

\* Java returns and the callback returns true.  CallNativeModule parses the
\* result, and leaves it at that if it does not parse.
JavaReturns ==
  /\ Up
  /\ Top.java \in {"callNativeModule", "otherCallback"}
  /\ \/ UNCHANGED pending /\ NothingRaised
     \/ Top.java = "callNativeModule" /\ Raise("result")
  /\ SetTop([Top EXCEPT !.java = "none"])
  /\ UNCHANGED <<depth, process, calls>>

-----------------------------------------------------------------------------
(***************************************************************************)
(* Reports.                                                                *)
(***************************************************************************)
AsksForException == {"badArgument", "called", "evaluated", "failed", "versioned"}

ReportFailuresOnly == At("failed") /\ pending # NoException

\* JS_IsExceptionPending, at the places that ask it.
ToReport == (\E pc \in AsksForException : At(pc)) /\ pending # NoException

\* ReportException, up to Java's reportJSException.
ReportException ==
  /\ ToReport
  /\ SetTop([Top EXCEPT !.java = "reportJSException", !.exception = pending])
  /\ exceptions' = IF exceptions[pending].reporter = 0
                   THEN [exceptions EXCEPT ![pending].reporter = Top.call]
                   ELSE exceptions
  /\ UNCHANGED <<depth, pending, process, calls, raised>>

\* JavaScript can throw an object that is no Error (the syntax errors are, and
\* so is what has been reported before); JS_ErrorFromException returns null for
\* it and ReportException follows the pointer.
ReportCrashes ==
  /\ ToReport
  /\ exceptions[pending].via \in {"call", "other"}
  /\ exceptions[pending].reporter = 0
  /\ process' = "crashed"
  /\ UNCHANGED <<depth, stack, pending, calls>>
  /\ NothingRaised

RecordCleared ==
  /\ exceptions' = IF Top.exception = NoException THEN exceptions
                   ELSE [exceptions EXCEPT ![Top.exception].cleared = TRUE]
  /\ UNCHANGED raised

\* What there was to report at pc has been reported.
Reported(pc) ==
  /\ Up
  /\ Top.pc = pc
  /\ Top.java = "reportJSException" \/ (Top.java = "none" /\ ~ToReport)

ForgetToClear == UNCHANGED pending /\ RecordCleared

\* JS_ClearPendingException, after the report.
ClearPendingException == pending' = NoException /\ RecordCleared

ArgumentRejected ==
  /\ Reported("badArgument")
  /\ ClearPendingException
  /\ Pop
  /\ UNCHANGED <<process, calls>>

\* native_execJS goes on to drain; its result is settled.
CallDone ==
  /\ Reported("called")
  /\ ClearPendingException
  /\ Goto("drain")
  /\ UNCHANGED <<depth, process, calls>>

ScriptDone ==
  /\ Reported("evaluated")
  /\ pending' = Restoring(pending)
  /\ SetTop([Restored(Top) EXCEPT
               !.pc = IF Top.fn = "initFramework" THEN "version" ELSE "drain",
               !.java = "none", !.exception = NoException])
  /\ UNCHANGED <<depth, process, calls>>
  /\ NothingRaised

ScriptFailed ==
  /\ Reported("failed")
  /\ pending' = Restoring(pending)
  /\ Pop
  /\ UNCHANGED <<process, calls>>
  /\ NothingRaised

\* setJSFVersion tells Java the version, or reports what is pending.
SetJSFVersion ==
  /\ At("versioned")
  /\ pending = NoException
  /\ SetTop([Top EXCEPT !.java = "setJSFrmVersion"])
  /\ UNCHANGED <<depth, pending, process, calls>>
  /\ NothingRaised

VersionDone ==
  /\ \/ Reported("versioned") /\ ClearPendingException
     \/ Up /\ Top.java = "setJSFrmVersion" /\ UNCHANGED pending /\ NothingRaised
  /\ Goto("drain")
  /\ UNCHANGED <<depth, process, calls>>

-----------------------------------------------------------------------------
(***************************************************************************)
(* DrainJobQueue.                                                          *)
(***************************************************************************)
drainingJobQueue == \E d \in 1..depth : stack[d].pc \in {"jobs", "job"}

NestedDrain ==
  /\ At("drain")
  /\ drainingJobQueue
  /\ Pop
  /\ UNCHANGED <<pending, process, calls>>
  /\ NothingRaised

FinishTask ==
  /\ At("drain")
  /\ ~drainingJobQueue
  /\ Goto("finishing")
  /\ UNCHANGED <<depth, pending, process, calls>>
  /\ NothingRaised

\* PromiseTask::finish clears the pending exception if it fails.
FinishReturns ==
  /\ At("finishing")
  /\ pending' \in {pending, NoException}
  /\ Goto("drain")
  /\ UNCHANGED <<depth, process, calls>>
  /\ NothingRaised

BeginJobs ==
  /\ At("drain")
  /\ ~drainingJobQueue
  /\ Goto("jobs")
  /\ UNCHANGED <<depth, pending, process, calls>>
  /\ NothingRaised

CallJob ==
  /\ At("jobs")
  /\ SetTop([Save(Top) EXCEPT !.pc = "job"])
  /\ pending' = Guard
  /\ UNCHANGED <<depth, process, calls>>
  /\ NothingRaised

JobReturns ==
  /\ At("job")
  /\ pending' = Restoring(pending)
  /\ SetTop([Restored(Top) EXCEPT !.pc = "jobs"])
  /\ UNCHANGED <<depth, process, calls>>
  /\ NothingRaised

\* A job's exception takes the place of the saved one.
JobThrows ==
  /\ At("job")
  /\ Raise("other")
  /\ SetTop([Restored(Top) EXCEPT !.pc = "jobs"])
  /\ UNCHANGED <<depth, process, calls>>

DrainDone ==
  /\ At("jobs")
  /\ Pop
  /\ UNCHANGED <<pending, process, calls>>
  /\ NothingRaised

-----------------------------------------------------------------------------
NativeCall == native_execJS \/ native_execJSService \/ native_initFramework

Arguments == ConvertArguments \/ ArgumentFails \/ NamespaceAborts

JavaScript ==
  \/ TryCatch \/ JSReturns \/ FunctionThrows \/ ScriptThrows \/ VersionThrows
  \/ \E m \in Callbacks : CallJava(m) \/ ToStringThrows(m)

Reports ==
  \/ ReportException \/ ReportCrashes \/ ArgumentRejected \/ CallDone
  \/ ScriptDone \/ ScriptFailed \/ SetJSFVersion \/ VersionDone

DrainJobQueue ==
  \/ NestedDrain \/ FinishTask \/ FinishReturns \/ BeginJobs
  \/ CallJob \/ JobReturns \/ JobThrows \/ DrainDone

Next == NativeCall \/ Arguments \/ JavaScript \/ JavaReturns \/ Reports \/ DrainJobQueue

Spec == Init /\ [][Next]_vars

-----------------------------------------------------------------------------
(***************************************************************************)
(* Properties.                                                             *)
(***************************************************************************)

\* Only exceptions that have been raised are pending or saved, and one is
\* saved only in a frame whose AutoSaveExceptionState is alive.
TypeOK ==
  /\ depth \in 0..MaxDepth
  /\ stack \in [1..MaxDepth -> Frame]
  /\ pending \in 0..raised
  /\ process \in {"up", "aborted", "crashed"}
  /\ calls \in 0..MaxCalls
  /\ raised \in 0..MaxRaised
  /\ exceptions \in [1..MaxRaised -> Exception]
  /\ \A d \in 1..MaxDepth :
       /\ stack[d].saved \in 0..stack[d].base
       /\ stack[d].base \in 0..raised
       /\ stack[d].saved # NoException => d <= depth /\ Guarded(stack[d])

OnStack(call) == \E d \in 1..depth : stack[d].call = call

\* An exception that escapes the function native_execJS calls, one of its
\* arguments or the script of ExecuteJavaScript is reported before that call
\* returns, and first by that call: under its own instance, although Java may
\* make other native calls in the meantime and they may report it too.
OwnErrorsReported ==
  \A e \in 1..raised :
    exceptions[e].via \in {"argument", "call"} =>
      \/ exceptions[e].reporter = exceptions[e].by
      \/ /\ exceptions[e].reporter = 0
         /\ process # "up" \/ OnStack(exceptions[e].by)

\* What native_execJS or setJSFVersion has reported and cleared is gone: no frame's
\* AutoSaveExceptionState brings it back for a later call to report again.
ClearedForGood ==
  \A e \in 1..raised :
    exceptions[e].cleared =>
      pending # e /\ \A d \in 1..depth : stack[d].saved # e

\* AutoSaveExceptionState isolates what runs inside it: an exception reported
\* while a script or a promise job runs, by its own call or one nested in it,
\* was raised after that script or job began.
ScopesIsolate ==
  [][ReportException =>
       \A d \in 1..depth : Guarded(stack[d]) => pending > stack[d].base]_vars

\* A callback goes on and returns true when one of its conversions has thrown,
\* and native_execJS does not look at what its function returned: it asks for
\* the pending exception itself.  So whatever was raised while it converted its
\* arguments or ran its function, a swallowed exception of a callback
\* included, is reported while that call is on the stack, if at all: calls
\* nested in it may report it under their instances, but no later call does.
\* (What scripts, promise jobs and getJSFMVersion leave pending is reported by
\* later calls.)
FunctionErrorsContained ==
  [][(ReportException /\ exceptions[pending].inFunction)
       => OnStack(exceptions[pending].by)]_vars

\* The comment on ReportException: "This Function will be called when any
\* javascript Exception that need to print log to notify native happened".
\* False: for an object that is no Error it does not get as far as Java.
AnyExceptionReportable == [][~ReportCrashes]_vars
=============================================================================
