------------------------------ MODULE LocalRefs ------------------------------
(***************************************************************************)
(* The JNI local references and string buffers of the bridge.              *)
(*                                                                         *)
(* The virtual machine gives each native call a frame of local references, *)
(* and frees it when the call returns.  The functions that the call runs   *)
(* (the callbacks of JavaScript, reportException, setJSFVersion) put their *)
(* references into the same frame and delete them by hand.  Converting an  *)
(* argument runs JavaScript (toString, toJSON), which may call the next    *)
(* callback before the first has all its arguments; calling Java may       *)
(* re-enter a native method, which has a frame of its own.                 *)
(*                                                                         *)
(* A reference is named after the variable that holds it.  Null references *)
(* are not in the frame, and deleting one does nothing.  References that a *)
(* step both makes and deletes, with no call in between, are left out.     *)
(* Memory does not run out.                                                *)
(*                                                                         *)
(* ForgetCallback, KeepFrame and KeepFunc are no part of the               *)
(* specification: each is the definition after it with a mistake, and the  *)
(* properties are tried against them.                                      *)
(***************************************************************************)
EXTENDS Naturals, Sequences, FiniteSets, Bags, SequencesExt

CONSTANTS
  MaxStack,      \* bound on the nesting of native calls and functions
  MaxCallbacks,  \* bound on the callbacks made
  Argcs,         \* how many arguments JavaScript may pass to a callback
  MaxArgs,       \* bound on the arguments of native_execJS
  MaxOptions     \* bound on the options of WXEnvironment

ASSUME LocalRefsAssumption ==
  /\ MaxStack \in Nat \ {0}
  /\ MaxCallbacks \in Nat
  /\ Argcs \subseteq Nat
  /\ MaxArgs \in Nat
  /\ MaxOptions \in Nat

VARIABLES
  stack,        \* the native calls and the functions they run
  frames,       \* the native calls' frames: what has been lost in each
  logging,      \* jWXLogUtils and its method d are there
  process,      \* the library's life cycle
  leaked,       \* history: string buffers that were never released
  callbacks     \* callbacks made so far

vars == <<stack, frames, logging, process, leaked, callbacks>>

NativeCalls == {"initFramework", "execJS", "execJSService"}

Callbacks == {"callNative", "callNativeModule", "callNativeComponent",
              "callAddElement", "setTimeoutNative", "nativeLog"}

\* The references a function makes before it calls Java, in order, and the
\* conversion that makes each: of argument i of JavaScript's call, or, as
\* "chars", of a string at hand.
Params(fn) ==
  LET string(ref) == [ref |-> ref, as |-> "string"]  \* getArgumentAsJString
      bytes(ref) == [ref |-> ref, as |-> "bytes"]    \* getArgumentAsJByteArray(JSON)
      chars(ref) == [ref |-> ref, as |-> "chars"]    \* NewStringUTF
  IN CASE fn = "callNative" ->
            <<string("jInstanceId"), bytes("jTaskString"), string("jCallback")>>
       [] fn = "callNativeModule" ->
            <<string("jInstanceId"), string("jmodule"), string("jmethod"),
              bytes("jArgString"), bytes("jOptString")>>
       [] fn = "callNativeComponent" ->
            <<string("jInstanceId"), string("jcomponentRef"), string("jmethod"),
              bytes("jArgString"), bytes("jOptString")>>
       [] fn = "callAddElement" ->
            <<string("jInstanceId"), string("jref"), bytes("jdomString"),
              string("jindex"), string("jCallback")>>
       [] fn = "setTimeoutNative" -> <<string("jCallbackID"), string("jTime")>>
       [] fn = "nativeLog" -> <<string("str_msg"), chars("str_tag")>>
       [] fn = "reportException" -> <<chars("jExceptionString"), chars("jFunc")>>
       [] fn = "setJSFVersion" -> <<chars("jversion")>>

ForgetCallback(fn) ==
  ({"jDataObj"} \union {Params(fn)[i].ref : i \in 1..Len(Params(fn))}) \ {"jCallback"}

\* The references a function deletes after the call into Java.
Deleted(fn) ==
  CASE fn = "callNative" -> {"jTaskString", "jInstanceId", "jCallback"}
    [] fn = "callNativeModule" ->
         {"jDataObj", "jInstanceId", "jmodule", "jmethod", "jArgString", "jOptString"}
    [] fn = "callNativeComponent" ->
         {"jInstanceId", "jcomponentRef", "jmethod", "jArgString", "jOptString"}
    [] fn = "callAddElement" ->
         {"jInstanceId", "jref", "jdomString", "jindex", "jCallback"}
    [] fn = "setTimeoutNative" -> {"jCallbackID", "jTime"}
    [] fn = "nativeLog" -> {"str_msg", "str_tag"}
    [] fn = "reportException" -> {"jExceptionString", "jFunc"}
    [] fn = "setJSFVersion" -> {"jversion"}

(***************************************************************************)
(* An activation: the function, where it is, the next parameter, argument  *)
(* or option to treat, how many JavaScript passed, the references it holds *)
(* and the string buffers it has to release.                               *)
(***************************************************************************)
Activation(fn, pc, argc) ==
  [fn |-> fn, pc |-> pc, i |-> 1, argc |-> argc, live |-> {}, chars |-> {}]

\* A frame: the references in it that no variable holds any more, and, for
\* history, the module calls made in it.
NewFrame == [lost |-> EmptyBag, modules |-> 0]

Init ==
  /\ stack = <<>>
  /\ frames = <<>>
  /\ logging \in BOOLEAN
  /\ process = "loaded"
  /\ leaked = {}
  /\ callbacks = 0

Top == Last(stack)

At(fn, pc) == stack # <<>> /\ Top.fn = fn /\ Top.pc = pc

Set(top) == stack' = [stack EXCEPT ![Len(stack)] = top]

Goto(pc) == Set([Top EXCEPT !.pc = pc])

Param == Params(Top.fn)[Top.i]

\* A function is making the references it passes to Java.
Converting == stack # <<>> /\ Top.pc = "convert"

JSRunning ==
  /\ stack # <<>>
  /\ \/ Top.pc \in {"script", "version", "drain"}
     \/ Converting /\ Param.as = "bytes"
     \/ Converting /\ Param.as = "string" /\ Top.i <= Top.argc

JavaRunning == stack # <<>> => Top.pc = "java"

\* The current function calls another that shares its frame, having got to
\* `continue' itself.
Call(fn, argc, continue) ==
  /\ Len(stack) < MaxStack
  /\ stack' = Append(Front(stack) \o <<[Top EXCEPT !.pc = continue]>>,
                     Activation(fn, "convert", argc))

\* The process ends.
Abort ==
  /\ process' = "aborted"
  /\ stack' = <<>>
  /\ frames' = <<>>
  /\ UNCHANGED <<logging, leaked, callbacks>>

Lose(refs) ==
  frames' = [frames EXCEPT ![Len(frames)].lost = @ (+) SetToBag(refs)]

-----------------------------------------------------------------------------
(***************************************************************************)
(* The functions that call Java.                                           *)
(***************************************************************************)

Callback(fn, argc) ==
  /\ JSRunning
  /\ callbacks < MaxCallbacks
  /\ Call(fn, argc, Top.pc)
  /\ callbacks' = callbacks + 1
  /\ UNCHANGED <<frames, logging, process, leaked>>

\* nativeLog gives up: it has no arguments or, its message made, no WXLogUtils.
NothingToLog ==
  /\ Top.fn = "nativeLog"
  /\ \/ Top.i = 1 /\ Top.argc = 0
     \/ Top.i = 2 /\ ~logging

\* With all its references made the function calls Java.
NextParam(live) ==
  IF Top.i < Len(Params(Top.fn))
  THEN Set([Top EXCEPT !.i = @ + 1, !.live = live])
  ELSE Set([Activation(Top.fn, "java", 0) EXCEPT !.live = live])

\* One parameter.  A string argument that was not passed is null; a byte
\* array argument is read without a test, past the arguments, and may be
\* anything.  The array is null if the value is neither a string nor an
\* object, or has no JSON form.
ConvertParam ==
  /\ Converting
  /\ ~NothingToLog
  /\ \/ /\ Param.as = "string" => Top.i <= Top.argc
        /\ NextParam(Top.live \union {Param.ref})
     \/ /\ Param.as = "bytes" \/ (Param.as = "string" /\ Top.i > Top.argc)
        /\ NextParam(Top.live)
  /\ UNCHANGED <<frames, logging, process, leaked, callbacks>>

\* getArgumentAsJString aborts when toString throws, nativeLog follows the
\* null string, and a value read past the arguments may be none.
ConversionAborts ==
  /\ JSRunning
  /\ Converting
  /\ Param.as = "string" \/ Top.i > Top.argc
  /\ Abort

\* The function deletes what it deletes and returns.
Return(held, deleted) ==
  /\ stack' = Front(stack)
  /\ Lose(held \ deleted)

\* CallNativeModule has two more references: the result, and its data, which
\* may be null.
JavaReturns ==
  /\ stack # <<>>
  /\ Top.pc = "java"
  /\ IF Top.fn = "callNativeModule"
     THEN \E data \in SUBSET {"jDataObj"} :
            LET held == Top.live \union {"result"} \union data
            IN  /\ stack' = Front(stack)
                /\ frames' = [frames EXCEPT
                     ![Len(frames)].lost = @ (+) SetToBag(held \ Deleted(Top.fn)),
                     ![Len(frames)].modules = @ + 1]
     ELSE Return(Top.live, Deleted(Top.fn))
  /\ UNCHANGED <<logging, process, leaked, callbacks>>

\* CallNativeModule, native_execJS, initWXEnvironment and StartATrace follow a
\* reference from Java that is null.
NullObject ==
  /\ \/ At("callNativeModule", "java")
     \/ At("execJS", "args")
     \/ At("initFramework", "env")
  /\ Abort

\* A message it has made is lost.
NativeLogReturns ==
  /\ At("nativeLog", "convert")
  /\ NothingToLog
  /\ Return(Top.live, {})
  /\ UNCHANGED <<logging, process, leaked, callbacks>>

-----------------------------------------------------------------------------
(***************************************************************************)
(* native_initFramework from initWXEnvironment on.                         *)
(***************************************************************************)

Enter(fn, pc, live) ==
  /\ Len(stack) < MaxStack
  /\ stack' = Append(stack, [Activation(fn, pc, 0) EXCEPT !.live = live])
  /\ frames' = Append(frames, NewFrame)
  /\ UNCHANGED <<logging, leaked, callbacks>>

\* initWXEnvironment up to its loop: it copies the attributes one by one.
native_initFramework ==
  /\ process = "loaded"
  /\ stack = <<>>
  /\ process' = "initialising"
  /\ Enter("initFramework", "env",
           {"c_params", "options", "jmapclass", "jsetclass", "jobjArray"})

\* One key of the map: its value is asked for before the key is tested, and
\* the key's characters are never released.
CopyOption(nullKey) ==
  /\ At("initFramework", "env")
  /\ Top.i <= MaxOptions
  /\ Set([Top EXCEPT !.i = @ + 1,
                     !.chars = IF nullKey THEN @ ELSE @ \union {"c_key"}])
  /\ \/ nullKey /\ Lose({"jvalue"})
     \/ UNCHANGED frames
  /\ UNCHANGED <<logging, process, leaked, callbacks>>

\* The loop ends and initWXEnvironment returns; then jThis and _globalObject
\* are set, StartATrace finds the trace class and keeps the local reference,
\* and the script begins, if there is one.
BeginScript(pc) ==
  /\ At("initFramework", "env")
  /\ Lose((Top.live \ {"jobjArray", "options"}) \union {"jTraceClass"})
  /\ leaked' = leaked \union Top.chars
  /\ process' = "ready"
  /\ Set([Top EXCEPT !.pc = pc, !.i = 1, !.live = {},
                     !.chars = IF pc = "script" THEN {"source"} ELSE {}])
  /\ UNCHANGED <<logging, callbacks>>

-----------------------------------------------------------------------------
(***************************************************************************)
(* native_execJS and native_execJSService, and what the three share.       *)
(***************************************************************************)

native_execJS ==
  /\ JavaRunning
  /\ process = "ready"
  /\ Enter("execJS", "args", {})
  /\ UNCHANGED process

\* An argument that is copied leaves nothing behind.
CopyArgument ==
  /\ At("execJS", "args")
  /\ Top.i <= MaxArgs
  /\ Set([Top EXCEPT !.i = @ + 1])
  /\ UNCHANGED <<frames, logging, process, leaked, callbacks>>

\* The JSON text of an argument does not parse: it is reported.
ArgumentFails ==
  /\ At("execJS", "args")
  /\ Top.i <= MaxArgs
  /\ Len(stack) < MaxStack
  /\ stack' = Append(
       Front(stack) \o <<[Top EXCEPT !.pc = "bad argument",
                                     !.live = {"jArg", "jDataObj"},
                                     !.chars = {"jDataObj"}]>>,
       Activation("reportException", "convert", 0))
  /\ UNCHANGED <<frames, logging, process, leaked, callbacks>>

KeepFrame ==
  /\ At("execJS", "bad argument")
  /\ stack' = Front(stack)
  /\ UNCHANGED <<frames, logging, process, leaked, callbacks>>

\* After the report the call deletes its references and returns, and only
\* then does scopedStr release the characters of jDataObj, with the deleted
\* reference.
ArgumentReported ==
  /\ At("execJS", "bad argument")
  /\ stack' = Front(stack)
  /\ frames' = Front(frames)
  /\ UNCHANGED <<logging, process, leaked, callbacks>>

CallFunctionName(names) ==
  /\ At("execJS", "args")
  /\ Set([Top EXCEPT !.pc = "script", !.i = 1, !.chars = names])
  /\ UNCHANGED <<frames, logging, process, leaked, callbacks>>

\* "namespace is not a js object"
BadNamespace ==
  /\ At("execJS", "script")
  /\ "_namespace" \in Top.chars
  /\ Abort

native_execJSService ==
  /\ JavaRunning
  /\ process = "ready"
  /\ Len(stack) < MaxStack
  /\ stack' = Append(stack, [Activation("execJSService", "script", 0) EXCEPT
                               !.chars = {"source"}])
  /\ frames' = Append(frames, NewFrame)
  /\ UNCHANGED <<logging, process, leaked, callbacks>>

\* The script has thrown, or an earlier exception is pending: it is reported.
\* native_execJS has left the block of _namespace.
ReportException ==
  /\ stack # <<>>
  /\ Top.pc = "script"
  /\ Len(stack) < MaxStack
  /\ stack' = Append(
       Front(stack) \o <<[Top EXCEPT !.pc = "reported", !.chars = @ \ {"_namespace"}]>>,
       Activation("reportException", "convert", 0))
  /\ UNCHANGED <<frames, logging, process, leaked, callbacks>>

\* The script is done, ExecuteJavaScript has returned.
ScriptReturns ==
  /\ stack # <<>>
  /\ Top.pc \in {"script", "reported"}
  /\ \E pc \in CASE Top.fn = "execJS" -> {"drain"}
               [] Top.fn = "execJSService" -> {"drain", "failed"}
               [] Top.fn = "initFramework" -> {"version", "failed"} :
       Set([Top EXCEPT !.pc = pc, !.chars = @ \ {"source", "_namespace"}])
  /\ UNCHANGED <<frames, logging, process, leaked, callbacks>>

\* getJSFMVersion has returned, with a string or not, or has thrown, or an
\* earlier exception is pending and is reported.
VersionReturns ==
  /\ At("initFramework", "version")
  /\ \/ Goto("drain")
     \/ \E fn \in {"setJSFVersion", "reportException"} : Call(fn, 0, "drain")
  /\ UNCHANGED <<frames, logging, process, leaked, callbacks>>

KeepFunc ==
  /\ stack # <<>>
  /\ Top.pc \in {"drain", "failed"}
  /\ stack' = Front(stack)
  /\ frames' = Front(frames)
  /\ leaked' = leaked \union Top.chars
  /\ UNCHANGED <<logging, process, callbacks>>

\* The virtual machine frees the frame with all that is in it.
NativeReturns ==
  /\ stack # <<>>
  /\ Top.pc \in {"drain", "failed"}
  /\ stack' = Front(stack)
  /\ frames' = Front(frames)
  /\ leaked' = leaked \union (Top.chars \ {"func"})
  /\ UNCHANGED <<logging, process, callbacks>>

\* StopATrace deletes the reference to the trace class, which ended with the
\* frame of native_initFramework.
JNI_OnUnload ==
  /\ process \in {"loaded", "ready"}
  /\ stack = <<>>
  /\ process' = "unloaded"
  /\ UNCHANGED <<stack, frames, logging, leaked, callbacks>>

-----------------------------------------------------------------------------

InitFramework ==
  \/ native_initFramework
  \/ \E nullKey \in BOOLEAN : CopyOption(nullKey)
  \/ \E pc \in {"script", "drain"} : BeginScript(pc)
  \/ VersionReturns

ExecJS ==
  \/ native_execJS
  \/ CopyArgument
  \/ ArgumentFails
  \/ ArgumentReported
  \/ \E names \in {{"func"}, {"func", "_namespace"}} : CallFunctionName(names)
  \/ BadNamespace

IntoJava ==
  \/ \E fn \in Callbacks : \E argc \in Argcs : Callback(fn, argc)
  \/ ConvertParam
  \/ ConversionAborts
  \/ JavaReturns
  \/ NullObject
  \/ NativeLogReturns

Next ==
  \/ InitFramework
  \/ ExecJS
  \/ native_execJSService
  \/ IntoJava
  \/ ReportException
  \/ ScriptReturns
  \/ NativeReturns
  \/ JNI_OnUnload

Spec == Init /\ [][Next]_vars

-----------------------------------------------------------------------------

Functions == Callbacks \union {"reportException", "setJSFVersion"}

\* Every activation is at one of its points and holds references by name,
\* and each native call on the stack has a frame.
TypeOK ==
  /\ \A n \in 1..Len(stack) :
       /\ stack[n].fn \in NativeCalls \union Functions
       /\ stack[n].pc \in IF stack[n].fn \in NativeCalls
                          THEN {"env", "args", "bad argument", "script", "reported",
                                "version", "drain", "failed"}
                          ELSE {"convert", "java"}
       /\ stack[n].fn \in Functions => stack[n].chars = {}
  /\ Cardinality({n \in 1..Len(stack) : stack[n].fn \in NativeCalls}) = Len(frames)
  /\ process \in {"loaded", "initialising", "ready", "unloaded", "aborted"}
  /\ callbacks \in 0..MaxCallbacks

\* What initWXEnvironment and StartATrace leave in native_initFramework's frame.
EnvironmentRefs == {"c_params", "jmapclass", "jsetclass", "jvalue", "jTraceClass"}

Copies(ref, lost) == IF BagIn(ref, lost) THEN lost[ref] ELSE 0

\* The frame of a native call keeps one reference for every module call made
\* in it, its result, and none from any other callback or report, however
\* the callbacks nest and whichever of their conversions give null.  Only
\* the first call's frame also has what initWXEnvironment and StartATrace left,
\* and a message that could not be logged is lost too.
OnlyResultsLost ==
  \A f \in 1..Len(frames) :
    /\ Copies("result", frames[f].lost) = frames[f].modules
    /\ BagToSet(frames[f].lost) \subseteq
         {"result"} \union (IF logging THEN {} ELSE {"str_msg"})
                    \union (IF stack[1].fn = "initFramework" /\ f = 1
                            THEN EnvironmentRefs
                            ELSE {})

\* Every buffer of characters that a native call gets from Java is released
\* when the call returns, on its early returns too, except for the keys of
\* the options of initWXEnvironment.
BuffersReleased == leaked \subseteq {"c_key"}

\* "MOZ_ASSERT(i < argc_)" (CallArgs.h:199): a callback reads an argument only
\* if JavaScript passed it.
ArgumentsInRange == Converting /\ Param.as = "bytes" => Top.i <= Top.argc
=============================================================================
