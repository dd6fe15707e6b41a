----------------------------- MODULE Lifecycle ------------------------------
(***************************************************************************)
(* The library from JNI_OnLoad to JNI_OnUnload: what native_initFramework  *)
(* builds, step by step with every step that can fail, what the native     *)
(* calls find of it, and the trace marker that is opened on the way.       *)
(*                                                                         *)
(* Native calls and callbacks into Java nest; each has a TraceScope, which *)
(* writes a begin event when it is entered and an end event when it is     *)
(* left, if the marker file is open at that moment.  native_execJSService, *)
(* nativeLog and the reports have none; the scopes that native_execJS      *)
(* opens inside its own are one with it.                                   *)
(*                                                                         *)
(* LoadUntested, InitAgain, GlobalFirst and ScopeFirst are no part of the  *)
(* specification: each is the definition after it with a mistake, and the  *)
(* properties are tried against them.                                      *)
(***************************************************************************)
EXTENDS Integers, Sequences, FiniteSets

CONSTANT MaxDepth   \* bound on the nesting of native calls and callbacks

ASSUME DepthAssumption == MaxDepth \in Nat \ {0}

VARIABLES
  library,        \* "absent", "loaded", "refused" or "unloaded"
  engine,         \* libraryInitState
  globalContext,  \* the static is set
  shellContext,   \* the context's private pointer
  globalObject,   \* the static _globalObject is set
  bridge,         \* the global references: classes and jThis
  init,           \* where native_initFramework is
  stack,          \* the native calls and callbacks on the JavaScript thread
  g_atrace_fd,    \* the marker file is open
  events,         \* history: begin events written less end events
  contexts,       \* history: contexts created
  process         \* "up" or "crashed"

statics == <<globalContext, shellContext, globalObject, bridge>>

trace == <<stack, g_atrace_fd, events>>

vars == <<library, engine, statics, init, trace, contexts, process>>

ClassRefs == {"jBridgeClazz", "jWXJSObject", "jWXLogUtils"}

Init ==
  /\ library = "absent"
  /\ engine = "Uninitialized"
  /\ globalContext = FALSE
  /\ shellContext = "null"
  /\ globalObject = FALSE
  /\ bridge = {}
  /\ init = "idle"
  /\ stack = <<>>
  /\ g_atrace_fd = FALSE
  /\ events = 0
  /\ contexts = 0
  /\ process = "up"

Up == process = "up" /\ library = "loaded"

-----------------------------------------------------------------------------
(***************************************************************************)
(* Loading.  FindClass answers NULL for a class it does not find;          *)
(* registerNativeMethods tests jBridgeClazz, and nothing tests the others. *)
(***************************************************************************)
LoadUntested ==
  /\ process = "up"
  /\ library = "absent"
  /\ bridge' \in SUBSET ClassRefs
  /\ library' \in {"loaded", "refused"}
  /\ UNCHANGED <<engine, globalContext, shellContext, globalObject, init, trace,
                 contexts, process>>

JNI_OnLoad ==
  /\ process = "up"
  /\ library = "absent"
  /\ \E found \in SUBSET ClassRefs :   \* {} also when there is no environment
       /\ bridge' = found
       /\ \/ library' = "loaded" /\ "jBridgeClazz" \in found
          \/ library' = "refused"       \* also when RegisterNatives fails
  /\ UNCHANGED <<engine, globalContext, shellContext, globalObject, init, trace,
                 contexts, process>>

-----------------------------------------------------------------------------
(***************************************************************************)
(* TraceScope.                                                             *)
(***************************************************************************)
Traced(scope) == scope \in {"initFramework", "execJS", "callback", "callNativeModule"}

Open(scope) ==
  /\ Len(stack) < MaxDepth
  /\ stack' = Append(stack, scope)
  /\ events' = IF g_atrace_fd /\ Traced(scope) THEN events + 1 ELSE events

Top == stack[Len(stack)]

Close ==
  /\ stack' = SubSeq(stack, 1, Len(stack) - 1)
  /\ events' = IF g_atrace_fd /\ Traced(Top) THEN events - 1 ELSE events

NativeCalls == {"initFramework", "execJS", "execJSService"}

\* Calls into Java: the traced callbacks, with callNativeModule, which reads
\* the fields of its result, apart; nativeLog and the reports.
JavaCalls == {"callback", "callNativeModule", "untraced callback"}

\* GetFieldID is asked for a field of WXJSObject, whatever FindClass answered.
FieldsFound == "jWXJSObject" \in bridge

\* Java runs: nothing is on the stack, or a callback has called it.
InJava ==
  Up /\ init \in {"idle", "script"} /\ (stack # <<>> => Top \in JavaCalls)

InJavaScript ==
  Up /\ init \in {"idle", "script"} /\ stack # <<>> /\ Top \in NativeCalls

-----------------------------------------------------------------------------
(***************************************************************************)
(* native_initFramework.                                                   *)
(***************************************************************************)
InitAgain ==
  /\ InJava
  /\ init = "idle"
  /\ init' = "JS_Init"
  /\ UNCHANGED <<library, engine, statics, trace, contexts, process>>

\* Past its first test; with a context already there it just returns false.
native_initFramework ==
  /\ InJava
  /\ init = "idle"
  /\ ~globalContext
  /\ init' = "JS_Init"
  /\ UNCHANGED <<library, engine, statics, trace, contexts, process>>

\* JS_Init fails or succeeds.
JS_Init ==
  /\ Up
  /\ init = "JS_Init"
  /\ \/ init' = "idle" /\ UNCHANGED engine
     \/ init' = "JS_NewContext" /\ engine' = "Running"
  /\ UNCHANGED <<library, statics, trace, contexts, process>>

JS_NewContext ==
  /\ Up
  /\ init = "JS_NewContext"
  /\ \/ init' = "idle" /\ UNCHANGED <<globalContext, contexts>>
     \/ init' = "ShellContext" /\ globalContext' = TRUE /\ contexts' = contexts + 1
  /\ UNCHANGED <<library, engine, shellContext, globalObject, bridge, trace, process>>

GlobalFirst ==
  /\ Up
  /\ init = "ShellContext"
  /\ globalObject' = TRUE
  /\ \/ init' = "idle" /\ UNCHANGED shellContext
     \/ init' = "global" /\ shellContext' = "live"
  /\ UNCHANGED <<library, engine, globalContext, bridge, trace, contexts, process>>

\* InitSelfHostedCode and the allocation of the ShellContext, or a failure of
\* either (the second returns 1).
MakeShellContext ==
  /\ Up
  /\ init = "ShellContext"
  /\ \/ init' = "idle" /\ UNCHANGED shellContext
     \/ init' = "global" /\ shellContext' = "live"
  /\ UNCHANGED <<library, engine, globalContext, globalObject, bridge, trace,
                 contexts, process>>

\* JS_NewGlobalObject and initGlobalObject, or a failure of either.
MakeGlobalObject ==
  /\ Up
  /\ init = "global"
  /\ \/ init' = "idle" /\ UNCHANGED <<globalObject, bridge>>
     \/ /\ init' = "trace"
        /\ globalObject' = TRUE
        /\ bridge' = bridge \union {"jThis"}
  /\ UNCHANGED <<library, engine, globalContext, shellContext, trace, contexts,
                 process>>

ScopeFirst ==
  /\ Up
  /\ init = "trace"
  /\ init' = "script"
  /\ Open("initFramework")
  /\ g_atrace_fd' \in BOOLEAN
  /\ UNCHANGED <<library, engine, statics, contexts, process>>

\* StartATrace opens the marker file if tracing is enabled and it can; then
\* the call's own scope begins.
StartATrace ==
  /\ Up
  /\ init = "trace"
  /\ init' = "scope"
  /\ g_atrace_fd' \in {g_atrace_fd, TRUE}
  /\ UNCHANGED <<library, engine, statics, stack, events, contexts, process>>

BeginScript ==
  /\ Up
  /\ init = "scope"
  /\ init' = "script"
  /\ Open("initFramework")
  /\ UNCHANGED <<library, engine, statics, g_atrace_fd, contexts, process>>

-----------------------------------------------------------------------------
(***************************************************************************)
(* Native calls and callbacks.                                             *)
(***************************************************************************)

\* Both switch to the global object's compartment first, which follows a null
\* pointer when there is no context or no global object.
Call(fn, argumentsFound) ==
  /\ InJava
  /\ IF globalContext /\ globalObject /\ argumentsFound
     THEN Open(fn) /\ UNCHANGED process
     ELSE process' = "crashed" /\ UNCHANGED <<stack, events>>
  /\ UNCHANGED <<library, engine, statics, init, g_atrace_fd, contexts>>

\* With arguments or without: it reads the fields of each.
native_execJS ==
  \E arguments \in BOOLEAN : Call("execJS", arguments => FieldsFound)

native_execJSService == Call("execJSService", TRUE)

Callback(scope) ==
  /\ InJavaScript
  /\ Open(scope)
  /\ UNCHANGED <<library, engine, statics, init, g_atrace_fd, contexts, process>>

\* Java returns to CallNativeModule, which reads the fields of the result.
ResultUnreadable ==
  /\ Up
  /\ stack # <<>>
  /\ Top = "callNativeModule"
  /\ ~FieldsFound
  /\ process' = "crashed"
  /\ UNCHANGED <<library, engine, statics, init, trace, contexts>>

\* A callback or a native call returns.  native_initFramework is at the bottom
\* of the stack.
Return ==
  /\ Up
  /\ stack # <<>>
  /\ Top = "callNativeModule" => FieldsFound
  /\ Close
  /\ init' = IF Top = "initFramework" THEN "idle" ELSE init
  /\ UNCHANGED <<library, engine, statics, g_atrace_fd, contexts, process>>

-----------------------------------------------------------------------------
(***************************************************************************)
(* JNI_OnUnload: the references go, then the ShellContext, the engine and  *)
(* the marker file.  JS_ShutDown follows a null pointer to the helper      *)
(* threads' state if JS_Init has not created it.                           *)
(***************************************************************************)
JNI_OnUnload ==
  /\ Up
  /\ init = "idle"
  /\ stack = <<>>
  /\ library' = "unloaded"
  /\ bridge' = {}
  /\ shellContext' = IF globalContext /\ shellContext = "live"
                     THEN "deleted"
                     ELSE shellContext
  /\ IF engine = "Running"
     THEN engine' = "ShutDown" /\ g_atrace_fd' = FALSE /\ UNCHANGED process
     ELSE process' = "crashed" /\ UNCHANGED <<engine, g_atrace_fd>>
  /\ UNCHANGED <<globalContext, globalObject, init, stack, events, contexts>>

\* The virtual machine gives no environment: the handler returns at once.
UnloadWithoutEnv ==
  /\ Up
  /\ init = "idle"
  /\ stack = <<>>
  /\ library' = "unloaded"
  /\ UNCHANGED <<engine, statics, init, trace, contexts, process>>

InitStep ==
  \/ JS_Init \/ JS_NewContext \/ MakeShellContext \/ MakeGlobalObject
  \/ StartATrace \/ BeginScript

Next ==
  \/ JNI_OnLoad
  \/ native_initFramework
  \/ InitStep
  \/ native_execJS \/ native_execJSService
  \/ \E scope \in JavaCalls : Callback(scope)
  \/ Return \/ ResultUnreadable
  \/ JNI_OnUnload \/ UnloadWithoutEnv

Spec == Init /\ [][Next]_vars

-----------------------------------------------------------------------------
(***************************************************************************)
(* Properties.                                                             *)
(***************************************************************************)

\* The statics, the engine's state and the history stay within their types.
TypeOK ==
  /\ library \in {"absent", "loaded", "refused", "unloaded"}
  /\ engine \in {"Uninitialized", "Running", "ShutDown"}
  /\ globalContext \in BOOLEAN
  /\ shellContext \in {"null", "live", "deleted"}
  /\ globalObject \in BOOLEAN
  /\ bridge \in SUBSET (ClassRefs \union {"jThis"})
  /\ init \in {"idle", "JS_Init", "JS_NewContext", "ShellContext", "global",
              "trace", "scope", "script"}
  /\ stack \in Seq(NativeCalls \union JavaCalls)
  /\ Len(stack) <= MaxDepth
  /\ g_atrace_fd \in BOOLEAN
  /\ events \in 0 .. MaxDepth
  /\ contexts \in {0, 1}
  /\ process \in {"up", "crashed"}

\* Whatever failed before, the loading of the library included, JavaScript only
\* ever runs with what the callbacks, the reports and the job queue use without
\* a test: the ShellContext that GetShellContext asserts, the global object, the
\* class of the bridge and jThis.  (jWXLogUtils, the third class, is tested by
\* NativeLog; jWXJSObject, which is not, may be missing: ResultUnreadable.)
CallsFindEverything ==
  stack # <<>> =>
    /\ engine = "Running"
    /\ globalContext
    /\ shellContext = "live"
    /\ globalObject
    /\ {"jBridgeClazz", "jThis"} \subseteq bridge

OpenScopes == {d \in 1..Len(stack) : Traced(stack[d])}

\* However native calls and callbacks nest, and whenever the marker file is
\* opened, the events that it has received are those of the scopes now open:
\* no end event is written without its begin event, and none is missing.
TracePaired ==
  events = IF g_atrace_fd THEN Cardinality(OpenScopes) ELSE 0

\* A context that initFramework left behind by failing half way, or one that
\* a nested call finds, is never replaced by a second one: globalContext is
\* the engine's only context, and JavaScript under it was built from it.
ContextKept == [][globalContext => globalContext' /\ contexts' = contexts]_vars
=============================================================================
