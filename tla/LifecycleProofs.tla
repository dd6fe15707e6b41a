--------------------------- MODULE LifecycleProofs ---------------------------
(***************************************************************************)
(* Proofs of the invariants and of the action property of Lifecycle, for   *)
(* every depth of nesting.                                                 *)
(***************************************************************************)
EXTENDS Lifecycle, FiniteSetTheorems, SequenceTheorems, TLAPS

Building == {"JS_Init", "JS_NewContext", "ShellContext", "global", "trace", "scope"}

(***************************************************************************)
(* What each step of native_initFramework may rely on.                     *)
(***************************************************************************)
BuildInv ==
  /\ init # "idle" => library = "loaded"
  /\ init \in Building => stack = <<>>
  /\ init = "JS_Init" => ~globalContext
  /\ init = "JS_NewContext" => ~globalContext /\ engine = "Running"
  /\ init \in {"ShellContext", "global", "trace", "scope"} => globalContext
  /\ init = "global" => shellContext = "live"
  /\ init \in {"trace", "scope"} => globalObject

(***************************************************************************)
(* What the statics say of one another while the library is loaded.        *)
(***************************************************************************)
StaticsInv ==
  /\ contexts = IF globalContext THEN 1 ELSE 0
  /\ library = "absent" => ~globalContext /\ ~globalObject
  /\ library = "loaded" => "jBridgeClazz" \in bridge
  /\ library = "loaded" /\ globalContext => engine = "Running"
  /\ library = "loaded" /\ globalObject =>
       globalContext /\ shellContext = "live" /\ "jThis" \in bridge

(***************************************************************************)
(* The stack: native_initFramework is at its bottom, and only while its    *)
(* script runs; a call is there only with a global object.                 *)
(***************************************************************************)
StackInv ==
  /\ stack # <<>> => library = "loaded" /\ globalObject
  /\ init = "script" => stack # <<>> /\ stack[1] = "initFramework"
  /\ \A d \in 1..Len(stack) :
       stack[d] = "initFramework" => d = 1 /\ init = "script"

IInv == TypeOK /\ BuildInv /\ StaticsInv /\ StackInv /\ TracePaired

-----------------------------------------------------------------------------
(***************************************************************************)
(* The scopes that are open.                                               *)
(***************************************************************************)

\* Open scopes are places of the stack, so there are finitely many.
LEMMA OpenScopesFinite ==
  ASSUME TypeOK
  PROVE  /\ IsFiniteSet(OpenScopes)
         /\ Cardinality(OpenScopes) \in 0..Len(stack)
<1>1. Len(stack) \in Nat
  BY DEF TypeOK
<1>2. IsFiniteSet(1..Len(stack)) /\ Cardinality(1..Len(stack)) = Len(stack)
  <2>1. 1 \in Int /\ Len(stack) \in Int
    BY <1>1
  <2>2. /\ IsFiniteSet(1..Len(stack))
        /\ Cardinality(1..Len(stack)) = IF 1 > Len(stack) THEN 0 ELSE Len(stack) - 1 + 1
    BY <2>1, FS_Interval, Zenon
  <2>. QED
    BY <1>1, <2>2
<1>3. OpenScopes \in SUBSET (1..Len(stack))
  BY DEF OpenScopes
<1>4. IsFiniteSet(OpenScopes) /\ Cardinality(OpenScopes) <= Len(stack)
  BY <1>2, <1>3, FS_Subset
<1>5. Cardinality(OpenScopes) \in Nat
  BY <1>4, FS_CardinalityType
<1>. QED
  BY <1>1, <1>4, <1>5

\* Open begins one scope, which is counted if it is traced.
LEMMA OpenCounts ==
  ASSUME TypeOK, TracePaired, NEW scope \in NativeCalls \union JavaCalls,
         Open(scope), UNCHANGED g_atrace_fd
  PROVE  /\ stack' \in Seq(NativeCalls \union JavaCalls)
         /\ Len(stack') = Len(stack) + 1
         /\ Len(stack') <= MaxDepth
         /\ \A d \in 1..Len(stack) : stack'[d] = stack[d]
         /\ stack'[Len(stack) + 1] = scope
         /\ events' \in 0..MaxDepth
         /\ TracePaired'
<1>1. Len(stack) \in Nat /\ stack \in Seq(NativeCalls \union JavaCalls)
  BY DEF TypeOK
<1>2. /\ stack' \in Seq(NativeCalls \union JavaCalls)
      /\ Len(stack') = Len(stack) + 1
      /\ \A d \in 1..Len(stack) : stack'[d] = stack[d]
      /\ stack'[Len(stack) + 1] = scope
  BY <1>1 DEF Open
<1>3. OpenScopes' = IF Traced(scope) THEN OpenScopes \union {Len(stack) + 1}
                    ELSE OpenScopes
  BY <1>1, <1>2 DEF OpenScopes
<1>4. Len(stack) + 1 \notin OpenScopes
  BY <1>1 DEF OpenScopes
<1>5. Cardinality(OpenScopes') = IF Traced(scope) THEN Cardinality(OpenScopes) + 1
                                 ELSE Cardinality(OpenScopes)
  BY <1>3, <1>4, OpenScopesFinite, FS_AddElement
<1>6. TracePaired'
  BY <1>5 DEF TracePaired, Open
<1>7. Len(stack') <= MaxDepth
  BY <1>1, <1>2, DepthAssumption DEF Open
<1>8. events' \in 0..MaxDepth
  BY <1>1, <1>2, <1>5, <1>6, <1>7, OpenScopesFinite, DepthAssumption DEF TracePaired
<1>. QED
  BY <1>2, <1>6, <1>7, <1>8

\* Close ends the last one.
LEMMA CloseCounts ==
  ASSUME TypeOK, TracePaired, stack # <<>>, Close, UNCHANGED g_atrace_fd
  PROVE  /\ stack' \in Seq(NativeCalls \union JavaCalls)
         /\ Len(stack') = Len(stack) - 1
         /\ Len(stack') <= MaxDepth
         /\ \A d \in 1..Len(stack') : stack'[d] = stack[d]
         /\ events' \in 0..MaxDepth
         /\ TracePaired'
<1>1. /\ Len(stack) \in Nat \ {0}
      /\ stack \in Seq(NativeCalls \union JavaCalls)
      /\ Len(stack) <= MaxDepth
  BY DEF TypeOK
<1>2. /\ stack' \in Seq(NativeCalls \union JavaCalls)
      /\ Len(stack') = Len(stack) - 1
      /\ \A d \in 1..Len(stack') : stack'[d] = stack[d]
  <2>. DEFINE S == NativeCalls \union JavaCalls
             n == Len(stack) - 1
  <2>1. n \in Nat /\ 1 \in Int /\ n \in Int /\ \A i \in 1..n : stack[i] \in S
    BY <1>1
  <2>2. stack' = SubSeq(stack, 1, n)
    BY DEF Close
  <2>. HIDE DEF S, n
  <2>3. /\ SubSeq(stack, 1, n) \in Seq(S)
        /\ Len(SubSeq(stack, 1, n)) = IF 1 <= n THEN n - 1 + 1 ELSE 0
        /\ \A i \in 1..(n - 1 + 1) : SubSeq(stack, 1, n)[i] = stack[1 + i - 1]
    BY <2>1, SubSeqProperties
  <2>4. stack' \in Seq(S) /\ Len(stack') = n
    BY <2>1, <2>2, <2>3
  <2>5. \A i \in 1..n : stack'[i] = stack[i]
    BY <2>1, <2>2, <2>3
  <2>. QED
    BY <2>4, <2>5 DEF S, n
<1>3. OpenScopes' = OpenScopes \ {Len(stack)}
  BY <1>1, <1>2 DEF OpenScopes
<1>4. Len(stack) \in OpenScopes <=> Traced(Top)
  BY <1>1 DEF OpenScopes, Top
<1>5. Cardinality(OpenScopes') = IF Traced(Top) THEN Cardinality(OpenScopes) - 1
                                 ELSE Cardinality(OpenScopes)
  BY <1>3, <1>4, OpenScopesFinite, FS_RemoveElement
<1>6. TracePaired'
  BY <1>5 DEF TracePaired, Close
<1>7. IsFiniteSet(OpenScopes')
  BY <1>3, OpenScopesFinite, FS_RemoveElement
<1>8. Cardinality(OpenScopes') \in Nat
  BY <1>7, FS_CardinalityType
<1>9. events' \in 0..MaxDepth
  BY <1>1, <1>5, <1>6, <1>8, OpenScopesFinite, DepthAssumption DEF TracePaired
<1>. QED
  BY <1>1, <1>2, <1>6, <1>9, DepthAssumption

\* With nothing on the stack no scope is open.
LEMMA NoScopes == stack = <<>> => Cardinality(OpenScopes) = 0
<1>1. stack = <<>> => OpenScopes = {}
  BY DEF OpenScopes
<1>. QED
  BY <1>1, FS_EmptySet

-----------------------------------------------------------------------------
(***************************************************************************)
(* The inductive invariant.                                                *)
(***************************************************************************)

LEMMA InitIInv == Init => IInv
<1>. SUFFICES ASSUME Init PROVE IInv
  OBVIOUS
<1>1. TypeOK
  <2>1. stack \in Seq(NativeCalls \union JavaCalls) /\ Len(stack) = 0
    BY DEF Init
  <2>2. bridge \in SUBSET (ClassRefs \union {"jThis"})
    BY DEF Init
  <2>3. 0 \in 0..MaxDepth /\ 0 <= MaxDepth
    BY DepthAssumption
  <2>. QED
    BY <2>1, <2>2, <2>3 DEF Init, TypeOK
<1>2. TracePaired
  BY DEF Init, TracePaired
<1>. QED
  BY <1>1, <1>2 DEF Init, IInv, BuildInv, StaticsInv, StackInv, Building

\* A step that leaves the stack and the trace alone.
LEMMA TraceUnchanged ==
  ASSUME TracePaired, UNCHANGED trace
  PROVE  TracePaired'
BY DEF TracePaired, OpenScopes, trace

LEMMA NextIInv == IInv /\ [Next]_vars => IInv'
<1>. SUFFICES ASSUME IInv, [Next]_vars PROVE IInv'
  OBVIOUS
<1>. USE DEF IInv
<1>1. CASE JNI_OnLoad
  <2>1. TracePaired'
    BY <1>1, TraceUnchanged DEF JNI_OnLoad
  <2>2. TypeOK'
    BY <1>1 DEF JNI_OnLoad, TypeOK, trace
  <2>3. StaticsInv'
    BY <1>1 DEF JNI_OnLoad, StaticsInv
  <2>. QED
    BY <1>1, <2>1, <2>2, <2>3 DEF JNI_OnLoad, BuildInv, StackInv, Building, trace
<1>2. CASE native_initFramework
  <2>1. TracePaired'
    BY <1>2, TraceUnchanged DEF native_initFramework
  <2>2. stack = <<>>
    BY <1>2 DEF native_initFramework, StackInv, StaticsInv
  <2>. QED
    BY <1>2, <2>1, <2>2 DEF native_initFramework, InJava, Up, TypeOK, BuildInv,
                            StaticsInv, StackInv, Building, trace, statics
<1>3. CASE JS_Init
  <2>1. TracePaired'
    BY <1>3, TraceUnchanged DEF JS_Init
  <2>. QED
    BY <1>3, <2>1 DEF JS_Init, Up, TypeOK, BuildInv, StaticsInv, StackInv, Building,
                      trace, statics
<1>4. CASE JS_NewContext
  <2>1. TracePaired'
    BY <1>4, TraceUnchanged DEF JS_NewContext
  <2>2. TypeOK'
    <3>1. contexts' \in {0, 1}
      BY <1>4 DEF JS_NewContext, TypeOK, BuildInv, StaticsInv
    <3>. QED
      BY <1>4, <3>1 DEF JS_NewContext, TypeOK, trace
  <2>3. StaticsInv'
    BY <1>4 DEF JS_NewContext, Up, StaticsInv, BuildInv
  <2>. QED
    BY <1>4, <2>1, <2>2, <2>3 DEF JS_NewContext, Up, BuildInv, StackInv, Building, trace
<1>5. CASE MakeShellContext
  <2>1. TracePaired'
    BY <1>5, TraceUnchanged DEF MakeShellContext
  <2>. QED
    BY <1>5, <2>1 DEF MakeShellContext, Up, TypeOK, BuildInv, StaticsInv, StackInv,
                      Building, trace
<1>6. CASE MakeGlobalObject
  <2>1. TracePaired'
    BY <1>6, TraceUnchanged DEF MakeGlobalObject
  <2>2. TypeOK'
    BY <1>6 DEF MakeGlobalObject, Up, TypeOK, trace
  <2>3. StaticsInv'
    BY <1>6 DEF MakeGlobalObject, Up, StaticsInv, BuildInv
  <2>. QED
    BY <1>6, <2>1, <2>2, <2>3 DEF MakeGlobalObject, Up, BuildInv, StackInv, Building,
                                  trace
<1>7. CASE StartATrace
  <2>1. stack = <<>> /\ stack' = <<>> /\ events' = events
    BY <1>7 DEF StartATrace, BuildInv, Building
  <2>2. Cardinality(OpenScopes) = 0 /\ Cardinality(OpenScopes') = 0
    BY <2>1, NoScopes DEF OpenScopes
  <2>3. TracePaired'
    BY <2>1, <2>2 DEF TracePaired
  <2>. QED
    BY <1>7, <2>1, <2>3 DEF StartATrace, Up, TypeOK, BuildInv, StaticsInv, StackInv,
                            Building, statics
<1>8. CASE BeginScript
  <2>1. stack = <<>> /\ globalObject /\ library = "loaded"
    BY <1>8 DEF BeginScript, BuildInv, Building
  <2>2. "initFramework" \in NativeCalls \union JavaCalls
    BY DEF NativeCalls
  <2>3. /\ stack' \in Seq(NativeCalls \union JavaCalls)
        /\ Len(stack') = 1 /\ Len(stack') <= MaxDepth
        /\ stack'[1] = "initFramework"
        /\ events' \in 0..MaxDepth
        /\ TracePaired'
    BY <1>8, <2>1, <2>2, OpenCounts DEF BeginScript
  <2>. QED
    BY <1>8, <2>1, <2>3 DEF BeginScript, Up, TypeOK, BuildInv, StaticsInv, StackInv,
                            Building, statics
<1>9. ASSUME NEW fn \in {"execJS", "execJSService"}, NEW found, Call(fn, found)
      PROVE  IInv'
  <2>1. CASE globalContext /\ globalObject /\ found
    <3>1. fn \in NativeCalls \union JavaCalls
      BY DEF NativeCalls
    <3>2. /\ stack' \in Seq(NativeCalls \union JavaCalls)
          /\ Len(stack') = Len(stack) + 1 /\ Len(stack') <= MaxDepth
          /\ \A d \in 1..Len(stack) : stack'[d] = stack[d]
          /\ stack'[Len(stack) + 1] = fn
          /\ events' \in 0..MaxDepth
          /\ TracePaired'
      BY <1>9, <2>1, <3>1, OpenCounts DEF Call
    <3>3. Len(stack) \in Nat /\ library = "loaded" /\ init \in {"idle", "script"}
      BY <1>9 DEF Call, InJava, Up, TypeOK
    <3>4. StackInv'
      BY <1>9, <2>1, <3>2, <3>3 DEF Call, StackInv, statics
    <3>. QED
      BY <1>9, <2>1, <3>2, <3>3, <3>4 DEF Call, TypeOK, BuildInv, StaticsInv,
                                           Building, statics
  <2>2. CASE ~(globalContext /\ globalObject /\ found)
    <3>1. TracePaired'
      BY <1>9, <2>2, TraceUnchanged DEF Call, trace
    <3>. QED
      BY <1>9, <2>2, <3>1 DEF Call, TypeOK, BuildInv, StaticsInv, StackInv,
                              Building, statics
  <2>. QED
    BY <2>1, <2>2
<1>10. ASSUME NEW scope \in JavaCalls, Callback(scope) PROVE IInv'
  <2>1. /\ stack' \in Seq(NativeCalls \union JavaCalls)
        /\ Len(stack') = Len(stack) + 1 /\ Len(stack') <= MaxDepth
        /\ \A d \in 1..Len(stack) : stack'[d] = stack[d]
        /\ stack'[Len(stack) + 1] = scope
        /\ events' \in 0..MaxDepth
        /\ TracePaired'
    BY <1>10, OpenCounts DEF Callback
  <2>2. /\ Len(stack) \in Nat \ {0} /\ library = "loaded"
        /\ init \in {"idle", "script"} /\ stack # <<>>
    BY <1>10 DEF Callback, InJavaScript, Up, TypeOK
  <2>3. scope # "initFramework"
    BY DEF JavaCalls
  <2>4. StackInv'
    BY <1>10, <2>1, <2>2, <2>3 DEF Callback, StackInv, statics
  <2>. QED
    BY <1>10, <2>1, <2>2, <2>4 DEF Callback, TypeOK, BuildInv, StaticsInv,
                                    Building, statics
<1>11. CASE Return
  <2>1. /\ stack' \in Seq(NativeCalls \union JavaCalls)
        /\ Len(stack') = Len(stack) - 1 /\ Len(stack') <= MaxDepth
        /\ \A d \in 1..Len(stack') : stack'[d] = stack[d]
        /\ events' \in 0..MaxDepth
        /\ TracePaired'
    BY <1>11, CloseCounts DEF Return
  <2>2. Len(stack) \in Nat \ {0} /\ library = "loaded" /\ globalObject
    BY <1>11 DEF Return, Up, TypeOK, StackInv
  <2>3. init \in {"idle", "script"}
    BY <1>11, <2>2 DEF Return, BuildInv, Building, TypeOK
  <2>4. StackInv'
    <3>1. CASE Top = "initFramework"
      <4>. Len(stack) \in 1..Len(stack)
        BY <2>2
      <4>1. Len(stack) = 1
        BY <3>1 DEF StackInv, Top
      <4>2. stack' = <<>>
        BY <2>1, <4>1
      <4>. QED
        BY <1>11, <3>1, <4>2 DEF Return, StackInv
    <3>2. CASE Top # "initFramework"
      <4>1. init = "script" => Len(stack) # 1
        BY <2>2, <3>2 DEF StackInv, Top
      <4>2. init' = init /\ library' = library /\ globalObject' = globalObject
        BY <1>11, <3>2 DEF Return, statics
      <4>. QED
        BY <2>1, <2>2, <4>1, <4>2 DEF StackInv
    <3>. QED
      BY <3>1, <3>2
  <2>. QED
    BY <1>11, <2>1, <2>2, <2>3, <2>4 DEF Return, TypeOK, BuildInv, StaticsInv,
                                          Building, statics
<1>12. CASE JNI_OnUnload
  <2>1. stack = <<>> /\ stack' = <<>> /\ events' = events
    BY <1>12 DEF JNI_OnUnload
  <2>2. Cardinality(OpenScopes) = 0 /\ Cardinality(OpenScopes') = 0
    BY <2>1, NoScopes DEF OpenScopes
  <2>3. TracePaired'
    BY <2>1, <2>2 DEF TracePaired
  <2>. QED
    BY <1>12, <2>1, <2>3 DEF JNI_OnUnload, Up, TypeOK, BuildInv, StaticsInv, StackInv,
                             Building, ClassRefs
<1>13. CASE UnloadWithoutEnv
  <2>1. TracePaired'
    BY <1>13, TraceUnchanged DEF UnloadWithoutEnv
  <2>. QED
    BY <1>13, <2>1 DEF UnloadWithoutEnv, Up, TypeOK, BuildInv, StaticsInv, StackInv,
                       Building, trace, statics
<1>14. CASE ResultUnreadable
  <2>1. TracePaired'
    BY <1>14, TraceUnchanged DEF ResultUnreadable
  <2>. QED
    BY <1>14, <2>1 DEF ResultUnreadable, TypeOK, BuildInv, StaticsInv, StackInv,
                       Building, trace, statics
<1>15. CASE UNCHANGED vars
  <2>1. TracePaired'
    BY <1>15, TraceUnchanged DEF vars
  <2>. QED
    BY <1>15, <2>1 DEF vars, TypeOK, BuildInv, StaticsInv, StackInv, trace, statics
<1>. QED
  BY <1>1, <1>2, <1>3, <1>4, <1>5, <1>6, <1>7, <1>8, <1>9, <1>10, <1>11, <1>12,
     <1>13, <1>14, <1>15
  DEF Next, InitStep, native_execJS, native_execJSService

LEMMA Invariance == Spec => []IInv
BY InitIInv, NextIInv, PTL DEF Spec

-----------------------------------------------------------------------------
(***************************************************************************)
(* The theorems.                                                           *)
(***************************************************************************)

\* The statics, the engine's state and the history keep their types.
THEOREM TypeCorrect == Spec => []TypeOK
<1>1. IInv => TypeOK
  BY DEF IInv
<1>. QED
  BY <1>1, Invariance, PTL

\* Whatever step of native_initFramework failed, at whatever attempt, no
\* JavaScript runs and no callback is made without the engine, the context,
\* the ShellContext, the global object, the class of the bridge and jThis, of
\* whichever classes FindClass answered NULL when the library was loaded.
THEOREM EverythingFound == Spec => []CallsFindEverything
<1>1. IInv => CallsFindEverything
  BY DEF IInv, TypeOK, StackInv, StaticsInv, CallsFindEverything
<1>. QED
  BY <1>1, Invariance, PTL

\* At any depth, the begin events in the marker file exceed the end events by
\* the number of traced scopes that are open.
THEOREM EventsPaired == Spec => []TracePaired
<1>1. IInv => TracePaired
  BY DEF IInv
<1>. QED
  BY <1>1, Invariance, PTL

\* globalContext, once set, is never replaced: native_initFramework and
\* JS_NewContext run only while there is none.
THEOREM ContextIsKept == Spec => ContextKept
<1>1. IInv /\ [Next]_vars => [globalContext => globalContext' /\ contexts' = contexts]_vars
  <2>. SUFFICES ASSUME IInv, Next, globalContext
                PROVE  globalContext' /\ contexts' = contexts
    OBVIOUS
  <2>1. ~JS_NewContext
    BY DEF JS_NewContext, IInv, BuildInv
  <2>. QED
    BY <2>1 DEF Next, InitStep, JNI_OnLoad, native_initFramework, JS_Init,
      MakeShellContext, MakeGlobalObject, StartATrace, BeginScript, native_execJS,
      native_execJSService, Call, Callback, Return, ResultUnreadable, JNI_OnUnload, UnloadWithoutEnv,
      statics
<1>. QED
  BY <1>1, Invariance, PTL DEF Spec, ContextKept
=============================================================================
