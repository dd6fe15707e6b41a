--------------------------- MODULE LocalRefsProofs ---------------------------
(***************************************************************************)
(* Proofs about LocalRefs, for every depth of nesting, any number of       *)
(* callbacks, arguments and options.                                       *)
(***************************************************************************)
EXTENDS LocalRefs, FiniteSetTheorems, SequenceTheorems, TLAPS

NativePcs == {"env", "args", "bad argument", "script", "reported", "version", "drain",
              "failed"}

\* The string buffers an activation may have to release.
CharsAt(pc) ==
  CASE pc = "env" -> {"c_key"}
    [] pc = "bad argument" -> {"jDataObj"}
    [] pc \in {"script", "reported"} -> {"source", "func", "_namespace"}
    [] pc \in {"version", "drain", "failed"} -> {"func"}
    [] OTHER -> {}

CharNames == {"c_key", "jDataObj", "source", "func", "_namespace"}

RefNames ==
  {"result", "jArg", "jDataObj", "options", "jobjArray"}
    \union EnvironmentRefs
    \union UNION {Deleted(fn) : fn \in Functions}

Activations ==
  [fn : NativeCalls \union Functions, pc : NativePcs \union {"convert", "java"},
   i : Nat, argc : Nat, live : SUBSET RefNames, chars : SUBSET CharNames]

\* Activation a is in order as the n-th of the stack: it holds no reference
\* that it does not delete on its way out.
ActivationOK(a, n) ==
  /\ a \in Activations
  /\ a.pc \in IF a.fn \in NativeCalls THEN NativePcs ELSE {"convert", "java"}
  /\ a.chars \subseteq CharsAt(a.pc)
  /\ a.fn = "initFramework" => n = 1
  /\ n = 1 => a.fn \in NativeCalls
  /\ a.pc = "env" => /\ {"options", "jobjArray"} \subseteq a.live
                     /\ a.live \subseteq EnvironmentRefs \union {"options", "jobjArray"}
  /\ a.pc = "convert" => a.i \in 1..Len(Params(a.fn))
  /\ a.fn \in Functions => a.live \subseteq Deleted(a.fn)
  /\ a.fn = "nativeLog" /\ a.pc = "convert" =>
       a.live \subseteq IF a.i = 1 THEN {} ELSE {"str_msg"}

StackInv ==
  /\ stack \in Seq(Activations)
  /\ \A n \in 1..Len(stack) : ActivationOK(stack[n], n)

Natives(s) == {n \in 1..Len(s) : s[n].fn \in NativeCalls}

BagSet == UNION {[S -> Nat] : S \in SUBSET RefNames}

Frame == [lost : BagSet, modules : Nat]

\* Each native call has its frame.
FrameInv ==
  /\ frames \in Seq(Frame)
  /\ Cardinality(Natives(stack)) = Len(frames)

ProcessInv ==
  /\ logging \in BOOLEAN
  /\ process \in {"loaded", "initialising", "ready", "unloaded", "aborted"}
  /\ process = "unloaded" => stack = <<>>
  /\ callbacks \in 0..MaxCallbacks

IInv ==
  /\ StackInv
  /\ FrameInv
  /\ ProcessInv
  /\ OnlyResultsLost
  /\ BuffersReleased

USE LocalRefsAssumption

-----------------------------------------------------------------------------
(***************************************************************************)
(* References and frames.                                                  *)
(***************************************************************************)

\* Losing references adds each of them once.
LEMMA Losing ==
  ASSUME NEW lost \in BagSet, NEW refs \in SUBSET RefNames
  PROVE  /\ lost (+) SetToBag(refs) \in BagSet
         /\ BagToSet(lost (+) SetToBag(refs)) = BagToSet(lost) \union refs
         /\ Copies("result", lost (+) SetToBag(refs)) =
              Copies("result", lost) + (IF "result" \in refs THEN 1 ELSE 0)
         /\ Copies("result", lost) \in Nat
<1>1. PICK S \in SUBSET RefNames : lost \in [S -> Nat]
  BY DEF BagSet
<1> DEFINE sum == lost (+) SetToBag(refs)
<1>2. /\ DOMAIN lost = S
      /\ DOMAIN sum = S \union refs
      /\ sum = [e \in S \union refs |-> sum[e]]
  BY <1>1 DEF SetToBag, (+)
<1>3. \A e \in S \union refs :
        sum[e] = (IF e \in S THEN lost[e] ELSE 0) + (IF e \in refs THEN 1 ELSE 0)
  BY <1>1 DEF SetToBag, (+)
<1>4. \A e \in S \union refs : sum[e] \in Nat
  BY <1>1, <1>3
<1> HIDE DEF sum
<1>5. sum \in [S \union refs -> Nat]
  BY <1>2, <1>4
<1>6. sum \in BagSet
  BY <1>5, S \union refs \in SUBSET RefNames DEF BagSet
<1>7. Copies("result", lost) = (IF "result" \in S THEN lost["result"] ELSE 0)
  BY <1>2 DEF BagToSet, BagIn, Copies
<1>8. Copies("result", lost) \in Nat
  BY <1>1, <1>7
<1>9. Copies("result", sum) =
        Copies("result", lost) + (IF "result" \in refs THEN 1 ELSE 0)
  <2>1. CASE "result" \in S \union refs
    BY <1>2, <1>3, <1>7, <2>1 DEF BagToSet, BagIn, Copies
  <2>2. CASE "result" \notin S \union refs
    BY <1>2, <1>7, <2>2 DEF BagToSet, BagIn, Copies
  <2>3. QED
    BY <2>1, <2>2
<1>10. BagToSet(sum) = BagToSet(lost) \union refs
  BY <1>2 DEF BagToSet
<1>11. QED
  BY <1>6, <1>8, <1>9, <1>10 DEF sum

LEMMA NewFrameOK ==
  /\ NewFrame \in Frame
  /\ NewFrame.modules = 0
  /\ BagToSet(NewFrame.lost) = {}
  /\ Copies("result", NewFrame.lost) = 0
<1>1. EmptyBag \in [{} -> Nat] /\ {} \in SUBSET RefNames
  BY DEF EmptyBag, SetToBag
<1>2. EmptyBag \in BagSet
  BY <1>1 DEF BagSet
<1>3. NewFrame = [lost |-> EmptyBag, modules |-> 0]
  BY DEF NewFrame
<1>4. QED
  BY <1>1, <1>2, <1>3 DEF Frame, BagToSet, BagIn, Copies

\* Every reference a function makes it also deletes.
LEMMA ParamFacts ==
  ASSUME NEW fn \in Functions
  PROVE  /\ Len(Params(fn)) \in Nat \ {0}
         /\ \A i \in 1..Len(Params(fn)) :
              Params(fn)[i].ref \in Deleted(fn)
         /\ fn = "nativeLog" => Len(Params(fn)) = 2 /\ Params(fn)[1].ref = "str_msg"
<1>1. CASE fn = "callNative"
  <2>1. Params(fn) = <<[ref |-> "jInstanceId", as |-> "string"],
                       [ref |-> "jTaskString", as |-> "bytes"],
                       [ref |-> "jCallback", as |-> "string"]>>
    BY <1>1 DEF Params
  <2>2. /\ Len(Params(fn)) = 3
        /\ Params(fn)[1].ref = "jInstanceId"
        /\ Params(fn)[2].ref = "jTaskString"
        /\ Params(fn)[3].ref = "jCallback"
    BY <2>1
  <2>3. \A i \in 1..3 : i = 1 \/ i = 2 \/ i = 3
    OBVIOUS
  <2>4. QED
    BY <1>1, <2>2, <2>3 DEF Deleted
<1>2. CASE fn = "callNativeModule"
  <2>1. Params(fn) = <<[ref |-> "jInstanceId", as |-> "string"],
                       [ref |-> "jmodule", as |-> "string"],
                       [ref |-> "jmethod", as |-> "string"],
                       [ref |-> "jArgString", as |-> "bytes"],
                       [ref |-> "jOptString", as |-> "bytes"]>>
    BY <1>2 DEF Params
  <2>2. /\ Len(Params(fn)) = 5
        /\ Params(fn)[1].ref = "jInstanceId"
        /\ Params(fn)[2].ref = "jmodule"
        /\ Params(fn)[3].ref = "jmethod"
        /\ Params(fn)[4].ref = "jArgString"
        /\ Params(fn)[5].ref = "jOptString"
    BY <2>1
  <2>3. \A i \in 1..5 : i = 1 \/ i = 2 \/ i = 3 \/ i = 4 \/ i = 5
    OBVIOUS
  <2>4. QED
    BY <1>2, <2>2, <2>3 DEF Deleted
<1>3. CASE fn = "callNativeComponent"
  <2>1. Params(fn) = <<[ref |-> "jInstanceId", as |-> "string"],
                       [ref |-> "jcomponentRef", as |-> "string"],
                       [ref |-> "jmethod", as |-> "string"],
                       [ref |-> "jArgString", as |-> "bytes"],
                       [ref |-> "jOptString", as |-> "bytes"]>>
    BY <1>3 DEF Params
  <2>2. /\ Len(Params(fn)) = 5
        /\ Params(fn)[1].ref = "jInstanceId"
        /\ Params(fn)[2].ref = "jcomponentRef"
        /\ Params(fn)[3].ref = "jmethod"
        /\ Params(fn)[4].ref = "jArgString"
        /\ Params(fn)[5].ref = "jOptString"
    BY <2>1
  <2>3. \A i \in 1..5 : i = 1 \/ i = 2 \/ i = 3 \/ i = 4 \/ i = 5
    OBVIOUS
  <2>4. QED
    BY <1>3, <2>2, <2>3 DEF Deleted
<1>4. CASE fn = "callAddElement"
  <2>1. Params(fn) = <<[ref |-> "jInstanceId", as |-> "string"],
                       [ref |-> "jref", as |-> "string"],
                       [ref |-> "jdomString", as |-> "bytes"],
                       [ref |-> "jindex", as |-> "string"],
                       [ref |-> "jCallback", as |-> "string"]>>
    BY <1>4 DEF Params
  <2>2. /\ Len(Params(fn)) = 5
        /\ Params(fn)[1].ref = "jInstanceId"
        /\ Params(fn)[2].ref = "jref"
        /\ Params(fn)[3].ref = "jdomString"
        /\ Params(fn)[4].ref = "jindex"
        /\ Params(fn)[5].ref = "jCallback"
    BY <2>1
  <2>3. \A i \in 1..5 : i = 1 \/ i = 2 \/ i = 3 \/ i = 4 \/ i = 5
    OBVIOUS
  <2>4. QED
    BY <1>4, <2>2, <2>3 DEF Deleted
<1>5. CASE fn = "setTimeoutNative"
  <2>1. Params(fn) = <<[ref |-> "jCallbackID", as |-> "string"],
                       [ref |-> "jTime", as |-> "string"]>>
    BY <1>5 DEF Params
  <2>2. /\ Len(Params(fn)) = 2
        /\ Params(fn)[1].ref = "jCallbackID"
        /\ Params(fn)[2].ref = "jTime"
    BY <2>1
  <2>3. \A i \in 1..2 : i = 1 \/ i = 2
    OBVIOUS
  <2>4. QED
    BY <1>5, <2>2, <2>3 DEF Deleted
<1>6. CASE fn = "nativeLog"
  <2>1. Params(fn) = <<[ref |-> "str_msg", as |-> "string"],
                       [ref |-> "str_tag", as |-> "chars"]>>
    BY <1>6 DEF Params
  <2>2. /\ Len(Params(fn)) = 2
        /\ Params(fn)[1].ref = "str_msg"
        /\ Params(fn)[2].ref = "str_tag"
    BY <2>1
  <2>3. \A i \in 1..2 : i = 1 \/ i = 2
    OBVIOUS
  <2>4. QED
    BY <1>6, <2>2, <2>3 DEF Deleted
<1>7. CASE fn = "reportException"
  <2>1. Params(fn) = <<[ref |-> "jExceptionString", as |-> "chars"],
                       [ref |-> "jFunc", as |-> "chars"]>>
    BY <1>7 DEF Params
  <2>2. /\ Len(Params(fn)) = 2
        /\ Params(fn)[1].ref = "jExceptionString"
        /\ Params(fn)[2].ref = "jFunc"
    BY <2>1
  <2>3. \A i \in 1..2 : i = 1 \/ i = 2
    OBVIOUS
  <2>4. QED
    BY <1>7, <2>2, <2>3 DEF Deleted
<1>8. CASE fn = "setJSFVersion"
  <2>1. Params(fn) = <<[ref |-> "jversion", as |-> "chars"]>>
    BY <1>8 DEF Params
  <2>2. /\ Len(Params(fn)) = 1
        /\ Params(fn)[1].ref = "jversion"
    BY <2>1
  <2>3. \A i \in 1..1 : i = 1
    OBVIOUS
  <2>4. QED
    BY <1>8, <2>2, <2>3 DEF Deleted
<1>9. QED
  BY <1>1, <1>2, <1>3, <1>4, <1>5, <1>6, <1>7, <1>8 DEF Functions, Callbacks

LEMMA Disjoint == NativeCalls \intersect Functions = {}
BY DEF NativeCalls, Functions, Callbacks

-----------------------------------------------------------------------------
(***************************************************************************)
(* What a step may do to the stack.                                        *)
(***************************************************************************)
LEMMA FrontFacts ==
  ASSUME NEW B, NEW s \in Seq(B), s # <<>>
  PROVE  /\ Len(s) \in Nat \ {0}
         /\ Front(s) \in Seq(B)
         /\ Len(Front(s)) = Len(s) - 1
         /\ \A n \in 1..(Len(s) - 1) : Front(s)[n] = s[n]
         /\ Last(s) = s[Len(s)]
<1> DEFINE k == Len(s) - 1
<1>1. Len(s) \in Nat \ {0} /\ 1 \in Int /\ k \in Nat /\ k \in Int
  OBVIOUS
<1>2. \A n \in 1..k : s[n] \in B
  BY <1>1
<1>3. Front(s) = SubSeq(s, 1, k)
  BY DEF Front
<1> HIDE DEF k
<1>4. /\ SubSeq(s, 1, k) \in Seq(B)
      /\ Len(SubSeq(s, 1, k)) = IF 1 <= k THEN k - 1 + 1 ELSE 0
      /\ \A n \in 1..(k - 1 + 1) : SubSeq(s, 1, k)[n] = s[1 + n - 1]
  BY <1>1, <1>2, SubSeqProperties
<1>5. Len(Front(s)) = k /\ \A n \in 1..k : Front(s)[n] = s[n]
  BY <1>1, <1>3, <1>4
<1>6. QED
  BY <1>1, <1>3, <1>4, <1>5 DEF Last, k

LEMMA ReplaceLast ==
  ASSUME NEW B, NEW s \in Seq(B), Len(s) # 0, NEW x \in B
  PROVE  LET t == [s EXCEPT ![Len(s)] = x] IN
         /\ t \in Seq(B)
         /\ Len(t) = Len(s)
         /\ t[Len(s)] = x
         /\ \A n \in 1..Len(s) : n # Len(s) => t[n] = s[n]
OBVIOUS

LEMMA NativesFinite ==
  ASSUME NEW s \in Seq(Activations)
  PROVE  IsFiniteSet(Natives(s)) /\ Cardinality(Natives(s)) \in Nat
<1>1. IsFiniteSet(1..Len(s)) /\ Natives(s) \subseteq 1..Len(s)
  BY FS_Interval DEF Natives
<1>2. QED
  BY <1>1, FS_Subset, FS_CardinalityType

\* The activation on top moves on.
LEMMA TopShape ==
  ASSUME StackInv, stack # <<>>, NEW a, ActivationOK(a, Len(stack)), a.fn = Top.fn, Set(a)
  PROVE  /\ StackInv'
         /\ Len(stack') = Len(stack)
         /\ stack'[1].fn = stack[1].fn
         /\ Natives(stack') = Natives(stack)
<1>1. /\ Len(stack) \in Nat \ {0}
      /\ stack \in Seq(Activations)
      /\ a \in Activations
      /\ Top = stack[Len(stack)]
  BY FrontFacts DEF StackInv, ActivationOK, Top
<1>2. /\ stack' \in Seq(Activations)
      /\ Len(stack') = Len(stack)
      /\ stack'[Len(stack)] = a
      /\ \A n \in 1..Len(stack) : n # Len(stack) => stack'[n] = stack[n]
  BY <1>1 DEF Set
<1>3. \A n \in 1..Len(stack) : ActivationOK(stack'[n], n)
  BY <1>2 DEF StackInv
<1>4. \A n \in 1..Len(stack) : stack'[n].fn = stack[n].fn
  BY <1>1, <1>2
<1>5. StackInv'
  <2>1. \A n \in 1..Len(stack') : ActivationOK(stack'[n], n)
    BY <1>2, <1>3
  <2>2. QED
    BY <1>2, <2>1 DEF StackInv, ActivationOK
<1>6. QED
  BY <1>1, <1>2, <1>4, <1>5 DEF Natives

\* Another is put on the stack.
LEMMA PushShape ==
  ASSUME StackInv, NEW a, ActivationOK(a, Len(stack) + 1), stack' = Append(stack, a)
  PROVE  /\ StackInv'
         /\ Len(stack') = Len(stack) + 1
         /\ stack # <<>> => stack'[1] = stack[1]
         /\ Cardinality(Natives(stack')) =
              Cardinality(Natives(stack)) + (IF a.fn \in NativeCalls THEN 1 ELSE 0)
<1>1. stack \in Seq(Activations) /\ Len(stack) \in Nat /\ a \in Activations
  BY DEF StackInv, ActivationOK
<1>2. /\ stack' \in Seq(Activations)
      /\ Len(stack') = Len(stack) + 1
      /\ stack'[Len(stack) + 1] = a
      /\ \A n \in 1..Len(stack) : stack'[n] = stack[n]
  BY <1>1
<1>3. StackInv'
  <2>1. \A n \in 1..Len(stack') : ActivationOK(stack'[n], n)
    <3> TAKE n \in 1..Len(stack')
    <3>1. n \in 1..Len(stack) \/ n = Len(stack) + 1
      BY <1>1, <1>2
    <3>2. QED
      BY <1>2, <3>1 DEF StackInv
  <2>2. QED
    BY <1>2, <2>1 DEF StackInv, ActivationOK
<1>4. stack # <<>> => stack'[1] = stack[1]
  BY <1>1, <1>2
<1>5. Natives(stack') =
        IF a.fn \in NativeCalls THEN Natives(stack) \union {Len(stack) + 1} ELSE Natives(stack)
  <2>1. \A n : n \in 1..Len(stack') <=> n \in 1..Len(stack) \/ n = Len(stack) + 1
    BY <1>1, <1>2
  <2>2. QED
    BY <1>2, <2>1 DEF Natives
<1>6. Len(stack) + 1 \notin Natives(stack)
  BY <1>1 DEF Natives
<1>7. IsFiniteSet(Natives(stack)) /\ Cardinality(Natives(stack)) \in Nat
  BY <1>1, NativesFinite
<1>8. Cardinality(Natives(stack) \union {Len(stack) + 1}) = Cardinality(Natives(stack)) + 1
  BY <1>6, <1>7, FS_AddElement
<1>9. QED
  BY <1>2, <1>3, <1>4, <1>5, <1>7, <1>8

\* A function is called, and its caller moves on to where it will return.
LEMMA CallShape ==
  ASSUME StackInv, stack # <<>>,
         NEW top, ActivationOK(top, Len(stack)), top.fn = Top.fn,
         NEW a, ActivationOK(a, Len(stack) + 1), a.fn \notin NativeCalls,
         stack' = Append(Front(stack) \o <<top>>, a)
  PROVE  /\ StackInv'
         /\ stack'[1].fn = stack[1].fn
         /\ Natives(stack') = Natives(stack)
<1> DEFINE front == Front(stack)
           caller == front \o <<top>>
<1>1. /\ Len(stack) \in Nat \ {0}
      /\ stack \in Seq(Activations)
      /\ a \in Activations
      /\ top \in Activations
      /\ Top = stack[Len(stack)]
      /\ front \in Seq(Activations)
      /\ Len(front) = Len(stack) - 1
      /\ \A n \in 1..(Len(stack) - 1) : front[n] = stack[n]
  BY FrontFacts DEF StackInv, ActivationOK, Top
<1> HIDE DEF front
<1>2. /\ caller \in Seq(Activations)
      /\ Len(caller) = Len(stack)
      /\ caller[Len(stack)] = top
      /\ \A n \in 1..(Len(stack) - 1) : caller[n] = front[n]
  BY <1>1
<1>3. stack' = Append(caller, a)
  BY DEF front
<1> HIDE DEF caller
<1>4. /\ stack' \in Seq(Activations)
      /\ Len(stack') = Len(stack) + 1
      /\ stack'[Len(stack) + 1] = a
      /\ \A n \in 1..Len(stack) : stack'[n] = caller[n]
  <2>1. \A c \in Seq(Activations) :
          /\ Append(c, a) \in Seq(Activations)
          /\ Len(Append(c, a)) = Len(c) + 1
          /\ Append(c, a)[Len(c) + 1] = a
          /\ \A n \in 1..Len(c) : Append(c, a)[n] = c[n]
    BY <1>1
  <2>2. QED
    BY <1>2, <1>3, <2>1
<1>5. \A n \in 1..Len(stack) : \/ n = Len(stack) /\ stack'[n] = top
                               \/ n \in 1..(Len(stack) - 1) /\ stack'[n] = stack[n]
  BY <1>1, <1>2, <1>4
<1>6. \A n \in 1..Len(stack') : n \in 1..Len(stack) \/ n = Len(stack) + 1
  BY <1>1, <1>4
<1>7. \A n \in 1..Len(stack') : ActivationOK(stack'[n], n)
  <2> TAKE n \in 1..Len(stack')
  <2>1. CASE n = Len(stack) + 1
    BY <1>4, <2>1
  <2>2. CASE n \in 1..Len(stack)
    BY <1>5, <2>2 DEF StackInv
  <2>3. QED
    BY <1>6, <2>1, <2>2
<1>8. StackInv'
  BY <1>4, <1>7 DEF StackInv, ActivationOK
<1>9. \A n \in 1..Len(stack) : stack'[n].fn = stack[n].fn
  BY <1>1, <1>5
<1>10. Natives(stack') = Natives(stack)
  <2>1. 1..Len(stack) \subseteq 1..Len(stack')
    BY <1>1, <1>4
  <2>2. QED
    BY <1>4, <1>6, <1>9, <2>1 DEF Natives
<1>11. QED
  BY <1>1, <1>8, <1>9, <1>10

\* The activation on top returns.
LEMMA PopShape ==
  ASSUME StackInv, stack # <<>>, stack' = Front(stack)
  PROVE  /\ StackInv'
         /\ Len(stack') = Len(stack) - 1
         /\ stack' # <<>> => stack'[1] = stack[1]
         /\ Cardinality(Natives(stack')) =
              Cardinality(Natives(stack)) - (IF Top.fn \in NativeCalls THEN 1 ELSE 0)
<1>1. /\ Len(stack) \in Nat \ {0}
      /\ stack \in Seq(Activations)
      /\ Top = stack[Len(stack)]
      /\ stack' \in Seq(Activations)
      /\ Len(stack') = Len(stack) - 1
      /\ \A n \in 1..(Len(stack) - 1) : stack'[n] = stack[n]
  BY FrontFacts DEF StackInv, Top
<1>2. StackInv'
  <2>1. \A n \in 1..Len(stack') : n \in 1..Len(stack) /\ ActivationOK(stack'[n], n)
    BY <1>1 DEF StackInv
  <2>2. QED
    BY <1>1, <2>1 DEF StackInv, ActivationOK
<1>3. stack' # <<>> => stack'[1] = stack[1]
  BY <1>1
<1>4. Natives(stack') = Natives(stack) \ {Len(stack)}
  <2>1. \A n : n \in 1..Len(stack') <=> n \in 1..Len(stack) /\ n # Len(stack)
    BY <1>1
  <2>2. QED
    BY <1>1, <2>1 DEF Natives
<1>5. Len(stack) \in Natives(stack) <=> Top.fn \in NativeCalls
  BY <1>1 DEF Natives
<1>6. IsFiniteSet(Natives(stack)) /\ Cardinality(Natives(stack)) \in Nat
  BY <1>1, NativesFinite
<1>7. CASE Top.fn \in NativeCalls
  <2>1. Cardinality(Natives(stack) \ {Len(stack)}) = Cardinality(Natives(stack)) - 1
    BY <1>5, <1>6, <1>7, FS_RemoveElement
  <2>2. QED
    BY <1>1, <1>2, <1>3, <1>4, <1>7, <2>1
<1>8. CASE Top.fn \notin NativeCalls
  <2>1. Natives(stack') = Natives(stack)
    BY <1>4, <1>5, <1>8
  <2>2. QED
    BY <1>1, <1>2, <1>3, <1>6, <1>8, <2>1
<1>9. QED
  BY <1>7, <1>8

-----------------------------------------------------------------------------
(***************************************************************************)
(* What a step may do to the frames.                                       *)
(***************************************************************************)

\* What OnlyResultsLost says of the frame f.
Allowed(f) ==
  {"result"} \union (IF logging THEN {} ELSE {"str_msg"})
             \union (IF stack[1].fn = "initFramework" /\ f = 1 THEN EnvironmentRefs ELSE {})

Lawful(f) ==
  /\ Copies("result", frames[f].lost) = frames[f].modules
  /\ BagToSet(frames[f].lost) \subseteq Allowed(f)

LEMMA LawfulAll == OnlyResultsLost <=> \A f \in 1..Len(frames) : Lawful(f)
BY DEF OnlyResultsLost, Lawful, Allowed

\* What the invariant says of the activation on top.
LEMMA TopFacts ==
  ASSUME IInv, stack # <<>>
  PROVE  /\ Len(stack) \in Nat \ {0}
         /\ Top = stack[Len(stack)]
         /\ ActivationOK(Top, Len(stack))
         /\ Top \in Activations
         /\ Len(frames) \in Nat \ {0}
         /\ frames[Len(frames)] \in Frame
         /\ Top.fn = "initFramework" => Len(frames) = 1 /\ stack[1].fn = "initFramework"
         /\ process # "unloaded"
<1>1. /\ Len(stack) \in Nat \ {0}
      /\ stack \in Seq(Activations)
      /\ Top = stack[Len(stack)]
  BY FrontFacts DEF IInv, StackInv, Top
<1>2. ActivationOK(Top, Len(stack)) /\ Top \in Activations
  <2>1. ActivationOK(Top, Len(stack))
    BY <1>1 DEF IInv, StackInv
  <2>2. QED
    BY <2>1 DEF ActivationOK
<1>3. 1 \in Natives(stack)
  BY <1>1 DEF IInv, StackInv, ActivationOK, Natives
<1>4. IsFiniteSet(Natives(stack)) /\ Cardinality(Natives(stack)) \in Nat
  BY <1>1, NativesFinite
<1>5. Cardinality(Natives(stack)) # 0
  BY <1>3, <1>4, FS_EmptySet
<1>6. Len(frames) \in Nat \ {0} /\ frames[Len(frames)] \in Frame
  BY <1>4, <1>5 DEF IInv, FrameInv
<1>7. ASSUME Top.fn = "initFramework"
      PROVE  Len(frames) = 1 /\ stack[1].fn = "initFramework"
  <2>1. Len(stack) = 1
    BY <1>2, <1>7 DEF ActivationOK
  <2>2. Natives(stack) = {1}
    BY <1>3, <2>1 DEF Natives
  <2>3. QED
    BY <1>1, <1>7, <2>1, <2>2, FS_Singleton DEF IInv, FrameInv
<1>8. process # "unloaded"
  BY DEF IInv, ProcessInv
<1>9. QED
  BY <1>1, <1>2, <1>6, <1>7, <1>8

\* References are lost from the frame of the running native call.
LEMMA LoseFacts ==
  ASSUME IInv, stack # <<>>, NEW refs \in SUBSET RefNames, Lose(refs),
         "result" \notin refs, refs \subseteq Allowed(Len(frames)),
         stack'[1].fn = stack[1].fn \/ stack' = <<>>, UNCHANGED logging
  PROVE  /\ frames' \in Seq(Frame)
         /\ Len(frames') = Len(frames)
         /\ stack' # <<>> => OnlyResultsLost'
<1> DEFINE last == Len(frames)
           old == frames[last]
           new == [old EXCEPT !.lost = @ (+) SetToBag(refs)]
<1>1. last \in Nat \ {0} /\ old \in Frame /\ frames \in Seq(Frame)
  BY TopFacts DEF IInv, FrameInv
<1>2. old.lost \in BagSet /\ old.modules \in Nat
  BY <1>1 DEF Frame
<1>3. /\ new \in Frame
      /\ new.modules = old.modules
      /\ new.lost = old.lost (+) SetToBag(refs)
  BY <1>1, <1>2, Losing DEF Frame
<1>4. frames' = [frames EXCEPT ![last] = new]
  BY DEF Lose
<1> HIDE DEF new
<1>5. /\ frames' \in Seq(Frame)
      /\ Len(frames') = last
      /\ frames'[last] = new
      /\ \A f \in 1..last : f # last => frames'[f] = frames[f]
  BY <1>1, <1>3, <1>4, ReplaceLast
<1>6. ASSUME stack' # <<>> PROVE \A f \in 1..last : Lawful(f)'
  <2>1. \A f : Allowed(f)' = Allowed(f)
    BY <1>6 DEF Allowed
  <2> TAKE f \in 1..last
  <2>2. Lawful(f)
    BY LawfulAll DEF IInv
  <2>3. CASE f # last
    BY <1>5, <2>1, <2>2, <2>3 DEF Lawful
  <2>4. CASE f = last
    <3>1. /\ Copies("result", new.lost) = Copies("result", old.lost)
          /\ BagToSet(new.lost) = BagToSet(old.lost) \union refs
      BY <1>2, <1>3, Losing
    <3>2. QED
      BY <1>3, <1>5, <2>1, <2>2, <2>4, <3>1 DEF Lawful
  <2>5. QED
    BY <2>3, <2>4
<1>7. QED
  BY <1>5, <1>6 DEF OnlyResultsLost, Lawful, Allowed

\* A module call leaves its result.
LoseResult ==
  frames' = [frames EXCEPT ![Len(frames)].lost = @ (+) SetToBag({"result"}),
                           ![Len(frames)].modules = @ + 1]

LEMMA ModuleFacts ==
  ASSUME IInv, stack # <<>>, UNCHANGED logging, LoseResult, stack'[1].fn = stack[1].fn
  PROVE  /\ frames' \in Seq(Frame)
         /\ Len(frames') = Len(frames)
         /\ OnlyResultsLost'
<1> DEFINE last == Len(frames)
           old == frames[last]
           new == [lost |-> old.lost (+) SetToBag({"result"}), modules |-> old.modules + 1]
<1>1. last \in Nat \ {0} /\ old \in Frame /\ frames \in Seq(Frame)
  BY TopFacts DEF IInv, FrameInv
<1>2. old.lost \in BagSet /\ old.modules \in Nat /\ {"result"} \in SUBSET RefNames
  BY <1>1 DEF Frame, RefNames
<1>3. new \in Frame
  BY <1>2, Losing DEF Frame
<1>4. [[old EXCEPT !.lost = @ (+) SetToBag({"result"})] EXCEPT !.modules = @ + 1] = new
  <2>1. old = [lost |-> old.lost, modules |-> old.modules]
    BY <1>1 DEF Frame
  <2> DEFINE longer == [old EXCEPT !.lost = @ (+) SetToBag({"result"})]
  <2>2. longer = [lost |-> old.lost (+) SetToBag({"result"}), modules |-> old.modules]
    BY <2>1
  <2>3. longer \in Frame /\ longer.lost = new.lost /\ longer.modules = old.modules
    BY <1>2, <2>2, Losing DEF Frame
  <2> HIDE DEF longer
  <2>4. [longer EXCEPT !.modules = @ + 1] = new
    BY <2>3 DEF Frame
  <2>5. QED
    BY <2>4 DEF longer
<1>5. frames' = [frames EXCEPT ![last] = new]
  BY <1>1, <1>4 DEF LoseResult
<1>6. /\ frames' \in Seq(Frame)
      /\ Len(frames') = last
      /\ frames'[last] = new
      /\ \A f \in 1..last : f # last => frames'[f] = frames[f]
  <2> HIDE DEF new
  <2>1. QED
    BY <1>1, <1>3, <1>5, ReplaceLast
<1>7. \A f \in 1..last : Lawful(f)'
  <2>1. \A f : Allowed(f)' = Allowed(f) /\ "result" \in Allowed(f)
    BY DEF Allowed
  <2> TAKE f \in 1..last
  <2>2. Lawful(f)
    BY LawfulAll DEF IInv
  <2>3. CASE f # last
    BY <1>6, <2>1, <2>2, <2>3 DEF Lawful
  <2>4. CASE f = last
    <3>1. /\ Copies("result", new.lost) = Copies("result", old.lost) + 1
          /\ BagToSet(new.lost) = BagToSet(old.lost) \union {"result"}
      BY <1>2, Losing
    <3>2. QED
      BY <1>6, <2>1, <2>2, <2>4, <3>1 DEF Lawful
  <2>5. QED
    BY <2>3, <2>4
<1>8. QED
  BY <1>6, <1>7 DEF OnlyResultsLost, Lawful, Allowed

\* The frames are those that were.
LEMMA FramesKept ==
  ASSUME OnlyResultsLost, UNCHANGED <<frames, logging>>, stack'[1].fn = stack[1].fn
  PROVE  OnlyResultsLost'
BY DEF OnlyResultsLost

LEMMA NoFrames == frames' = <<>> => OnlyResultsLost'
BY DEF OnlyResultsLost

-----------------------------------------------------------------------------
(***************************************************************************)
(* Steps of one kind.                                                      *)
(***************************************************************************)

\* The activation on top moves on, and may lose references.
LEMMA MovedTop ==
  ASSUME IInv, stack # <<>>,
         NEW a, ActivationOK(a, Len(stack)), a.fn = Top.fn, Set(a),
         frames' \in Seq(Frame), Len(frames') = Len(frames), OnlyResultsLost',
         process' \in {process, "ready"}, leaked' \subseteq {"c_key"},
         UNCHANGED <<logging, callbacks>>
  PROVE  IInv'
<1>1. StackInv' /\ Natives(stack') = Natives(stack)
  BY TopShape DEF IInv
<1>2. FrameInv'
  BY <1>1 DEF IInv, FrameInv
<1>3. ProcessInv'
  BY TopFacts DEF IInv, ProcessInv
<1>4. BuffersReleased'
  BY DEF BuffersReleased
<1>5. QED
  BY <1>1, <1>2, <1>3, <1>4 DEF IInv

LEMMA QuietTop ==
  ASSUME IInv, stack # <<>>,
         NEW a, ActivationOK(a, Len(stack)), a.fn = Top.fn, Set(a),
         UNCHANGED <<frames, logging, process, leaked, callbacks>>
  PROVE  IInv'
<1>1. stack'[1].fn = stack[1].fn
  BY TopShape DEF IInv
<1>2. OnlyResultsLost'
  BY <1>1, FramesKept DEF IInv
<1>3. QED
  BY <1>2, MovedTop DEF IInv, FrameInv, ProcessInv, BuffersReleased

LEMMA QuietCall ==
  ASSUME IInv, stack # <<>>,
         NEW top, ActivationOK(top, Len(stack)), top.fn = Top.fn,
         NEW a, ActivationOK(a, Len(stack) + 1), a.fn \notin NativeCalls,
         stack' = Append(Front(stack) \o <<top>>, a),
         callbacks' \in 0..MaxCallbacks,
         UNCHANGED <<frames, logging, process, leaked>>
  PROVE  IInv'
<1>1. /\ StackInv'
      /\ stack'[1].fn = stack[1].fn
      /\ Natives(stack') = Natives(stack)
  BY CallShape DEF IInv
<1>2. OnlyResultsLost' /\ FrameInv'
  BY <1>1, FramesKept DEF IInv, FrameInv
<1>3. ProcessInv' /\ BuffersReleased'
  BY TopFacts DEF IInv, ProcessInv, BuffersReleased
<1>4. QED
  BY <1>1, <1>2, <1>3 DEF IInv

LEMMA AbortStep ==
  ASSUME IInv, stack # <<>>, Abort
  PROVE  IInv'
<1>1. /\ stack' = <<>> /\ frames' = <<>> /\ process' = "aborted"
      /\ UNCHANGED <<logging, leaked, callbacks>>
  BY DEF Abort
<1>2. StackInv'
  BY <1>1 DEF StackInv
<1>3. Natives(stack') = {}
  BY <1>1 DEF Natives
<1>4. FrameInv'
  BY <1>1, <1>3, FS_EmptySet DEF FrameInv
<1>5. ProcessInv' /\ BuffersReleased'
  BY <1>1 DEF IInv, ProcessInv, BuffersReleased
<1>6. QED
  BY <1>1, <1>2, <1>4, <1>5, NoFrames DEF IInv

LEMMA EnterStep ==
  ASSUME IInv, process # "unloaded", process' \in {"initialising", "ready"},
         NEW a, ActivationOK(a, Len(stack) + 1), a.fn \in NativeCalls,
         stack' = Append(stack, a), frames' = Append(frames, NewFrame),
         UNCHANGED <<logging, leaked, callbacks>>
  PROVE  IInv'
<1>1. /\ StackInv'
      /\ stack # <<>> => stack'[1] = stack[1]
      /\ Cardinality(Natives(stack')) = Cardinality(Natives(stack)) + 1
  BY PushShape DEF IInv
<1>2. frames \in Seq(Frame) /\ Len(frames) \in Nat /\ Cardinality(Natives(stack)) = Len(frames)
  BY DEF IInv, FrameInv
<1>3. /\ frames' \in Seq(Frame)
      /\ Len(frames') = Len(frames) + 1
      /\ frames'[Len(frames) + 1] = NewFrame
      /\ \A f \in 1..Len(frames) : frames'[f] = frames[f]
  BY <1>2, NewFrameOK
<1>4. FrameInv'
  BY <1>1, <1>2, <1>3 DEF FrameInv
<1>5. \A f \in 1..Len(frames') : Lawful(f)'
  <2> TAKE f \in 1..Len(frames')
  <2>1. CASE f = Len(frames) + 1
    BY <1>3, <2>1, NewFrameOK DEF Lawful
  <2>2. CASE f \in 1..Len(frames)
    <3>1. stack # <<>>
      <4> SUFFICES ASSUME stack = <<>> PROVE FALSE
        OBVIOUS
      <4>1. Natives(stack) = {}
        BY DEF Natives
      <4>2. Len(frames) = 0
        BY <1>2, <4>1, FS_EmptySet, Zenon
      <4>3. QED
        BY <2>2, <4>2
    <3>2. Allowed(f)' = Allowed(f)
      BY <1>1, <3>1 DEF Allowed
    <3>3. Lawful(f)
      BY <2>2, LawfulAll DEF IInv
    <3>4. QED
      BY <1>3, <2>2, <3>2, <3>3 DEF Lawful
  <2>3. QED
    BY <1>2, <1>3, <2>1, <2>2
<1>6. OnlyResultsLost'
  BY <1>5 DEF OnlyResultsLost, Lawful, Allowed
<1>7. ProcessInv' /\ BuffersReleased'
  BY DEF IInv, ProcessInv, BuffersReleased
<1>8. QED
  BY <1>1, <1>4, <1>6, <1>7 DEF IInv

LEMMA LeaveStep ==
  ASSUME IInv, stack # <<>>, Top.fn \in NativeCalls,
         stack' = Front(stack), frames' = Front(frames),
         leaked' \subseteq {"c_key"}, UNCHANGED <<logging, process, callbacks>>
  PROVE  IInv'
<1>1. /\ StackInv'
      /\ stack' # <<>> => stack'[1] = stack[1]
      /\ Cardinality(Natives(stack')) = Cardinality(Natives(stack)) - 1
  BY PopShape DEF IInv
<1>2. /\ frames \in Seq(Frame)
      /\ Len(frames) \in Nat \ {0}
      /\ Cardinality(Natives(stack)) = Len(frames)
  BY TopFacts DEF IInv, FrameInv
<1>3. /\ frames' \in Seq(Frame)
      /\ Len(frames') = Len(frames) - 1
      /\ \A f \in 1..(Len(frames) - 1) : frames'[f] = frames[f]
  BY <1>2, FrontFacts
<1>4. FrameInv'
  BY <1>1, <1>2, <1>3 DEF FrameInv
<1>5. \A f \in 1..Len(frames') : Lawful(f)'
  <2> TAKE f \in 1..Len(frames')
  <2>1. f \in 1..Len(frames) /\ frames'[f] = frames[f]
    BY <1>2, <1>3
  <2>2. stack' # <<>>
    <3> SUFFICES ASSUME stack' = <<>> PROVE FALSE
      OBVIOUS
    <3>1. Natives(stack') = {}
      BY DEF Natives
    <3>2. Cardinality(Natives(stack')) = 0
      BY <3>1, FS_EmptySet, Zenon
    <3>3. QED
      BY <1>1, <1>2, <1>3, <3>2
  <2>3. Allowed(f)' = Allowed(f)
    BY <1>1, <2>2 DEF Allowed
  <2>4. Lawful(f)
    BY <2>1, LawfulAll DEF IInv
  <2>5. QED
    BY <2>1, <2>3, <2>4 DEF Lawful
<1>6. OnlyResultsLost'
  BY <1>5 DEF OnlyResultsLost, Lawful, Allowed
<1>7. ProcessInv' /\ BuffersReleased'
  BY TopFacts DEF IInv, ProcessInv, BuffersReleased
<1>8. QED
  BY <1>1, <1>4, <1>6, <1>7 DEF IInv

\* A function returns to the native call below it.
LEMMA FunctionPops ==
  ASSUME IInv, stack # <<>>, Top.fn \in Functions, stack' = Front(stack)
  PROVE  stack' # <<>> /\ stack'[1] = stack[1]
<1>1. Len(stack) \in Nat \ {0} /\ Len(stack) # 1
  BY TopFacts, Disjoint DEF ActivationOK
<1>2. Len(stack') = Len(stack) - 1 /\ (stack' # <<>> => stack'[1] = stack[1])
  BY PopShape DEF IInv
<1>3. QED
  BY <1>1, <1>2

LEMMA ReturnStep ==
  ASSUME IInv, stack # <<>>, Top.fn \in Functions, stack' = Front(stack),
         frames' \in Seq(Frame), Len(frames') = Len(frames), OnlyResultsLost',
         UNCHANGED <<logging, process, leaked, callbacks>>
  PROVE  IInv'
<1>1. StackInv' /\ Cardinality(Natives(stack')) = Cardinality(Natives(stack)) - 0
  BY PopShape, Disjoint DEF IInv
<1>2. FrameInv'
  BY <1>1 DEF IInv, FrameInv
<1>3. ProcessInv' /\ BuffersReleased'
  BY TopFacts DEF IInv, ProcessInv, BuffersReleased
<1>4. QED
  BY <1>1, <1>2, <1>3 DEF IInv

-----------------------------------------------------------------------------
(***************************************************************************)
(* The actions.                                                            *)
(***************************************************************************)

\* The function that is called has all its parameters to make.
LEMMA CalledOK ==
  ASSUME NEW fn \in Functions, NEW argc \in Nat, NEW n \in Nat, n # 1
  PROVE  /\ ActivationOK(Activation(fn, "convert", argc), n)
         /\ Activation(fn, "convert", argc).fn \notin NativeCalls
<1> DEFINE a == Activation(fn, "convert", argc)
<1>1. a = [fn |-> fn, pc |-> "convert", i |-> 1, argc |-> argc, live |-> {}, chars |-> {}]
  BY DEF Activation
<1>2. a \in Activations
  BY <1>1 DEF Activations
<1>3. fn \notin NativeCalls /\ fn # "initFramework"
  BY Disjoint DEF Functions, Callbacks
<1>4. 1 \in 1..Len(Params(fn))
  BY ParamFacts
<1>5. QED
  BY <1>1, <1>2, <1>3, <1>4 DEF ActivationOK

\* A native call on top, at another point of its program.
LEMMA MovedOK ==
  ASSUME IInv, stack # <<>>, Top.fn \in NativeCalls,
         NEW a \in Activations, a.fn = Top.fn, a.pc \in NativePcs \ {"env"},
         a.chars \subseteq CharsAt(a.pc)
  PROVE  ActivationOK(a, Len(stack))
<1>1. ActivationOK(Top, Len(stack))
  BY TopFacts
<1>2. a.fn \notin Functions /\ a.fn # "nativeLog" /\ a.pc # "convert"
  BY Disjoint DEF NativeCalls, NativePcs
<1>3. QED
  BY <1>1, <1>2 DEF ActivationOK

LEMMA CallbackStep ==
  ASSUME IInv, NEW fn \in Callbacks, NEW argc \in Argcs, Callback(fn, argc)
  PROVE  IInv'
<1>1. /\ stack # <<>>
      /\ callbacks' \in 0..MaxCallbacks
      /\ UNCHANGED <<frames, logging, process, leaked>>
      /\ stack' = Append(Front(stack) \o <<[Top EXCEPT !.pc = Top.pc]>>,
                         Activation(fn, "convert", argc))
  BY DEF Callback, Call, JSRunning, IInv, ProcessInv
<1>2. ActivationOK(Top, Len(stack)) /\ Len(stack) \in Nat \ {0}
  BY <1>1, TopFacts
<1>3. [Top EXCEPT !.pc = Top.pc] = Top
  BY <1>1, TopFacts DEF Activations
<1>4. /\ ActivationOK(Activation(fn, "convert", argc), Len(stack) + 1)
      /\ Activation(fn, "convert", argc).fn \notin NativeCalls
  <2>1. fn \in Functions /\ argc \in Nat /\ Len(stack) + 1 \in Nat /\ Len(stack) + 1 # 1
    BY <1>2 DEF Functions
  <2>2. QED
    BY <2>1, CalledOK
<1>5. QED
  BY <1>1, <1>2, <1>3, <1>4, QuietCall

LEMMA ConvertStep ==
  ASSUME IInv, ConvertParam
  PROVE  IInv'
<1>1. /\ stack # <<>>
      /\ Top.pc = "convert"
      /\ UNCHANGED <<frames, logging, process, leaked, callbacks>>
      /\ \E live \in {Top.live, Top.live \union {Param.ref}} : NextParam(live)
  BY DEF ConvertParam, Converting
<1>2. /\ ActivationOK(Top, Len(stack))
      /\ Top \in Activations
  BY <1>1, TopFacts
<1>3. Top.fn \in Functions /\ Top.fn \notin NativeCalls
  BY <1>1, <1>2, Disjoint DEF ActivationOK, Activations, NativePcs
<1>4. /\ Top.i \in 1..Len(Params(Top.fn))
      /\ Len(Params(Top.fn)) \in Nat \ {0}
      /\ Param.ref \in Deleted(Top.fn)
      /\ Top.fn = "nativeLog" => /\ Len(Params(Top.fn)) = 2
                                 /\ Top.i = 1 => Param.ref = "str_msg"
  BY <1>1, <1>2, <1>3, ParamFacts DEF ActivationOK, Param
<1>5. Deleted(Top.fn) \subseteq RefNames
  BY <1>3 DEF RefNames
<1>6. PICK live : /\ live \in {Top.live, Top.live \union {Param.ref}}
                  /\ NextParam(live)
  BY <1>1
<1>7. /\ live \subseteq Deleted(Top.fn)
      /\ live \in SUBSET RefNames
      /\ Top.fn = "nativeLog" /\ Top.i = 1 => live \subseteq {"str_msg"}
  <2>1. Top.live \subseteq Deleted(Top.fn)
    BY <1>2, <1>3 DEF ActivationOK
  <2>2. Top.fn = "nativeLog" /\ Top.i = 1 => Top.live = {}
    BY <1>1, <1>2 DEF ActivationOK
  <2>3. QED
    BY <1>4, <1>5, <1>6, <2>1, <2>2
<1>8. CASE Top.i < Len(Params(Top.fn))
  <2>0. PICK j \in Nat : j = Top.i + 1
    BY <1>4
  <2> DEFINE a == [Top EXCEPT !.i = j, !.live = live]
  <2>1. Set(a)
    BY <1>6, <1>8, <2>0 DEF NextParam
  <2>2. /\ a \in Activations
        /\ a.fn = Top.fn /\ a.pc = "convert" /\ a.i = Top.i + 1 /\ a.live = live
        /\ a.chars = Top.chars
    BY <1>1, <1>2, <1>7, <2>0 DEF Activations
  <2> HIDE DEF a
  <2>3. a.i \in 1..Len(Params(a.fn)) /\ (a.fn = "nativeLog" => Top.i = 1 /\ a.i = 2)
    <3>1. PICK length \in Nat : length = Len(Params(Top.fn))
      BY <1>4
    <3>2. j \in 1..length /\ (Top.fn = "nativeLog" => Top.i = 1 /\ j = 2)
      <4>1. /\ Top.i \in 1..length
            /\ Top.i < length
            /\ Top.fn = "nativeLog" => length = 2
        BY <1>4, <1>8, <3>1, Zenon
      <4>2. QED
        BY <2>0, <4>1
    <3>3. a.i = j /\ a.fn = Top.fn
      BY <2>0, <2>2
    <3>4. QED
      BY <3>1, <3>2, <3>3, Zenon
  <2>4. ActivationOK(a, Len(stack))
    BY <1>1, <1>2, <1>3, <1>7, <2>2, <2>3 DEF ActivationOK
  <2>5. QED
    BY <1>1, <2>1, <2>2, <2>4, QuietTop
<1>9. CASE ~(Top.i < Len(Params(Top.fn)))
  <2> DEFINE a == [Activation(Top.fn, "java", 0) EXCEPT !.live = live]
  <2>1. Set(a)
    BY <1>6, <1>9 DEF NextParam
  <2>2. a = [fn |-> Top.fn, pc |-> "java", i |-> 1, argc |-> 0, live |-> live, chars |-> {}]
    BY DEF Activation
  <2> HIDE DEF a
  <2>3. a \in Activations
    BY <1>3, <1>7, <2>2 DEF Activations
  <2>4. ActivationOK(a, Len(stack)) /\ a.fn = Top.fn
    BY <1>2, <1>3, <1>7, <2>2, <2>3 DEF ActivationOK
  <2>5. QED
    BY <1>1, <2>1, <2>4, QuietTop
<1>10. QED
  BY <1>8, <1>9

LEMMA JavaReturnsStep ==
  ASSUME IInv, JavaReturns
  PROVE  IInv'
<1>1. /\ stack # <<>>
      /\ Top.pc = "java"
      /\ stack' = Front(stack)
      /\ UNCHANGED <<logging, process, leaked, callbacks>>
  BY DEF JavaReturns, Return
<1>2. ActivationOK(Top, Len(stack)) /\ Top \in Activations
  BY <1>1, TopFacts
<1>3. Top.fn \in Functions /\ Top.live \subseteq Deleted(Top.fn)
  BY <1>1, <1>2 DEF ActivationOK, Activations, NativePcs
<1>4. stack' # <<>> /\ stack'[1] = stack[1]
  BY <1>1, <1>3, FunctionPops
<1>5. CASE Top.fn = "callNativeModule"
  <2>1. PICK data \in SUBSET {"jDataObj"} :
          frames' = [frames EXCEPT
            ![Len(frames)].lost =
              @ (+) SetToBag((Top.live \union {"result"} \union data) \ Deleted(Top.fn)),
            ![Len(frames)].modules = @ + 1]
    BY <1>5 DEF JavaReturns
  <2>2. "jDataObj" \in Deleted(Top.fn) /\ "result" \notin Deleted(Top.fn)
    BY <1>5 DEF Deleted
  <2>3. (Top.live \union {"result"} \union data) \ Deleted(Top.fn) = {"result"}
    BY <1>3, <2>2
  <2>4. LoseResult
    BY <2>1, <2>3, Zenon DEF LoseResult
  <2>5. /\ frames' \in Seq(Frame)
        /\ Len(frames') = Len(frames)
        /\ OnlyResultsLost'
    BY <1>1, <1>4, <2>4, ModuleFacts
  <2>6. QED
    BY <1>1, <1>3, <2>5, ReturnStep
<1>6. CASE Top.fn # "callNativeModule"
  <2>1. Lose(Top.live \ Deleted(Top.fn))
    BY <1>6 DEF JavaReturns, Return
  <2>2. Top.live \ Deleted(Top.fn) = {}
    BY <1>3
  <2>3. Lose({})
    BY <2>1, <2>2, Zenon
  <2>4. /\ frames' \in Seq(Frame)
        /\ Len(frames') = Len(frames)
        /\ OnlyResultsLost'
    BY <1>1, <1>4, <2>3, LoseFacts
  <2>5. QED
    BY <1>1, <1>3, <2>4, ReturnStep
<1>7. QED
  BY <1>5, <1>6

LEMMA NativeLogReturnsStep ==
  ASSUME IInv, NativeLogReturns
  PROVE  IInv'
<1>1. /\ stack # <<>>
      /\ Top.fn = "nativeLog"
      /\ Top.pc = "convert"
      /\ stack' = Front(stack)
      /\ Lose(Top.live \ {})
      /\ Top.i = 1 \/ ~logging
      /\ UNCHANGED <<logging, process, leaked, callbacks>>
  BY DEF NativeLogReturns, At, NothingToLog, Return
<1>2. ActivationOK(Top, Len(stack)) /\ Top \in Activations
  BY <1>1, TopFacts
<1>3. Top.fn \in Functions
  BY <1>1 DEF Functions, Callbacks
<1>4. stack' # <<>> /\ stack'[1] = stack[1]
  BY <1>1, <1>3, FunctionPops
<1>5. /\ Top.live \ {} = Top.live
      /\ Top.live \in SUBSET RefNames
      /\ Top.live \subseteq Allowed(Len(frames))
      /\ "result" \notin Top.live
  <2>1. Top.live \in SUBSET RefNames
    BY <1>2 DEF Activations
  <2>2. Top.live = {} \/ (~logging /\ Top.live \subseteq {"str_msg"})
    BY <1>1, <1>2 DEF ActivationOK
  <2>3. QED
    BY <2>1, <2>2 DEF Allowed
<1>6. /\ frames' \in Seq(Frame)
      /\ Len(frames') = Len(frames)
      /\ OnlyResultsLost'
  BY <1>1, <1>4, <1>5, LoseFacts
<1>7. QED
  BY <1>1, <1>3, <1>6, ReturnStep

LEMMA AbortsStep ==
  ASSUME IInv, ConversionAborts \/ NullObject \/ BadNamespace
  PROVE  IInv'
<1>1. stack # <<>> /\ Abort
  BY DEF ConversionAborts, NullObject, BadNamespace, JSRunning, At
<1>2. QED
  BY <1>1, AbortStep

\* A native call that begins.
LEMMA EnterOK ==
  ASSUME IInv, NEW fn \in NativeCalls, NEW pc \in NativePcs,
         NEW live \in SUBSET RefNames, NEW chars \in SUBSET CharsAt(pc),
         fn = "initFramework" => stack = <<>>,
         pc = "env" => /\ {"options", "jobjArray"} \subseteq live
                       /\ live \subseteq EnvironmentRefs \union {"options", "jobjArray"},
         NEW a,
         a = [fn |-> fn, pc |-> pc, i |-> 1, argc |-> 0, live |-> live, chars |-> chars]
  PROVE  ActivationOK(a, Len(stack) + 1) /\ a.fn \in NativeCalls
<1>1. CharsAt(pc) \subseteq CharNames
  BY DEF CharsAt, CharNames
<1>2. a \in Activations
  BY <1>1 DEF Activations
<1>3. fn \notin Functions /\ fn # "nativeLog" /\ pc # "convert"
  BY Disjoint DEF NativeCalls, NativePcs
<1>4. fn = "initFramework" => Len(stack) + 1 = 1
  OBVIOUS
<1>5. QED
  BY <1>2, <1>3, <1>4 DEF ActivationOK

LEMMA EntersStep ==
  ASSUME IInv, native_initFramework \/ native_execJS \/ native_execJSService
  PROVE  IInv'
<1>1. CASE native_initFramework
  <2> DEFINE live == {"c_params", "options", "jmapclass", "jsetclass", "jobjArray"}
             a == [Activation("initFramework", "env", 0) EXCEPT !.live = live]
  <2>1. /\ process = "loaded"
        /\ stack = <<>>
        /\ process' = "initialising"
        /\ stack' = Append(stack, a)
        /\ frames' = Append(frames, NewFrame)
        /\ UNCHANGED <<logging, leaked, callbacks>>
    BY <1>1 DEF native_initFramework, Enter
  <2>2. a = [fn |-> "initFramework", pc |-> "env", i |-> 1, argc |-> 0, live |-> live,
             chars |-> {}]
    BY DEF Activation
  <2>3. /\ live \in SUBSET RefNames
        /\ {"options", "jobjArray"} \subseteq live
        /\ live \subseteq EnvironmentRefs \union {"options", "jobjArray"}
    BY DEF RefNames, EnvironmentRefs
  <2>4. "initFramework" \in NativeCalls /\ "env" \in NativePcs /\ {} \in SUBSET CharsAt("env")
    BY DEF NativeCalls, NativePcs
  <2> HIDE DEF live, a
  <2>5. ActivationOK(a, Len(stack) + 1) /\ a.fn \in NativeCalls
    BY <2>1, <2>2, <2>3, <2>4, EnterOK
  <2>6. QED
    BY <2>1, <2>5, EnterStep
<1>2. CASE native_execJS
  <2> DEFINE a == [Activation("execJS", "args", 0) EXCEPT !.live = {}]
  <2>1. /\ process = "ready"
        /\ stack' = Append(stack, a)
        /\ frames' = Append(frames, NewFrame)
        /\ UNCHANGED <<logging, leaked, callbacks, process>>
    BY <1>2 DEF native_execJS, Enter
  <2>2. a = [fn |-> "execJS", pc |-> "args", i |-> 1, argc |-> 0, live |-> {}, chars |-> {}]
    BY DEF Activation
  <2>3. "execJS" \in NativeCalls /\ "args" \in NativePcs /\ {} \in SUBSET CharsAt("args")
    BY DEF NativeCalls, NativePcs
  <2> HIDE DEF a
  <2>4. ActivationOK(a, Len(stack) + 1) /\ a.fn \in NativeCalls
    BY <2>2, <2>3, EnterOK, {} \in SUBSET RefNames
  <2>5. QED
    BY <2>1, <2>4, EnterStep
<1>3. CASE native_execJSService
  <2> DEFINE a == [Activation("execJSService", "script", 0) EXCEPT !.chars = {"source"}]
  <2>1. /\ process = "ready"
        /\ stack' = Append(stack, a)
        /\ frames' = Append(frames, NewFrame)
        /\ UNCHANGED <<logging, leaked, callbacks, process>>
    BY <1>3 DEF native_execJSService
  <2>2. a = [fn |-> "execJSService", pc |-> "script", i |-> 1, argc |-> 0, live |-> {},
             chars |-> {"source"}]
    BY DEF Activation
  <2>3. /\ "execJSService" \in NativeCalls
        /\ "script" \in NativePcs
        /\ {"source"} \in SUBSET CharsAt("script")
    BY DEF NativeCalls, NativePcs, CharsAt
  <2> HIDE DEF a
  <2>4. ActivationOK(a, Len(stack) + 1) /\ a.fn \in NativeCalls
    BY <2>2, <2>3, EnterOK, {} \in SUBSET RefNames
  <2>5. QED
    BY <2>1, <2>4, EnterStep
<1>4. QED
  BY <1>1, <1>2, <1>3

LEMMA LeavesStep ==
  ASSUME IInv, ArgumentReported \/ NativeReturns
  PROVE  IInv'
<1>1. stack # <<>>
  BY DEF ArgumentReported, NativeReturns, At
<1>2. /\ ActivationOK(Top, Len(stack))
      /\ Top \in Activations
      /\ leaked \subseteq {"c_key"}
  BY <1>1, TopFacts DEF IInv, BuffersReleased
<1>3. CASE ArgumentReported
  <2>1. /\ Top.fn = "execJS"
        /\ Top.pc = "bad argument"
        /\ stack' = Front(stack)
        /\ frames' = Front(frames)
        /\ UNCHANGED <<logging, process, leaked, callbacks>>
    BY <1>3 DEF ArgumentReported, At
  <2>2. Top.fn \in NativeCalls
    BY <2>1 DEF NativeCalls
  <2>3. QED
    BY <1>1, <1>2, <2>1, <2>2, LeaveStep
<1>4. CASE NativeReturns
  <2>1. /\ Top.pc \in {"drain", "failed"}
        /\ stack' = Front(stack)
        /\ frames' = Front(frames)
        /\ leaked' = leaked \union (Top.chars \ {"func"})
        /\ UNCHANGED <<logging, process, callbacks>>
    BY <1>4 DEF NativeReturns
  <2>2. Top.chars \subseteq {"func"} /\ Top.fn \in NativeCalls
    BY <1>2, <2>1 DEF ActivationOK, CharsAt
  <2>3. QED
    BY <1>1, <1>2, <2>1, <2>2, LeaveStep
<1>5. QED
  BY <1>3, <1>4

\* The steps of a native call.
LEMMA ArgumentsStep ==
  ASSUME IInv, CopyArgument \/ \E names \in {{"func"}, {"func", "_namespace"}} :
                                 CallFunctionName(names)
  PROVE  IInv'
<1>1. /\ stack # <<>>
      /\ Top.fn = "execJS"
      /\ Top.pc = "args"
      /\ UNCHANGED <<frames, logging, process, leaked, callbacks>>
  BY DEF CopyArgument, CallFunctionName, At
<1>2. /\ Top \in Activations
      /\ ActivationOK(Top, Len(stack))
      /\ Top.fn \in NativeCalls
  BY <1>1, TopFacts DEF NativeCalls
<1>3. CASE CopyArgument
  <2>1. PICK j \in Nat : j = Top.i + 1
    BY <1>2 DEF Activations
  <2> DEFINE a == [Top EXCEPT !.i = j]
  <2>2. Set(a)
    BY <1>3, <2>1 DEF CopyArgument
  <2>3. a \in Activations /\ a.fn = Top.fn /\ a.pc = Top.pc /\ a.chars = Top.chars
    BY <1>2 DEF Activations
  <2> HIDE DEF a
  <2>4. a.pc \in NativePcs \ {"env"} /\ a.chars \subseteq CharsAt(a.pc)
    BY <1>1, <1>2, <2>3 DEF ActivationOK, NativePcs
  <2>5. QED
    BY <1>1, <1>2, <2>2, <2>3, <2>4, MovedOK, QuietTop
<1>4. ASSUME NEW names \in {{"func"}, {"func", "_namespace"}}, CallFunctionName(names)
      PROVE  IInv'
  <2> DEFINE a == [Top EXCEPT !.pc = "script", !.i = 1, !.chars = names]
  <2>1. Set(a)
    BY <1>4 DEF CallFunctionName
  <2>2. names \subseteq CharNames
    BY DEF CharNames
  <2>3. a \in Activations /\ a.fn = Top.fn /\ a.pc = "script" /\ a.chars = names
    BY <1>2, <2>2 DEF Activations, NativePcs
  <2> HIDE DEF a
  <2>4. a.pc \in NativePcs \ {"env"} /\ a.chars \subseteq CharsAt(a.pc)
    BY <2>3 DEF CharsAt, NativePcs
  <2>5. QED
    BY <1>1, <1>2, <2>1, <2>3, <2>4, MovedOK, QuietTop
<1>5. QED
  BY <1>3, <1>4

\* ArgumentFails, ReportException and the calls of VersionReturns.
LEMMA ReportingStep ==
  ASSUME IInv, stack # <<>>, Top.fn \in NativeCalls,
         NEW fn \in {"reportException", "setJSFVersion"},
         NEW top \in Activations, top.fn = Top.fn, top.pc \in NativePcs \ {"env"},
         top.chars \subseteq CharsAt(top.pc),
         stack' = Append(Front(stack) \o <<top>>, Activation(fn, "convert", 0)),
         UNCHANGED <<frames, logging, process, leaked, callbacks>>
  PROVE  IInv'
<1>1. Len(stack) + 1 \in Nat /\ Len(stack) + 1 # 1
  BY TopFacts
<1>2. fn \in Functions
  BY DEF Functions
<1>3. /\ ActivationOK(Activation(fn, "convert", 0), Len(stack) + 1)
      /\ Activation(fn, "convert", 0).fn \notin NativeCalls
  BY <1>1, <1>2, CalledOK
<1>4. ActivationOK(top, Len(stack))
  BY MovedOK
<1>5. callbacks' \in 0..MaxCallbacks
  BY DEF IInv, ProcessInv
<1>6. QED
  BY <1>3, <1>4, <1>5, QuietCall

LEMMA ArgumentFailsStep ==
  ASSUME IInv, ArgumentFails
  PROVE  IInv'
<1> DEFINE top == [Top EXCEPT !.pc = "bad argument", !.live = {"jArg", "jDataObj"},
                              !.chars = {"jDataObj"}]
<1>1. /\ stack # <<>>
      /\ Top.fn = "execJS"
      /\ stack' = Append(Front(stack) \o <<top>>, Activation("reportException", "convert", 0))
      /\ UNCHANGED <<frames, logging, process, leaked, callbacks>>
  BY DEF ArgumentFails, At
<1>2. Top \in Activations /\ Top.fn \in NativeCalls
  BY <1>1, TopFacts DEF NativeCalls
<1>3. {"jArg", "jDataObj"} \subseteq RefNames /\ {"jDataObj"} \subseteq CharNames
  BY DEF RefNames, CharNames
<1>4. /\ top \in Activations
      /\ top.fn = Top.fn /\ top.pc = "bad argument" /\ top.chars = {"jDataObj"}
  BY <1>2, <1>3 DEF Activations, NativePcs
<1> HIDE DEF top
<1>5. top.pc \in NativePcs \ {"env"} /\ top.chars \subseteq CharsAt(top.pc)
  BY <1>4 DEF NativePcs, CharsAt
<1>6. QED
  BY <1>1, <1>2, <1>4, <1>5, ReportingStep

LEMMA ReportExceptionStep ==
  ASSUME IInv, ReportException
  PROVE  IInv'
<1> DEFINE top == [Top EXCEPT !.pc = "reported", !.chars = @ \ {"_namespace"}]
<1>1. /\ stack # <<>>
      /\ Top.pc = "script"
      /\ stack' = Append(Front(stack) \o <<top>>, Activation("reportException", "convert", 0))
      /\ UNCHANGED <<frames, logging, process, leaked, callbacks>>
  BY DEF ReportException
<1>2. Top \in Activations /\ ActivationOK(Top, Len(stack))
  BY <1>1, TopFacts
<1>3. Top.fn \in NativeCalls /\ Top.chars \subseteq CharsAt("script")
  BY <1>1, <1>2 DEF ActivationOK
<1>4. /\ top \in Activations
      /\ top.fn = Top.fn /\ top.pc = "reported" /\ top.chars \subseteq Top.chars
  BY <1>2 DEF Activations, NativePcs
<1> HIDE DEF top
<1>5. top.pc \in NativePcs \ {"env"} /\ top.chars \subseteq CharsAt(top.pc)
  BY <1>3, <1>4 DEF NativePcs, CharsAt
<1>6. QED
  BY <1>1, <1>3, <1>4, <1>5, ReportingStep

LEMMA VersionReturnsStep ==
  ASSUME IInv, VersionReturns
  PROVE  IInv'
<1> DEFINE top == [Top EXCEPT !.pc = "drain"]
<1>1. /\ stack # <<>>
      /\ Top.fn = "initFramework"
      /\ Top.pc = "version"
      /\ \/ Set(top)
         \/ \E fn \in {"setJSFVersion", "reportException"} :
              stack' = Append(Front(stack) \o <<top>>, Activation(fn, "convert", 0))
      /\ UNCHANGED <<frames, logging, process, leaked, callbacks>>
  BY DEF VersionReturns, At, Goto, Call
<1>2. Top \in Activations /\ ActivationOK(Top, Len(stack)) /\ Top.fn \in NativeCalls
  BY <1>1, TopFacts DEF NativeCalls
<1>3. Top.chars \subseteq CharsAt("version")
  BY <1>1, <1>2 DEF ActivationOK
<1>4. top \in Activations /\ top.fn = Top.fn /\ top.pc = "drain" /\ top.chars = Top.chars
  BY <1>2 DEF Activations, NativePcs
<1> HIDE DEF top
<1>5. top.pc \in NativePcs \ {"env"} /\ top.chars \subseteq CharsAt(top.pc)
  BY <1>3, <1>4 DEF NativePcs, CharsAt
<1>6. CASE Set(top)
  BY <1>1, <1>2, <1>4, <1>5, <1>6, MovedOK, QuietTop
<1>7. ASSUME NEW fn \in {"setJSFVersion", "reportException"},
             stack' = Append(Front(stack) \o <<top>>, Activation(fn, "convert", 0))
      PROVE  IInv'
  BY <1>1, <1>2, <1>4, <1>5, <1>7, ReportingStep
<1>8. QED
  BY <1>1, <1>6, <1>7

LEMMA ScriptReturnsStep ==
  ASSUME IInv, ScriptReturns
  PROVE  IInv'
<1>1. /\ stack # <<>>
      /\ Top.pc \in {"script", "reported"}
      /\ UNCHANGED <<frames, logging, process, leaked, callbacks>>
  BY DEF ScriptReturns
<1>2. Top \in Activations /\ ActivationOK(Top, Len(stack))
  BY <1>1, TopFacts
<1>3. /\ Top.fn \in {"execJS", "execJSService", "initFramework"}
      /\ Top.fn \in NativeCalls
      /\ Top.chars \subseteq {"source", "func", "_namespace"}
  BY <1>1, <1>2 DEF ActivationOK, NativeCalls, CharsAt
<1>4. PICK pc \in {"drain", "failed", "version"} :
        Set([Top EXCEPT !.pc = pc, !.chars = @ \ {"source", "_namespace"}])
  <2>1. CASE Top.fn = "execJS"
    BY <2>1 DEF ScriptReturns
  <2>2. CASE Top.fn = "execJSService"
    BY <2>2 DEF ScriptReturns
  <2>3. CASE Top.fn = "initFramework"
    BY <2>3 DEF ScriptReturns
  <2>4. QED
    BY <1>3, <2>1, <2>2, <2>3
<1> DEFINE a == [Top EXCEPT !.pc = pc, !.chars = @ \ {"source", "_namespace"}]
<1>5. /\ a \in Activations
      /\ a.fn = Top.fn /\ a.pc = pc /\ a.chars = Top.chars \ {"source", "_namespace"}
  BY <1>2 DEF Activations, NativePcs
<1>6. Set(a)
  BY <1>4
<1> HIDE DEF a
<1>7. a.pc \in NativePcs \ {"env"} /\ a.chars \subseteq CharsAt(a.pc)
  BY <1>3, <1>5 DEF NativePcs, CharsAt
<1>8. QED
  BY <1>1, <1>2, <1>3, <1>5, <1>6, <1>7, MovedOK, QuietTop

\* A step of initWXEnvironment loses nothing but its own references.
LEMMA EnvironmentFrames ==
  ASSUME IInv, stack # <<>>, Top.fn = "initFramework",
         NEW a, ActivationOK(a, Len(stack)), a.fn = Top.fn, Set(a),
         NEW refs \in SUBSET EnvironmentRefs, Lose(refs) \/ UNCHANGED frames,
         UNCHANGED logging
  PROVE  /\ frames' \in Seq(Frame)
         /\ Len(frames') = Len(frames)
         /\ OnlyResultsLost'
<1>1. Len(frames) = 1 /\ stack[1].fn = "initFramework" /\ Len(stack) \in Nat \ {0}
  BY TopFacts
<1>2. stack'[1].fn = stack[1].fn /\ stack' # <<>>
  BY <1>1, TopShape DEF IInv
<1>3. refs \subseteq Allowed(Len(frames)) /\ refs \in SUBSET RefNames
  BY <1>1 DEF Allowed, RefNames
<1>4. "result" \notin refs
  BY DEF EnvironmentRefs
<1>5. CASE Lose(refs)
  BY <1>2, <1>3, <1>4, <1>5, LoseFacts
<1>6. CASE UNCHANGED frames
  BY <1>2, <1>6, FramesKept DEF IInv, FrameInv
<1>7. QED
  BY <1>5, <1>6

LEMMA CopyOptionStep ==
  ASSUME IInv, NEW nullKey \in BOOLEAN, CopyOption(nullKey)
  PROVE  IInv'
<1>1. /\ stack # <<>>
      /\ Top.fn = "initFramework"
      /\ Top.pc = "env"
      /\ Lose({"jvalue"}) \/ UNCHANGED frames
      /\ UNCHANGED <<logging, process, leaked, callbacks>>
  BY DEF CopyOption, At
<1>2. /\ Top \in Activations
      /\ ActivationOK(Top, Len(stack))
      /\ leaked \subseteq {"c_key"}
  BY <1>1, TopFacts DEF IInv, BuffersReleased
<1>3. PICK j \in Nat : j = Top.i + 1
  BY <1>2 DEF Activations
<1>4. PICK chars \in SUBSET {"c_key"} :
        chars = IF nullKey THEN Top.chars ELSE Top.chars \union {"c_key"}
  BY <1>1, <1>2 DEF ActivationOK, CharsAt
<1> DEFINE a == [Top EXCEPT !.i = j, !.chars = chars]
<1>5. Set(a)
  BY <1>3, <1>4 DEF CopyOption
<1>6. /\ a \in Activations
      /\ a.fn = Top.fn /\ a.pc = "env" /\ a.chars = chars /\ a.live = Top.live
  BY <1>1, <1>2 DEF Activations, CharNames
<1> HIDE DEF a
<1>7. ActivationOK(a, Len(stack))
  BY <1>1, <1>2, <1>6 DEF ActivationOK, CharsAt, NativeCalls, Functions, Callbacks
<1>8. {"jvalue"} \in SUBSET EnvironmentRefs
  BY DEF EnvironmentRefs
<1>9. frames' \in Seq(Frame) /\ Len(frames') = Len(frames) /\ OnlyResultsLost'
  BY <1>1, <1>5, <1>6, <1>7, <1>8, EnvironmentFrames
<1>10. leaked' \subseteq {"c_key"}
  BY <1>1, <1>2
<1>11. QED
  BY <1>1, <1>5, <1>6, <1>7, <1>9, <1>10, MovedTop

LEMMA BeginScriptStep ==
  ASSUME IInv, NEW pc \in {"script", "drain"}, BeginScript(pc)
  PROVE  IInv'
<1> DEFINE refs == (Top.live \ {"jobjArray", "options"}) \union {"jTraceClass"}
           chars == IF pc = "script" THEN {"source"} ELSE {}
           a == [Top EXCEPT !.pc = pc, !.i = 1, !.live = {}, !.chars = chars]
<1>1. /\ stack # <<>>
      /\ Top.fn = "initFramework"
      /\ Top.pc = "env"
      /\ Lose(refs)
      /\ leaked' = leaked \union Top.chars
      /\ process' = "ready"
      /\ Set(a)
      /\ UNCHANGED <<logging, callbacks>>
  BY DEF BeginScript, At
<1>2. /\ Top \in Activations
      /\ ActivationOK(Top, Len(stack))
      /\ leaked \subseteq {"c_key"}
  BY <1>1, TopFacts DEF IInv, BuffersReleased
<1>3. refs \in SUBSET EnvironmentRefs /\ Top.chars \subseteq {"c_key"}
  BY <1>1, <1>2 DEF ActivationOK, CharsAt, EnvironmentRefs
<1>4. /\ a \in Activations
      /\ a.fn = Top.fn /\ a.pc = pc /\ a.chars = chars
  BY <1>2 DEF Activations, CharNames, NativePcs
<1>5. chars \subseteq CharsAt(pc) /\ pc \in NativePcs \ {"env"} /\ Top.fn \in NativeCalls
  BY <1>1 DEF CharsAt, NativePcs, NativeCalls
<1> HIDE DEF a, refs, chars
<1>6. ActivationOK(a, Len(stack))
  BY <1>1, <1>4, <1>5, MovedOK
<1>7. frames' \in Seq(Frame) /\ Len(frames') = Len(frames) /\ OnlyResultsLost'
  BY <1>1, <1>3, <1>4, <1>6, EnvironmentFrames
<1>8. leaked' \subseteq {"c_key"}
  BY <1>1, <1>2, <1>3
<1>9. QED
  BY <1>1, <1>4, <1>6, <1>7, <1>8, MovedTop

LEMMA UnloadStep ==
  ASSUME IInv, JNI_OnUnload
  PROVE  IInv'
<1>1. /\ stack = <<>>
      /\ process' = "unloaded"
      /\ UNCHANGED <<stack, frames, logging, leaked, callbacks>>
  BY DEF JNI_OnUnload
<1>2. StackInv' /\ FrameInv'
  BY <1>1 DEF IInv, StackInv, FrameInv, Natives, ActivationOK
<1>3. OnlyResultsLost'
  BY <1>1 DEF IInv, OnlyResultsLost
<1>4. ProcessInv' /\ BuffersReleased'
  BY <1>1 DEF IInv, ProcessInv, BuffersReleased
<1>5. QED
  BY <1>2, <1>3, <1>4 DEF IInv

LEMMA StutterStep ==
  ASSUME IInv, UNCHANGED vars
  PROVE  IInv'
BY DEF vars, IInv, StackInv, FrameInv, ProcessInv, Natives, OnlyResultsLost,
       BuffersReleased

-----------------------------------------------------------------------------
(***************************************************************************)
(* The invariant, and what follows from it.                                *)
(***************************************************************************)

LEMMA InitIInv ==
  ASSUME Init
  PROVE  IInv
<1>1. stack = <<>> /\ frames = <<>>
  BY DEF Init
<1>2. stack \in Seq(Activations) /\ frames \in Seq(Frame) /\ Len(stack) = 0 /\ Len(frames) = 0
  BY <1>1
<1>3. Natives(stack) = {}
  BY <1>2 DEF Natives
<1>4. StackInv /\ FrameInv
  BY <1>2, <1>3, FS_EmptySet DEF StackInv, FrameInv
<1>5. OnlyResultsLost
  BY <1>2 DEF OnlyResultsLost
<1>6. ProcessInv /\ BuffersReleased
  BY <1>1 DEF Init, ProcessInv, BuffersReleased
<1>7. QED
  BY <1>4, <1>5, <1>6 DEF IInv

LEMMA NextIInv ==
  ASSUME IInv, [Next]_vars
  PROVE  IInv'
<1>1. CASE InitFramework
  <2>1. CASE native_initFramework
    BY <2>1, EntersStep
  <2>2. CASE \E nullKey \in BOOLEAN : CopyOption(nullKey)
    BY <2>2, CopyOptionStep
  <2>3. CASE \E pc \in {"script", "drain"} : BeginScript(pc)
    BY <2>3, BeginScriptStep
  <2>4. CASE VersionReturns
    BY <2>4, VersionReturnsStep
  <2>5. QED
    BY <1>1, <2>1, <2>2, <2>3, <2>4 DEF InitFramework
<1>2. CASE ExecJS
  <2>1. CASE native_execJS
    BY <2>1, EntersStep
  <2>2. CASE CopyArgument \/ \E names \in {{"func"}, {"func", "_namespace"}} :
                               CallFunctionName(names)
    BY <2>2, ArgumentsStep
  <2>3. CASE ArgumentFails
    BY <2>3, ArgumentFailsStep
  <2>4. CASE ArgumentReported
    BY <2>4, LeavesStep
  <2>5. CASE BadNamespace
    BY <2>5, AbortsStep
  <2>6. QED
    BY <1>2, <2>1, <2>2, <2>3, <2>4, <2>5 DEF ExecJS
<1>3. CASE IntoJava
  <2>1. CASE \E fn \in Callbacks : \E argc \in Argcs : Callback(fn, argc)
    BY <2>1, CallbackStep
  <2>2. CASE ConvertParam
    BY <2>2, ConvertStep
  <2>3. CASE ConversionAborts \/ NullObject
    BY <2>3, AbortsStep
  <2>4. CASE JavaReturns
    BY <2>4, JavaReturnsStep
  <2>5. CASE NativeLogReturns
    BY <2>5, NativeLogReturnsStep
  <2>6. QED
    BY <1>3, <2>1, <2>2, <2>3, <2>4, <2>5 DEF IntoJava
<1>4. CASE native_execJSService
  BY <1>4, EntersStep
<1>5. CASE ReportException
  BY <1>5, ReportExceptionStep
<1>6. CASE ScriptReturns
  BY <1>6, ScriptReturnsStep
<1>7. CASE NativeReturns
  BY <1>7, LeavesStep
<1>8. CASE JNI_OnUnload
  BY <1>8, UnloadStep
<1>9. CASE UNCHANGED vars
  BY <1>9, StutterStep
<1>10. QED
  BY <1>1, <1>2, <1>3, <1>4, <1>5, <1>6, <1>7, <1>8, <1>9 DEF Next

\* IInv is inductive, and so holds throughout.
LEMMA Invariance == Spec => []IInv
<1>1. Init => IInv
  BY InitIInv
<1>2. IInv /\ [Next]_vars => IInv'
  BY NextIInv
<1>3. QED
  BY <1>1, <1>2, PTL DEF Spec

\* Every native method and callback is at one of its own points, whatever has
\* re-entered what, and the native methods under way are as many as the
\* frames of the virtual machine.
THEOREM TypeCorrect == Spec => []TypeOK
<1>1. IInv => TypeOK
  <2> SUFFICES ASSUME IInv PROVE TypeOK
    OBVIOUS
  <2>1. ASSUME NEW n \in 1..Len(stack)
        PROVE  /\ stack[n].fn \in NativeCalls \union Functions
               /\ stack[n].pc \in IF stack[n].fn \in NativeCalls
                                  THEN NativePcs ELSE {"convert", "java"}
               /\ stack[n].fn \in Functions => stack[n].chars = {}
    <3>1. ActivationOK(stack[n], n) /\ stack[n] \in Activations
      BY DEF IInv, StackInv, ActivationOK
    <3>2. stack[n].fn \in Functions => stack[n].pc \in {"convert", "java"}
      BY <3>1, Disjoint DEF ActivationOK
    <3>3. stack[n].pc \in {"convert", "java"} => stack[n].chars = {}
      BY <3>1 DEF ActivationOK, CharsAt
    <3>4. QED
      BY <3>1, <3>2, <3>3 DEF ActivationOK, Activations
  <2>2. QED
    BY <2>1 DEF IInv, FrameInv, ProcessInv, Natives, NativePcs, TypeOK
<1>2. QED
  BY <1>1, Invariance, PTL

\* callNativeModule never deletes its result, so a frame gathers one of these
\* references per module call; nothing else that a callback, reportException
\* or setJSFVersion makes outlives it, however deep JavaScript and Java call
\* each other and however many callbacks one native method makes.
THEOREM OnlyResultsAreLost == Spec => []OnlyResultsLost
<1>1. IInv => OnlyResultsLost
  BY DEF IInv
<1>2. QED
  BY <1>1, Invariance, PTL

\* The ScopedJString and ScopedJStringUTF8 objects of the native methods
\* release their characters on every return, early ones included; only the
\* keys that initWXEnvironment reads are never released.
THEOREM BuffersAreReleased == Spec => []BuffersReleased
<1>1. IInv => BuffersReleased
  BY DEF IInv
<1>2. QED
  BY <1>1, Invariance, PTL
=============================================================================
