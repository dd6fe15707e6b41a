---------------------------- MODULE BridgeProofs ----------------------------
(***************************************************************************)
(* Proofs of the properties of Bridge, for any nesting of native calls and *)
(* any number of calls and exceptions.                                     *)
(***************************************************************************)
EXTENDS Bridge, TLAPS

(***************************************************************************)
(* Every frame on the stack belongs to a call that has been made; only     *)
(* native_execJS converts arguments; a frame is in setJSFrmVersion only    *)
(* from setJSFVersion, and reports an exception that has been raised.      *)
(***************************************************************************)
FrameOK(f) ==
  /\ f.call \in 1..calls
  /\ f.pc = "args" => f.fn = "execJS"
  /\ f.java = "setJSFrmVersion" => f.pc = "versioned"
  /\ f.exception \in 0..raised

FrameInv == \A d \in 1..depth : FrameOK(stack[d])

\* Exception x is younger than the scopes with an AutoSaveExceptionState in
\* the frames up to d.
Younger(x, d) == \A c \in 1..d : Guarded(stack[c]) => x > stack[c].base

(***************************************************************************)
(* What is pending, saved in a frame or being reported was raised inside   *)
(* all the scopes around it.                                               *)
(***************************************************************************)
IsolateInv ==
  /\ pending # NoException => Younger(pending, depth)
  /\ \A d \in 1..depth :
       /\ stack[d].saved # NoException => Younger(stack[d].saved, d - 1)
       /\ stack[d].exception # NoException => Younger(stack[d].exception, d - 1)

(***************************************************************************)
(* An exception of a call's own that is not reported yet is pending, and   *)
(* the call is on top and about to ask for it.                             *)
(***************************************************************************)
AboutToReport(e) ==
  /\ depth > 0
  /\ Top.call = exceptions[e].by
  /\ Top.pc \in {"badArgument", "called", "failed"}
  /\ Top.java = "none"
  /\ pending = e

OwnInv ==
  \A e \in 1..raised :
    exceptions[e].via \in {"argument", "call"} =>
      /\ exceptions[e].by # 0
      /\ \/ exceptions[e].reporter = exceptions[e].by
         \/ exceptions[e].reporter = 0 /\ (process = "up" => AboutToReport(e))

IInv == TypeOK /\ FrameInv /\ IsolateInv /\ OwnInv /\ ClearedForGood

USE DEF NoException

-----------------------------------------------------------------------------
(***************************************************************************)
(* The three ways a step changes the stack.                                *)
(***************************************************************************)

\* The top frame becomes f.
LEMMA TopStep ==
  ASSUME TypeOK, FrameInv, IsolateInv, depth # 0,
         NEW f \in Frame, SetTop(f), UNCHANGED <<depth, process, calls>>,
         raised' \in raised..MaxRaised, pending' \in 0..raised',
         exceptions' \in [1..MaxRaised -> Exception],
         f.call = Top.call, f.pc = "args" => f.fn = "execJS",
         f.java = "setJSFrmVersion" => f.pc = "versioned",
         f.exception \in 0..raised',
         f.base \in 0..raised', f.saved \in 0..f.base,
         f.saved # 0 => Guarded(f) /\ Younger(f.saved, depth - 1),
         f.exception # 0 => Younger(f.exception, depth - 1),
         pending' # 0 => /\ Younger(pending', depth - 1)
                         /\ Guarded(f) => pending' > f.base
  PROVE  TypeOK' /\ FrameInv' /\ IsolateInv'
<1>. USE BridgeAssumption
<1>1. /\ depth \in 1..MaxDepth /\ depth' = depth
      /\ raised \in Nat /\ raised' \in Nat /\ raised <= raised'
      /\ stack' \in [1..MaxDepth -> Frame]
      /\ stack'[depth] = f
      /\ \A d \in 1..MaxDepth : d # depth => stack'[d] = stack[d]
  BY DEF TypeOK, SetTop
<1>2. TypeOK'
  <2>1. ASSUME NEW d \in 1..MaxDepth
        PROVE  /\ stack'[d].saved \in 0..stack'[d].base
               /\ stack'[d].base \in 0..raised'
               /\ stack'[d].saved # NoException => d <= depth' /\ Guarded(stack'[d])
    <3>1. CASE d = depth
      BY <1>1, <3>1
    <3>2. CASE d # depth
      BY <1>1, <3>2 DEF TypeOK
    <3>. QED
      BY <3>1, <3>2
  <2>. QED
    BY <1>1, <2>1 DEF TypeOK
<1>3. FrameInv'
  <2>. SUFFICES ASSUME NEW d \in 1..depth PROVE FrameOK(stack[d])'
    BY <1>1 DEF FrameInv
  <2>. d \in 1..MaxDepth
    BY <1>1
  <2>1. CASE d = depth
    BY <1>1, <2>1 DEF FrameInv, FrameOK, Top
  <2>2. CASE d # depth
    <3>1. stack'[d] = stack[d] /\ FrameOK(stack[d])
      BY <1>1, <2>2 DEF FrameInv
    <3>. QED
      BY <1>1, <3>1 DEF FrameOK
  <2>. QED
    BY <2>1, <2>2
<1>4. ASSUME NEW x, NEW d \in 0..(depth - 1), Younger(x, d)
      PROVE  \A c \in 1..d : Guarded(stack'[c]) => x > stack'[c].base
  <2>1. \A c \in 1..d : stack'[c] = stack[c]
    BY <1>1
  <2>. QED
    BY <1>4, <2>1 DEF Younger
<1>5. IsolateInv'
  <2>1. ASSUME pending' # 0
        PROVE  \A c \in 1..depth : Guarded(stack'[c]) => pending' > stack'[c].base
    BY <1>1, <1>4, <2>1
  <2>2. ASSUME NEW d \in 1..depth, stack'[d].saved # 0
        PROVE  \A c \in 1..(d - 1) : Guarded(stack'[c]) => stack'[d].saved > stack'[c].base
    <3>1. Younger(stack'[d].saved, d - 1)
      BY <1>1, <2>2 DEF IsolateInv
    <3>. QED
      BY <1>1, <1>4, <3>1
  <2>3. ASSUME NEW d \in 1..depth, stack'[d].exception # 0
        PROVE  \A c \in 1..(d - 1) :
                 Guarded(stack'[c]) => stack'[d].exception > stack'[c].base
    <3>1. Younger(stack'[d].exception, d - 1)
      BY <1>1, <2>3 DEF IsolateInv
    <3>. QED
      BY <1>1, <1>4, <3>1
  <2>. QED
    BY <1>1, <2>1, <2>2, <2>3 DEF IsolateInv, Younger
<1>. QED
  BY <1>2, <1>3, <1>5

\* A native call begins, with frame f.
LEMMA PushStep ==
  ASSUME TypeOK, FrameInv, IsolateInv, depth < MaxDepth, calls < MaxCalls,
         NEW f \in Frame, Push(f), depth' = depth + 1, calls' = calls + 1,
         UNCHANGED process, NothingRaised,
         f.call = calls + 1, f.java = "none", f.exception = 0,
         f.pc = "args" => f.fn = "execJS",
         \/ f.saved = 0 /\ f.base = 0 /\ pending' = pending /\ ~Guarded(f)
         \/ f.saved = pending /\ f.base = raised /\ pending' = 0 /\ Guarded(f)
  PROVE  TypeOK' /\ FrameInv' /\ IsolateInv'
<1>. USE BridgeAssumption
<1>1. /\ depth \in Nat /\ depth + 1 \in 1..MaxDepth /\ depth' = depth + 1
      /\ raised \in Nat /\ raised' = raised /\ pending \in 0..raised
      /\ calls \in Nat /\ calls' \in 0..MaxCalls
      /\ stack' \in [1..MaxDepth -> Frame]
      /\ stack'[depth + 1] = f
      /\ \A d \in 1..MaxDepth : d # depth + 1 => stack'[d] = stack[d]
      /\ pending' \in 0..raised
      /\ exceptions' = exceptions
  BY DEF TypeOK, Push, NothingRaised
<1>2. TypeOK'
  <2>1. ASSUME NEW d \in 1..MaxDepth
        PROVE  /\ stack'[d].saved \in 0..stack'[d].base
               /\ stack'[d].base \in 0..raised'
               /\ stack'[d].saved # NoException => d <= depth' /\ Guarded(stack'[d])
    <3>1. CASE d = depth + 1
      BY <1>1, <3>1
    <3>2. CASE d # depth + 1
      BY <1>1, <3>2 DEF TypeOK
    <3>. QED
      BY <3>1, <3>2
  <2>. QED
    BY <1>1, <2>1 DEF TypeOK
<1>3. FrameInv'
  <2>. SUFFICES ASSUME NEW d \in 1..(depth + 1) PROVE FrameOK(stack[d])'
    BY <1>1 DEF FrameInv
  <2>. d \in 1..MaxDepth
    BY <1>1
  <2>1. CASE d = depth + 1
    BY <1>1, <2>1 DEF FrameOK
  <2>2. CASE d # depth + 1
    BY <1>1, <2>2 DEF FrameInv, FrameOK
  <2>. QED
    BY <2>1, <2>2
<1>4. ASSUME NEW x, NEW d \in 0..depth, Younger(x, d)
      PROVE  \A c \in 1..d : Guarded(stack'[c]) => x > stack'[c].base
  <2>1. \A c \in 1..d : stack'[c] = stack[c]
    BY <1>1
  <2>. QED
    BY <1>4, <2>1 DEF Younger
<1>5. IsolateInv'
  <2>1. ASSUME pending' # 0
        PROVE  \A c \in 1..(depth + 1) : Guarded(stack'[c]) => pending' > stack'[c].base
    BY <1>1, <1>4, <2>1 DEF IsolateInv
  <2>2. ASSUME NEW d \in 1..(depth + 1), stack'[d].saved # 0
        PROVE  \A c \in 1..(d - 1) : Guarded(stack'[c]) => stack'[d].saved > stack'[c].base
    <3>1. Younger(stack'[d].saved, d - 1)
      BY <1>1, <2>2 DEF IsolateInv
    <3>. QED
      BY <1>1, <1>4, <3>1
  <2>3. ASSUME NEW d \in 1..(depth + 1), stack'[d].exception # 0
        PROVE  \A c \in 1..(d - 1) :
                 Guarded(stack'[c]) => stack'[d].exception > stack'[c].base
    <3>1. Younger(stack'[d].exception, d - 1)
      BY <1>1, <2>3 DEF IsolateInv
    <3>. QED
      BY <1>1, <1>4, <3>1
  <2>. QED
    BY <1>1, <2>1, <2>2, <2>3 DEF IsolateInv, Younger
<1>. QED
  BY <1>2, <1>3, <1>5

\* A native call returns.
LEMMA PopStep ==
  ASSUME TypeOK, FrameInv, IsolateInv, depth # 0, Pop, UNCHANGED <<process, calls, raised>>,
         pending' \in 0..raised, exceptions' \in [1..MaxRaised -> Exception],
         pending' # 0 => Younger(pending', depth - 1)
  PROVE  TypeOK' /\ FrameInv' /\ IsolateInv'
<1>. USE BridgeAssumption
<1>0. NoFrame \in Frame
  BY DEF NoFrame, Frame, PCs
<1>1. /\ depth \in 1..MaxDepth /\ depth' = depth - 1
      /\ raised \in Nat /\ raised' = raised
      /\ stack' \in [1..MaxDepth -> Frame]
      /\ stack'[depth] = NoFrame
      /\ \A d \in 1..MaxDepth : d # depth => stack'[d] = stack[d]
  BY <1>0 DEF TypeOK, Pop
<1>2. TypeOK'
  <2>1. ASSUME NEW d \in 1..MaxDepth
        PROVE  /\ stack'[d].saved \in 0..stack'[d].base
               /\ stack'[d].base \in 0..raised'
               /\ stack'[d].saved # NoException => d <= depth' /\ Guarded(stack'[d])
    <3>1. CASE d = depth
      BY <1>1, <3>1 DEF NoFrame
    <3>2. CASE d # depth
      BY <1>1, <3>2 DEF TypeOK
    <3>. QED
      BY <3>1, <3>2
  <2>. QED
    BY <1>1, <2>1 DEF TypeOK
<1>3. FrameInv'
  <2>. SUFFICES ASSUME NEW d \in 1..(depth - 1) PROVE FrameOK(stack[d])'
    BY <1>1 DEF FrameInv
  <2>1. stack'[d] = stack[d] /\ FrameOK(stack[d])
    BY <1>1 DEF FrameInv
  <2>. QED
    BY <1>1, <2>1 DEF FrameOK
<1>4. \A d \in 0..(depth - 1) : \A x : Younger(x, d) <=> Younger(x, d)'
  BY <1>1 DEF Younger
<1>5. IsolateInv'
  BY <1>1, <1>4 DEF IsolateInv, Younger
<1>. QED
  BY <1>2, <1>3, <1>5
-----------------------------------------------------------------------------
(***************************************************************************)
(* The history of the exceptions.                                          *)
(***************************************************************************)

\* What the invariant says of the top frame.
LEMMA TopFacts ==
  ASSUME TypeOK, FrameInv, IsolateInv, Up
  PROVE  /\ depth \in 1..MaxDepth
         /\ Top \in Frame
         /\ FrameOK(Top)
         /\ Top.base \in 0..raised
         /\ Top.saved \in 0..Top.base
         /\ Top.saved # 0 => Guarded(Top) /\ Younger(Top.saved, depth - 1)
         /\ Top.exception # 0 => Younger(Top.exception, depth - 1)
         /\ pending # 0 => /\ Younger(pending, depth - 1)
                           /\ Guarded(Top) => pending > Top.base
<1>. USE BridgeAssumption
<1>1. depth \in 1..MaxDepth /\ depth \in 1..depth
  BY DEF TypeOK, Up
<1>2. /\ Top \in Frame
      /\ Top.base \in 0..raised
      /\ Top.saved \in 0..Top.base
      /\ Top.saved # 0 => Guarded(Top)
  BY <1>1 DEF TypeOK, Top
<1>3. FrameOK(Top)
  BY <1>1 DEF FrameInv, Top
<1>4. /\ Top.saved # 0 => Younger(Top.saved, depth - 1)
      /\ Top.exception # 0 => Younger(Top.exception, depth - 1)
  BY <1>1 DEF IsolateInv, Top
<1>5. pending # 0 => Younger(pending, depth - 1) /\ (Guarded(Top) => pending > Top.base)
  BY <1>1 DEF IsolateInv, Younger, Top
<1>. QED
  BY <1>1, <1>2, <1>3, <1>4, <1>5

\* The call on top is about to ask for a pending exception.
Asking ==
  Top.pc \in {"badArgument", "called", "failed"} /\ Top.java = "none" /\ pending # 0

\* Unless it is, every call has reported its own exceptions.
LEMMA OwnSettled ==
  ASSUME TypeOK, OwnInv, process = "up", depth = 0 \/ ~Asking
  PROVE  \A e \in 1..raised :
           exceptions[e].via \in {"argument", "call"} =>
             exceptions[e].by # 0 /\ exceptions[e].reporter = exceptions[e].by
BY DEF TypeOK, OwnInv, AboutToReport, Asking

LEMMA OwnKept ==
  ASSUME TypeOK, OwnInv, process = "up", depth = 0 \/ ~Asking, NothingRaised
  PROVE  OwnInv'
BY OwnSettled DEF OwnInv, NothingRaised

\* What Raise records.
LEMMA RaiseFacts ==
  ASSUME TypeOK, FrameInv, IsolateInv, Up,
         NEW via \in {"argument", "result", "call", "other"}, Raise(via)
  PROVE  /\ raised' = raised + 1 /\ raised' \in raised..MaxRaised
         /\ pending' = raised + 1
         /\ exceptions' \in [1..MaxRaised -> Exception]
         /\ \A e \in 1..raised : exceptions'[e] = exceptions[e]
         /\ exceptions'[raised + 1].by = Top.call
         /\ exceptions'[raised + 1].via = via
         /\ exceptions'[raised + 1].reporter = 0
         /\ exceptions'[raised + 1].cleared = FALSE
         /\ exceptions'[raised + 1].inFunction = InFunction(Top)
         /\ Younger(pending', depth)
<1>. USE BridgeAssumption
<1>1. /\ raised \in Nat /\ raised + 1 \in 1..MaxRaised
      /\ raised' = raised + 1 /\ pending' = raised + 1
  BY DEF TypeOK, Raise
<1>2. Top.call \in Nat
  BY TopFacts DEF Frame
<1>3. PICK b \in BOOLEAN : b = InFunction(Top)
  BY Zenon DEF InFunction
<1>. DEFINE x == [NotRaised EXCEPT !.by = Top.call, !.via = via, !.inFunction = b]
<1>4. /\ x \in Exception /\ x.by = Top.call /\ x.via = via /\ x.reporter = 0
       /\ x.cleared = FALSE /\ x.inFunction = b
  BY <1>2, <1>3 DEF NotRaised, Exception
<1>5. exceptions' = [exceptions EXCEPT ![raised + 1] = x]
  BY <1>3 DEF Raise
<1>6. exceptions \in [1..MaxRaised -> Exception]
  BY DEF TypeOK
<1>. HIDE DEF x
<1>7. /\ exceptions' \in [1..MaxRaised -> Exception]
      /\ \A e \in 1..raised : exceptions'[e] = exceptions[e]
      /\ exceptions'[raised + 1] = x
  BY <1>1, <1>4, <1>5, <1>6
<1>8. Younger(pending', depth)
  BY <1>1 DEF Younger, TypeOK
<1>9. exceptions'[raised + 1].inFunction = InFunction(Top)
  BY <1>3, <1>4, <1>7, Zenon
<1>. QED
  BY <1>1, <1>4, <1>7, <1>8, <1>9

LEMMA OwnRaised ==
  ASSUME TypeOK, FrameInv, IsolateInv, OwnInv, Up, ~Asking,
         NEW via \in {"argument", "result", "call", "other"}, Raise(via),
         NEW f \in Frame, SetTop(f), depth' = depth,
         via \in {"argument", "call"} =>
           /\ f.pc \in {"badArgument", "called", "failed"}
           /\ f.java = "none"
           /\ f.call = Top.call
  PROVE  OwnInv'
<1>1. stack'[depth] = f /\ depth > 0 /\ raised \in Nat
  BY TopFacts DEF SetTop, TypeOK
<1>2. ASSUME NEW e \in 1..raised, exceptions'[e].via \in {"argument", "call"}
      PROVE  exceptions'[e].by # 0 /\ exceptions'[e].reporter = exceptions'[e].by
  BY <1>2, RaiseFacts, OwnSettled DEF Up
<1>3. ASSUME via \in {"argument", "call"}
      PROVE  /\ exceptions'[raised + 1].by # 0
             /\ exceptions'[raised + 1].reporter = 0
             /\ AboutToReport(raised)'
  <2>1. Top.call # 0
    BY TopFacts DEF FrameOK
  <2>. QED
    BY <1>1, <1>3, <2>1, RaiseFacts DEF AboutToReport, Top
<1>4. exceptions'[raised + 1].via = via /\ raised' = raised + 1
  BY RaiseFacts
<1>5. ASSUME NEW e \in 1..raised', exceptions'[e].via \in {"argument", "call"}
      PROVE  /\ exceptions'[e].by # 0
             /\ \/ exceptions'[e].reporter = exceptions'[e].by
                \/ exceptions'[e].reporter = 0 /\ (process' = "up" => AboutToReport(e)')
  <2>1. CASE e = raised'
    BY <1>1, <1>3, <1>4, <1>5, <2>1 DEF AboutToReport
  <2>2. CASE e # raised'
    BY <1>1, <1>2, <1>4, <1>5, <2>2
  <2>. QED
    BY <2>1, <2>2
<1>. QED
  BY <1>5 DEF OwnInv

\* A cleared exception stays away as long as nothing but what was pending or
\* saved, or a new exception, becomes pending or is saved.
LEMMA ClearedKept ==
  ASSUME TypeOK, ClearedForGood,
         \A e \in 1..raised' : exceptions'[e].cleared => e \in 1..raised /\ exceptions[e].cleared,
         \A e \in 1..raised :
            pending # e /\ (\A d \in 1..depth : stack[d].saved # e) =>
              pending' # e /\ (\A d \in 1..depth' : stack'[d].saved # e)
  PROVE  ClearedForGood'
BY DEF ClearedForGood

-----------------------------------------------------------------------------
(***************************************************************************)
(* Steps of one shape.                                                     *)
(***************************************************************************)

\* The top frame moves on, within its scope or out of none; nothing new is
\* pending.
LEMMA QuietTop ==
  ASSUME IInv, Up, ~Asking, NEW f \in Frame, SetTop(f),
         UNCHANGED <<depth, process, calls>>, NothingRaised,
         pending' \in {pending, 0},
         f.call = Top.call, f.saved = Top.saved, f.base = Top.base,
         f.pc = "args" => f.fn = "execJS",
         f.exception \in {0, Top.exception},
         f.java = "setJSFrmVersion" => f.pc = "versioned",
         Guarded(f) <=> Guarded(Top)
  PROVE  IInv'
<1>. USE BridgeAssumption DEF IInv
<1>1. /\ raised' = raised /\ raised \in 0..MaxRaised /\ pending \in 0..raised
      /\ exceptions' = exceptions /\ exceptions \in [1..MaxRaised -> Exception]
  BY DEF NothingRaised, TypeOK
<1>2. TypeOK' /\ FrameInv' /\ IsolateInv'
  <2>1. f.exception \in 0..raised'
    BY <1>1, TopFacts DEF FrameOK
  <2>. QED
    BY <1>1, <2>1, TopFacts, TopStep DEF Up
<1>3. OwnInv'
  BY OwnKept DEF Up
<1>4. ClearedForGood'
  <2>1. /\ depth \in 1..MaxDepth /\ depth' = depth
        /\ \A d \in 1..depth : stack'[d].saved = stack[d].saved
    BY TopFacts DEF SetTop, Top, TypeOK
  <2>. QED
    BY <1>1, <2>1, ClearedKept
<1>. QED
  BY <1>2, <1>3, <1>4

\* The top frame throws.
LEMMA RaisingTop ==
  ASSUME IInv, Up, ~Asking, NEW f \in Frame, SetTop(f),
         UNCHANGED <<depth, process, calls>>,
         NEW via \in {"argument", "result", "call", "other"}, Raise(via),
         f.call = Top.call, f.pc = "args" => f.fn = "execJS",
         \/ f.saved = Top.saved /\ f.base = Top.base /\ (Guarded(Top) => Guarded(f))
         \/ f.saved = 0 /\ f.base = 0,
         f.exception \in {0, Top.exception},
         f.java # "setJSFrmVersion",
         via \in {"argument", "call"} =>
           f.pc \in {"badArgument", "called", "failed"} /\ f.java = "none"
  PROVE  IInv'
<1>. USE BridgeAssumption DEF IInv
<1>0. /\ raised' = raised + 1 /\ raised' \in raised..MaxRaised
      /\ pending' = raised + 1
      /\ exceptions' \in [1..MaxRaised -> Exception]
      /\ \A e \in 1..raised : exceptions'[e] = exceptions[e]
      /\ exceptions'[raised + 1].cleared = FALSE
      /\ Younger(pending', depth)
  BY RaiseFacts
<1>1. raised \in Nat /\ raised' = raised + 1 /\ pending' \in 0..raised'
  BY <1>0 DEF TypeOK
<1>2. TypeOK' /\ FrameInv' /\ IsolateInv'
  <2>1. /\ f.exception \in 0..raised'
        /\ f.exception # 0 => Younger(f.exception, depth - 1)
    BY <1>1, TopFacts DEF FrameOK
  <2>2. /\ f.base \in 0..raised' /\ f.saved \in 0..f.base
        /\ f.saved # 0 => Guarded(f) /\ Younger(f.saved, depth - 1)
    BY <1>1, TopFacts
  <2>3. Younger(pending', depth - 1) /\ pending' > f.base
    BY <1>0, <1>1, TopFacts DEF Younger
  <2>. QED
    BY <1>1, <2>1, <2>2, <2>3, <1>0, TopFacts, TopStep DEF Up
<1>3. OwnInv'
  BY OwnRaised
<1>4. ClearedForGood'
  <2>1. /\ depth \in 1..MaxDepth /\ depth' = depth
        /\ \A d \in 1..depth : stack'[d].saved \in {0, stack[d].saved}
    BY TopFacts DEF SetTop, Top, TypeOK
  <2>2. \A e \in 1..raised' : exceptions'[e].cleared => e \in 1..raised /\ exceptions[e].cleared
    BY <1>0, <1>1
  <2>3. pending' = raised + 1
    BY <1>0
  <2>. QED
    BY <1>1, <2>1, <2>2, <2>3, ClearedKept
<1>. QED
  BY <1>2, <1>3, <1>4

\* The process ends.
LEMMA ProcessEnds ==
  ASSUME IInv, process' \in {"aborted", "crashed"},
         UNCHANGED <<depth, stack, pending, calls, raised, exceptions>>
  PROVE  IInv'
BY DEF IInv, TypeOK, FrameInv, FrameOK, IsolateInv, Younger, OwnInv, ClearedForGood

\* Goto changes where a frame is and nothing that it keeps.
Moved(pc) == [Top EXCEPT !.pc = pc, !.java = "none", !.exception = NoException]

LEMMA MovedFrame ==
  ASSUME Top \in Frame, NEW pc \in PCs
  PROVE  /\ Moved(pc) \in Frame
         /\ Moved(pc).fn = Top.fn /\ Moved(pc).call = Top.call
         /\ Moved(pc).pc = pc /\ Moved(pc).java = "none"
         /\ Moved(pc).exception = 0
         /\ Moved(pc).saved = Top.saved /\ Moved(pc).base = Top.base
BY DEF Frame, Moved

-----------------------------------------------------------------------------
(***************************************************************************)
(* Native methods and JavaScript.                                          *)
(***************************************************************************)

\* Java's calls push a frame, guarded or not.
LEMMA NativeCallStep == IInv /\ NativeCall => IInv'
<1>. SUFFICES ASSUME IInv, NativeCall PROVE IInv'
  OBVIOUS
<1>. USE BridgeAssumption DEF IInv
<1>1. ASSUME NEW fn \in {"execJS", "execJSService", "initFramework"}, Enter(fn)
      PROVE  /\ depth \in Nat /\ depth < MaxDepth /\ calls < MaxCalls /\ calls \in Nat
             /\ depth' = depth + 1 /\ calls' = calls + 1 /\ UNCHANGED process
             /\ NothingRaised /\ process = "up" /\ (depth = 0 \/ ~Asking)
  BY <1>1 DEF Enter, TypeOK, InJava, Asking
<1>2. ASSUME NEW fn \in {"execJS", "execJSService", "initFramework"}, NEW pc \in PCs
      PROVE  /\ Called(fn, pc) \in Frame
             /\ Called(fn, pc).fn = fn
             /\ Called(fn, pc).pc = pc
             /\ Called(fn, pc).call = calls + 1
             /\ Called(fn, pc).java = "none" /\ Called(fn, pc).exception = 0
             /\ Called(fn, pc).saved = 0 /\ Called(fn, pc).base = 0
  <2>1. calls + 1 \in Nat
    BY DEF TypeOK
  <2>. QED
    BY <2>1 DEF Called, NoFrame, Frame
<1>3. ASSUME NEW fn \in {"execJS", "initFramework"},
             NEW pc \in {"args", "drain"}, pc = "args" => fn = "execJS",
             Enter(fn), Push(Called(fn, pc)), UNCHANGED pending
      PROVE  IInv'
  <2>1. pc \in PCs
    BY DEF PCs
  <2>2. ~Guarded(Called(fn, pc))
    BY <1>2, <2>1 DEF Guarded
  <2>3. TypeOK' /\ FrameInv' /\ IsolateInv'
    BY <1>1, <1>2, <1>3, <2>1, <2>2, PushStep
  <2>4. OwnInv'
    BY <1>1, <1>3, OwnKept
  <2>5. ClearedForGood'
    <3>1. /\ depth + 1 \in 1..MaxDepth /\ depth' = depth + 1
          /\ \A d \in 1..depth : stack'[d].saved = stack[d].saved
          /\ stack'[depth + 1].saved = 0
      BY <1>1, <1>2, <1>3, <2>1 DEF Push, TypeOK
    <3>2. raised' = raised /\ exceptions' = exceptions /\ pending' = pending
      BY <1>1, <1>3 DEF NothingRaised
    <3>3. depth \in Nat
      BY <1>1, <1>3
    <3>. QED
      BY <3>1, <3>2, <3>3, ClearedKept
  <2>. QED
    BY <2>3, <2>4, <2>5
<1>4. ASSUME NEW fn \in {"execJSService", "initFramework"}, ExecuteJavaScript(fn)
      PROVE  IInv'
  <2>. DEFINE f == Save(Called(fn, "js"))
  <2>1. /\ Enter(fn) /\ Push(f) /\ pending' = 0
    BY <1>4 DEF ExecuteJavaScript, Guard
  <2>2. "js" \in PCs /\ pending \in Nat /\ raised \in Nat /\ pending \in 0..raised
    BY DEF PCs, JSPCs, TypeOK
  <2>3. /\ f \in Frame /\ f.fn = fn /\ f.pc = "js" /\ f.call = calls + 1
        /\ f.java = "none" /\ f.exception = 0 /\ f.saved = pending /\ f.base = raised
    <3>. DEFINE g == Called(fn, "js")
    <3>1. /\ g \in Frame /\ g.fn = fn /\ g.pc = "js" /\ g.call = calls + 1
          /\ g.java = "none" /\ g.exception = 0
      BY <1>2, <2>2
    <3>. HIDE DEF g
    <3>2. f = [g EXCEPT !.saved = pending, !.base = raised]
      BY DEF Save, g
    <3>. QED
      BY <2>2, <3>1, <3>2 DEF Frame
  <2>4. Guarded(f)
    BY <2>3 DEF Guarded
  <2>. HIDE DEF f
  <2>5. TypeOK' /\ FrameInv' /\ IsolateInv'
    BY <1>1, <2>1, <2>3, <2>4, PushStep
  <2>6. OwnInv'
    BY <1>1, <2>1, OwnKept
  <2>7. ClearedForGood'
    <3>1. /\ depth + 1 \in 1..MaxDepth /\ depth' = depth + 1
          /\ \A d \in 1..depth : stack'[d].saved = stack[d].saved
          /\ stack'[depth + 1].saved = pending
      BY <1>1, <2>1, <2>3 DEF Push, TypeOK
    <3>2. raised' = raised /\ exceptions' = exceptions
      BY <1>1, <2>1 DEF NothingRaised
    <3>3. depth \in Nat
      BY <1>1, <2>1
    <3>. QED
      BY <2>1, <3>1, <3>2, <3>3, ClearedKept
  <2>. QED
    BY <2>5, <2>6, <2>7
<1>. QED
  BY <1>3, <1>4 DEF NativeCall, native_execJS, native_execJSService, native_initFramework

LEMMA ArgumentsStep == IInv /\ Arguments => IInv'
<1>. SUFFICES ASSUME IInv, Arguments PROVE IInv'
  OBVIOUS
<1>1. /\ Up /\ Top.pc = "args" /\ ~Asking /\ Top \in Frame /\ ~Guarded(Top)
      /\ Top.fn = "execJS"
  BY TopFacts DEF IInv, Arguments, ConvertArguments, ArgumentFails, NamespaceAborts, At,
                  Asking, Guarded, FrameOK
<1>2. CASE ConvertArguments
  <2>1. "js" \in PCs
    BY DEF PCs, JSPCs
  <2>2. ~Guarded(Moved("js"))
    BY <1>1, <2>1, MovedFrame DEF Guarded
  <2>3. SetTop(Moved("js")) /\ UNCHANGED <<depth, pending, process, calls>> /\ NothingRaised
    BY <1>2 DEF ConvertArguments, Goto, Moved
  <2>. QED
    BY <1>1, <2>1, <2>2, <2>3, MovedFrame, QuietTop
<1>3. CASE ArgumentFails
  <2>1. "badArgument" \in PCs
    BY DEF PCs
  <2>2. SetTop(Moved("badArgument")) /\ Raise("argument") /\ UNCHANGED <<depth, process, calls>>
    BY <1>3 DEF ArgumentFails, Goto, Moved
  <2>. QED
    BY <1>1, <2>1, <2>2, MovedFrame, RaisingTop
<1>4. CASE NamespaceAborts
  BY <1>4, ProcessEnds DEF NamespaceAborts, NothingRaised
<1>. QED
  BY <1>2, <1>3, <1>4 DEF Arguments

LEMMA JavaScriptStep == IInv /\ JavaScript => IInv'
<1>. SUFFICES ASSUME IInv, JavaScript PROVE IInv'
  OBVIOUS
<1>1. Up /\ Top.pc \in JSPCs /\ Top.java = "none" /\ ~Asking
  BY DEF JavaScript, TryCatch, JSReturns, FunctionThrows, ScriptThrows, VersionThrows,
         CallJava, ToStringThrows, JSRunning, At, Asking, JSPCs
<1>2. Top \in Frame /\ FrameOK(Top) /\ Top = stack[depth] /\ Top.pc # "args"
  BY <1>1, TopFacts DEF IInv, Top, JSPCs
<1>3. CASE TryCatch
  <2>1. SetTop(Top)
    BY <1>3, TopFacts DEF TryCatch, SetTop, IInv, TypeOK, Top
  <2>2. UNCHANGED <<depth, process, calls>> /\ NothingRaised /\ pending' = 0
    BY <1>3 DEF TryCatch
  <2>. QED
    BY <1>1, <1>2, <2>1, <2>2, QuietTop DEF FrameOK
<1>4. CASE JSReturns
  <2>1. AfterReturn \in PCs /\ AfterReturn # "args"
    BY DEF AfterReturn, PCs
  <2>2. Guarded(Moved(AfterReturn)) <=> Guarded(Top)
    BY <1>2, <1>4, <2>1, MovedFrame DEF Guarded, AfterReturn, JSReturns, At
  <2>3. SetTop(Moved(AfterReturn)) /\ UNCHANGED <<depth, pending, process, calls>> /\ NothingRaised
    BY <1>4 DEF JSReturns, Goto, Moved
  <2>. QED
    BY <1>1, <1>2, <2>1, <2>2, <2>3, MovedFrame, QuietTop
<1>5. CASE FunctionThrows
  <2>1. "called" \in PCs
    BY DEF PCs
  <2>2. SetTop(Moved("called")) /\ Raise("call") /\ UNCHANGED <<depth, process, calls>>
    BY <1>5 DEF FunctionThrows, Goto, Moved
  <2>3. ~Guarded(Top)
    BY <1>5 DEF FunctionThrows, Guarded, At
  <2>. QED
    BY <1>1, <1>2, <2>1, <2>2, <2>3, MovedFrame, RaisingTop
<1>6. CASE ScriptThrows
  <2>1. "failed" \in PCs
    BY DEF PCs
  <2>2. SetTop(Moved("failed")) /\ Raise("call") /\ UNCHANGED <<depth, process, calls>>
    BY <1>6 DEF ScriptThrows, Goto, Moved
  <2>3. Guarded(Moved("failed"))
    BY <1>2, <1>6, <2>1, MovedFrame DEF ScriptThrows, Guarded
  <2>. QED
    BY <1>1, <1>2, <2>1, <2>2, <2>3, MovedFrame, RaisingTop
<1>7. CASE VersionThrows
  <2>1. "drain" \in PCs
    BY DEF PCs
  <2>2. SetTop(Moved("drain")) /\ Raise("other") /\ UNCHANGED <<depth, process, calls>>
    BY <1>7 DEF VersionThrows, Goto, Moved
  <2>3. ~Guarded(Top)
    BY <1>7 DEF VersionThrows, Guarded, At
  <2>. QED
    BY <1>1, <1>2, <2>1, <2>2, <2>3, MovedFrame, RaisingTop
<1>8. ASSUME NEW m \in Callbacks, CallJava(m) PROVE IInv'
  <2>. DEFINE j == IF m = "callNativeModule" THEN m ELSE "otherCallback"
              f == [Top EXCEPT !.java = j]
  <2>1. j \in {"callNativeModule", "otherCallback"}
    OBVIOUS
  <2>2. SetTop(f) /\ UNCHANGED <<depth, process, calls>> /\ Convert(m)
    BY <1>8 DEF CallJava
  <2>. HIDE DEF j
  <2>3. /\ f \in Frame /\ f.fn = Top.fn /\ f.call = Top.call /\ f.pc = Top.pc
        /\ f.java = j /\ f.exception = Top.exception
        /\ f.saved = Top.saved /\ f.base = Top.base
    BY <1>2, <2>1 DEF Frame, JavaMethods
  <2>4. Guarded(f) <=> Guarded(Top)
    BY <2>3 DEF Guarded
  <2>. HIDE DEF f
  <2>5. CASE UNCHANGED pending /\ NothingRaised
    BY <1>1, <1>2, <2>1, <2>2, <2>3, <2>4, <2>5, QuietTop
  <2>6. CASE Raise("other")
    BY <1>1, <1>2, <2>1, <2>2, <2>3, <2>4, <2>6, RaisingTop
  <2>. QED
    BY <2>2, <2>5, <2>6 DEF Convert
<1>9. ASSUME NEW m \in Callbacks, ToStringThrows(m) PROVE IInv'
  BY <1>9, ProcessEnds DEF ToStringThrows, NothingRaised
<1>. QED
  BY <1>3, <1>4, <1>5, <1>6, <1>7, <1>8, <1>9 DEF JavaScript

LEMMA JavaReturnsStep == IInv /\ JavaReturns => IInv'
<1>. SUFFICES ASSUME IInv, JavaReturns PROVE IInv'
  OBVIOUS
<1>. DEFINE f == [Top EXCEPT !.java = "none"]
<1>1. Up /\ ~Asking /\ SetTop(f) /\ UNCHANGED <<depth, process, calls>>
  BY DEF JavaReturns, Asking
<1>2. Top \in Frame /\ FrameOK(Top)
  BY <1>1, TopFacts DEF IInv
<1>3. /\ f \in Frame /\ f.fn = Top.fn /\ f.call = Top.call /\ f.pc = Top.pc
      /\ f.java = "none" /\ f.exception = Top.exception
      /\ f.saved = Top.saved /\ f.base = Top.base
  BY <1>2 DEF Frame
<1>4. Guarded(f) <=> Guarded(Top)
  BY <1>3 DEF Guarded
<1>. HIDE DEF f
<1>5. f.pc = "args" => f.fn = "execJS"
  BY <1>2, <1>3 DEF FrameOK
<1>6. CASE UNCHANGED pending /\ NothingRaised
  BY <1>1, <1>2, <1>3, <1>4, <1>5, <1>6, QuietTop
<1>7. CASE Raise("result")
  BY <1>1, <1>2, <1>3, <1>4, <1>5, <1>7, RaisingTop
<1>. QED
  BY <1>6, <1>7 DEF JavaReturns

-----------------------------------------------------------------------------
(***************************************************************************)
(* Reports.                                                                *)
(***************************************************************************)

LEMMA ReportExceptionStep == IInv /\ ReportException => IInv'
<1>. SUFFICES ASSUME IInv, ReportException PROVE IInv'
  OBVIOUS
<1>. USE BridgeAssumption DEF IInv
<1>. DEFINE f == [Top EXCEPT !.java = "reportJSException", !.exception = pending]
<1>1. /\ Up /\ pending # 0 /\ SetTop(f) /\ UNCHANGED <<depth, pending, process, calls, raised>>
      /\ process = "up"
  BY DEF ReportException, ToReport, At, Up
<1>2. /\ pending \in 1..raised /\ raised \in 0..MaxRaised /\ raised' = raised
      /\ pending \in 1..MaxRaised /\ pending \in Nat
      /\ exceptions \in [1..MaxRaised -> Exception]
  BY <1>1 DEF TypeOK
<1>3. Top \in Frame /\ FrameOK(Top) /\ Top.call \in Nat \ {0}
  BY <1>1, TopFacts DEF FrameOK, TypeOK
<1>4. /\ f \in Frame /\ f.fn = Top.fn /\ f.call = Top.call /\ f.pc = Top.pc
      /\ f.java = "reportJSException" /\ f.exception = pending
      /\ f.saved = Top.saved /\ f.base = Top.base
  BY <1>2, <1>3 DEF Frame, JavaMethods
<1>5. Guarded(f) <=> Guarded(Top)
  BY <1>4 DEF Guarded
<1>. HIDE DEF f
<1>6. /\ exceptions' \in [1..MaxRaised -> Exception]
      /\ \A e \in 1..raised :
           /\ exceptions'[e].by = exceptions[e].by
           /\ exceptions'[e].via = exceptions[e].via
           /\ exceptions'[e].cleared = exceptions[e].cleared
           /\ exceptions'[e].reporter =
                IF e = pending /\ exceptions[e].reporter = 0 THEN Top.call
                ELSE exceptions[e].reporter
  <2>1. CASE exceptions[pending].reporter = 0
    <3>1. exceptions' = [exceptions EXCEPT ![pending].reporter = Top.call]
      BY <2>1 DEF ReportException
    <3>2. exceptions[pending] \in Exception
      BY <1>2
    <3>. DEFINE x == [exceptions[pending] EXCEPT !.reporter = Top.call]
    <3>3. /\ x \in Exception /\ x.reporter = Top.call
          /\ x.by = exceptions[pending].by /\ x.via = exceptions[pending].via
          /\ x.cleared = exceptions[pending].cleared
      BY <1>3, <3>2 DEF Exception
    <3>4. exceptions' = [exceptions EXCEPT ![pending] = x]
      BY <1>2, <3>1
    <3>. HIDE DEF x
    <3>. QED
      BY <1>2, <2>1, <3>3, <3>4
  <2>2. CASE exceptions[pending].reporter # 0
    <3>1. exceptions' = exceptions
      BY <2>2 DEF ReportException
    <3>. QED
      BY <1>2, <2>2, <3>1
  <2>. QED
    BY <2>1, <2>2
<1>7. TypeOK' /\ FrameInv' /\ IsolateInv'
  <2>1. f.pc = "args" => f.fn = "execJS"
    BY <1>3, <1>4 DEF FrameOK
  <2>2. raised' \in raised..MaxRaised /\ pending' \in 0..raised' /\ f.exception \in 0..raised'
    BY <1>1, <1>2, <1>4
  <2>3. f.base \in 0..raised' /\ f.saved \in 0..f.base /\ depth # 0
    BY <1>1, <1>2, <1>4, TopFacts
  <2>4. /\ f.saved # 0 => Guarded(f) /\ Younger(f.saved, depth - 1)
        /\ Younger(f.exception, depth - 1)
        /\ pending' # 0 => Younger(pending', depth - 1) /\ (Guarded(f) => pending' > f.base)
    BY <1>1, <1>4, <1>5, TopFacts
  <2>. QED
    BY <1>1, <1>4, <1>6, <2>1, <2>2, <2>3, <2>4, TopStep
<1>8. OwnInv'
  <2>1. ASSUME NEW e \in 1..raised, exceptions[e].via \in {"argument", "call"}
        PROVE  exceptions'[e].by # 0 /\ exceptions'[e].reporter = exceptions'[e].by
    BY <1>1, <1>2, <1>6, <2>1 DEF OwnInv, AboutToReport
  <2>. QED
    BY <1>2, <1>6, <2>1 DEF OwnInv
<1>9. ClearedForGood'
  <2>1. /\ depth \in 1..MaxDepth /\ depth' = depth /\ pending' = pending
        /\ \A d \in 1..depth : stack'[d].saved = stack[d].saved
    BY <1>1, <1>4, TopFacts DEF SetTop, Top, TypeOK
  <2>. QED
    BY <1>2, <1>6, <2>1, ClearedKept
<1>. QED
  BY <1>7, <1>8, <1>9

\* After a report nothing is left to ask for.
LEMMA ReportedFacts ==
  ASSUME NEW pc \in AsksForException, Reported(pc)
  PROVE  Up /\ Top.pc = pc /\ ~Asking
BY DEF Reported, ToReport, Asking, At

\* JS_ClearPendingException at a place outside any scope of the frame's own:
\* what goes is saved in no frame, for it is younger than their scopes.
LEMMA ClearFacts ==
  ASSUME IInv, NEW pc \in AsksForException, Reported(pc), ~Guarded(Top),
         ClearPendingException,
         \A d \in 1..depth' : d \in 1..depth /\ stack'[d].saved = stack[d].saved
  PROVE  /\ exceptions' \in [1..MaxRaised -> Exception]
         /\ pending' = 0 /\ raised' = raised
         /\ OwnInv' /\ ClearedForGood'
<1>. USE BridgeAssumption DEF IInv
<1>1. /\ Up /\ ~Asking /\ process = "up" /\ pending' = 0 /\ raised' = raised
      /\ raised \in 0..MaxRaised
      /\ exceptions \in [1..MaxRaised -> Exception]
  BY ReportedFacts DEF ClearPendingException, RecordCleared, TypeOK, Up
<1>2. Top.exception \in 0..raised /\ depth \in 1..MaxDepth
  BY <1>1, TopFacts DEF FrameOK
<1>3. /\ exceptions' \in [1..MaxRaised -> Exception]
      /\ \A e \in 1..raised :
           /\ exceptions'[e].by = exceptions[e].by
           /\ exceptions'[e].via = exceptions[e].via
           /\ exceptions'[e].reporter = exceptions[e].reporter
           /\ exceptions'[e].cleared => exceptions[e].cleared \/ e = Top.exception
  <2>1. CASE Top.exception = 0
    BY <1>1, <2>1 DEF ClearPendingException, RecordCleared
  <2>2. CASE Top.exception # 0
    <3>1. exceptions' = [exceptions EXCEPT ![Top.exception].cleared = TRUE]
      BY <2>2 DEF ClearPendingException, RecordCleared
    <3>2. Top.exception \in 1..MaxRaised
      BY <1>1, <1>2, <2>2
    <3>3. exceptions' \in [1..MaxRaised -> Exception]
      BY <1>1, <3>1, <3>2 DEF Exception
    <3>4. ASSUME NEW e \in 1..raised
          PROVE  /\ exceptions'[e].by = exceptions[e].by
                 /\ exceptions'[e].via = exceptions[e].via
                 /\ exceptions'[e].reporter = exceptions[e].reporter
                 /\ exceptions'[e].cleared => exceptions[e].cleared \/ e = Top.exception
      <4>1. e \in 1..MaxRaised /\ exceptions[e] \in Exception
        BY <1>1
      <4>2. CASE e = Top.exception
        BY <1>1, <3>1, <4>1, <4>2 DEF Exception
      <4>3. CASE e # Top.exception
        BY <1>1, <3>1, <4>1, <4>3
      <4>. QED
        BY <4>2, <4>3
    <3>. QED
      BY <3>3, <3>4
  <2>. QED
    BY <2>1, <2>2
<1>4. OwnInv'
  BY <1>1, <1>3, OwnSettled DEF OwnInv
<1>5. ASSUME NEW d \in 1..depth, Top.exception # 0
      PROVE  stack[d].saved # Top.exception
  <2>1. CASE d = depth
    BY <1>1, <1>5, <2>1, TopFacts DEF Top
  <2>2. CASE d # depth
    <3>1. Younger(Top.exception, depth - 1)
      BY <1>1, <1>5, TopFacts
    <3>2. d \in 1..(depth - 1) /\ d \in 1..MaxDepth
      BY <1>2, <2>2
    <3>3. /\ stack[d].saved \in 0..stack[d].base /\ stack[d].base \in 0..raised
          /\ stack[d].saved # 0 => Guarded(stack[d])
      BY <3>2 DEF TypeOK
    <3>. QED
      BY <1>1, <1>2, <1>5, <3>1, <3>2, <3>3 DEF Younger
  <2>. QED
    BY <2>1, <2>2
<1>6. ClearedForGood'
  <2>. SUFFICES ASSUME NEW e \in 1..raised, exceptions'[e].cleared
                PROVE  pending' # e /\ \A d \in 1..depth' : stack'[d].saved # e
    BY <1>1 DEF ClearedForGood
  <2>1. CASE exceptions[e].cleared
    BY <1>1, <2>1 DEF ClearedForGood
  <2>2. CASE e = Top.exception
    BY <1>1, <1>5, <2>2
  <2>. QED
    BY <1>3, <2>1, <2>2
<1>. QED
  BY <1>1, <1>3, <1>4, <1>6

\* A step that ends a call and brings nothing back.
LEMMA PoppedSaved ==
  ASSUME TypeOK, depth # 0, Pop
  PROVE  \A d \in 1..depth' : d \in 1..depth /\ stack'[d].saved = stack[d].saved
BY DEF TypeOK, Pop

\* A step that changes the top frame only in what it does not save.
LEMMA SetSaved ==
  ASSUME TypeOK, depth # 0, NEW f, SetTop(f), f.saved = Top.saved, depth' = depth
  PROVE  \A d \in 1..depth' : d \in 1..depth /\ stack'[d].saved = stack[d].saved
BY DEF TypeOK, SetTop, Top

LEMMA ClearingTop ==
  ASSUME IInv, NEW pc \in AsksForException, Reported(pc), ~Guarded(Top),
         ClearPendingException, Goto("drain"), UNCHANGED <<depth, process, calls>>
  PROVE  IInv'
<1>. USE BridgeAssumption DEF IInv
<1>1. Up /\ Top.pc = pc /\ ~Asking
  BY ReportedFacts
<1>2. Top \in Frame /\ FrameOK(Top) /\ depth # 0 /\ raised \in 0..MaxRaised
  BY <1>1, TopFacts DEF TypeOK
<1>3. "drain" \in PCs /\ SetTop(Moved("drain"))
  BY DEF PCs, Goto, Moved
<1>4. /\ Moved("drain") \in Frame
      /\ Moved("drain").call = Top.call /\ Moved("drain").pc = "drain"
      /\ Moved("drain").java = "none" /\ Moved("drain").exception = 0
      /\ Moved("drain").saved = Top.saved /\ Moved("drain").base = Top.base
  BY <1>2, <1>3, MovedFrame
<1>5. /\ exceptions' \in [1..MaxRaised -> Exception]
      /\ pending' = 0 /\ raised' = raised
      /\ OwnInv' /\ ClearedForGood'
  BY <1>2, <1>3, <1>4, SetSaved, ClearFacts
<1>6. TypeOK' /\ FrameInv' /\ IsolateInv'
  <2>1. Top.saved = 0 /\ Top.base \in 0..raised' /\ raised' \in raised..MaxRaised /\ 0 \in 0..raised'
    BY <1>1, <1>2, <1>5, TopFacts
  <2>2. Top.saved \in 0..Top.base
    BY <1>1, TopFacts
  <2>. QED
    BY <1>2, <1>3, <1>4, <1>5, <2>1, <2>2, TopStep
<1>. QED
  BY <1>5, <1>6

\* Leaving a scope with an AutoSaveExceptionState: what it had saved comes
\* back, or what is pending stays, and either is younger than what is left of
\* the stack.
LEMMA RestoringFacts ==
  ASSUME TypeOK, FrameInv, IsolateInv, Up
  PROVE  /\ Restoring(pending) \in 0..raised
         /\ Restoring(pending) # 0 => Younger(Restoring(pending), depth - 1)
<1>1. /\ pending \in 0..raised /\ raised \in Nat
      /\ Top.saved \in 0..Top.base /\ Top.base \in 0..raised
  BY TopFacts DEF TypeOK
<1>. QED
  BY <1>1, TopFacts DEF Restoring

LEMMA LeavingTop ==
  ASSUME IInv, Up, ~Asking, NEW f \in Frame, SetTop(f),
         UNCHANGED <<depth, process, calls>>, NothingRaised,
         pending' = Restoring(pending),
         f.call = Top.call, f.saved = 0, f.base = 0, f.exception \in {0, Top.exception},
         f.java = "none", f.pc # "args", ~Guarded(f)
  PROVE  IInv'
<1>. USE BridgeAssumption DEF IInv
<1>1. /\ raised' = raised /\ raised \in 0..MaxRaised
      /\ exceptions' = exceptions /\ exceptions \in [1..MaxRaised -> Exception]
      /\ depth \in 1..MaxDepth
  BY TopFacts DEF NothingRaised, TypeOK
<1>2. TypeOK' /\ FrameInv' /\ IsolateInv'
  <2>1. /\ f.exception \in 0..raised'
        /\ f.exception # 0 => Younger(f.exception, depth - 1)
    BY <1>1, TopFacts DEF FrameOK
  <2>2. /\ pending' \in 0..raised' /\ raised' \in raised..MaxRaised
        /\ pending' # 0 => Younger(pending', depth - 1)
    BY <1>1, RestoringFacts
  <2>3. f.base \in 0..raised' /\ f.saved \in 0..f.base
    BY <1>1
  <2>. QED
    BY <1>1, <2>1, <2>2, <2>3, TopStep
<1>3. OwnInv'
  BY OwnKept DEF Up
<1>4. ClearedForGood'
  <2>1. /\ depth' = depth
        /\ \A d \in 1..depth : stack'[d].saved \in {0, stack[d].saved}
    BY <1>1 DEF SetTop, Top, TypeOK
  <2>2. pending' \in {pending, stack[depth].saved} /\ depth \in 1..depth
    BY <1>1 DEF Restoring, Top
  <2>. QED
    BY <1>1, <2>1, <2>2, ClearedKept
<1>. QED
  BY <1>2, <1>3, <1>4

\* A call that returns without clearing anything.
LEMMA QuietPop ==
  ASSUME IInv, Up, ~Asking, Pop, UNCHANGED <<process, calls>>, NothingRaised,
         pending' \in {pending, Restoring(pending)}
  PROVE  IInv'
<1>. USE BridgeAssumption DEF IInv
<1>1. /\ raised' = raised /\ raised \in 0..MaxRaised
      /\ exceptions' = exceptions /\ exceptions \in [1..MaxRaised -> Exception]
      /\ depth \in 1..MaxDepth /\ depth # 0
  BY TopFacts DEF NothingRaised, TypeOK
<1>2. TypeOK' /\ FrameInv' /\ IsolateInv'
  <2>1. pending' \in 0..raised /\ (pending' # 0 => Younger(pending', depth - 1))
    BY <1>1, RestoringFacts, TopFacts DEF TypeOK
  <2>. QED
    BY <1>1, <2>1, PopStep
<1>3. OwnInv'
  BY OwnKept DEF Up
<1>4. ClearedForGood'
  <2>1. \A d \in 1..depth' : d \in 1..depth /\ stack'[d].saved = stack[d].saved
    BY <1>1, PoppedSaved
  <2>2. pending' \in {pending, stack[depth].saved} /\ depth \in 1..depth
    BY <1>1 DEF Restoring, Top
  <2>. QED
    BY <1>1, <2>1, <2>2, ClearedKept
<1>. QED
  BY <1>2, <1>3, <1>4

LEMMA ReportsStep == IInv /\ Reports => IInv'
<1>. SUFFICES ASSUME IInv, Reports PROVE IInv'
  OBVIOUS
<1>. USE BridgeAssumption DEF IInv
<1>1. CASE ReportException
  BY <1>1, ReportExceptionStep
<1>2. CASE ReportCrashes
  BY <1>2, ProcessEnds DEF ReportCrashes, NothingRaised
<1>3. CASE ArgumentRejected
  <2>1. "badArgument" \in AsksForException /\ Reported("badArgument")
    BY <1>3 DEF AsksForException, ArgumentRejected
  <2>2. Up /\ Top.pc = "badArgument" /\ ~Guarded(Top) /\ depth # 0
    BY <2>1, ReportedFacts DEF Guarded, Up
  <2>3. ClearPendingException /\ Pop /\ UNCHANGED <<process, calls>>
    BY <1>3 DEF ArgumentRejected
  <2>4. /\ exceptions' \in [1..MaxRaised -> Exception]
        /\ pending' = 0 /\ raised' = raised
        /\ OwnInv' /\ ClearedForGood'
    BY <2>1, <2>2, <2>3, PoppedSaved, ClearFacts
  <2>5. raised \in Nat
    BY DEF TypeOK
  <2>6. TypeOK' /\ FrameInv' /\ IsolateInv'
    BY <2>2, <2>3, <2>4, <2>5, PopStep
  <2>. QED
    BY <2>4, <2>6
<1>4. CASE CallDone
  <2>1. "called" \in AsksForException /\ Reported("called")
    BY <1>4 DEF AsksForException, CallDone
  <2>2. ~Guarded(Top)
    BY <2>1, ReportedFacts DEF Guarded
  <2>. QED
    BY <1>4, <2>1, <2>2, ClearingTop DEF CallDone
<1>5. CASE ScriptDone
  <2>. DEFINE pc == IF Top.fn = "initFramework" THEN "version" ELSE "drain"
              f == [Restored(Top) EXCEPT !.pc = pc, !.java = "none",
                                         !.exception = NoException]
  <2>1. "evaluated" \in AsksForException /\ Reported("evaluated")
    BY <1>5 DEF AsksForException, ScriptDone
  <2>2. Up /\ ~Asking /\ Top \in Frame
    BY <2>1, ReportedFacts, TopFacts
  <2>3. SetTop(f) /\ UNCHANGED <<depth, process, calls>> /\ NothingRaised
        /\ pending' = Restoring(pending)
    BY <1>5 DEF ScriptDone
  <2>4. pc \in {"version", "drain"}
    OBVIOUS
  <2>. HIDE DEF pc
  <2>5. pc \in PCs
    BY <2>4 DEF PCs, JSPCs
  <2>6. /\ f \in Frame /\ f.call = Top.call /\ f.pc = pc /\ f.java = "none"
        /\ f.exception = 0 /\ f.saved = 0 /\ f.base = 0
    BY <2>2, <2>5 DEF Restored, Frame
  <2>. HIDE DEF f
  <2>7. ~Guarded(f) /\ f.pc # "args"
    BY <2>4, <2>6 DEF Guarded
  <2>. QED
    BY <2>2, <2>3, <2>6, <2>7, LeavingTop
<1>6. CASE ScriptFailed
  <2>1. "failed" \in AsksForException /\ Reported("failed")
    BY <1>6 DEF AsksForException, ScriptFailed
  <2>2. Up /\ ~Asking
    BY <2>1, ReportedFacts
  <2>. QED
    BY <1>6, <2>2, QuietPop DEF ScriptFailed
<1>7. CASE SetJSFVersion
  <2>. DEFINE f == [Top EXCEPT !.java = "setJSFrmVersion"]
  <2>1. Up /\ ~Asking /\ Top.pc = "versioned"
    BY <1>7 DEF SetJSFVersion, At, Asking
  <2>2. SetTop(f) /\ UNCHANGED <<depth, pending, process, calls>> /\ NothingRaised
    BY <1>7 DEF SetJSFVersion
  <2>3. /\ f \in Frame /\ f.fn = Top.fn /\ f.call = Top.call /\ f.pc = Top.pc
        /\ f.exception = Top.exception /\ f.saved = Top.saved /\ f.base = Top.base
    BY <2>1, TopFacts DEF Frame, JavaMethods
  <2>4. Guarded(f) <=> Guarded(Top)
    BY <2>3 DEF Guarded
  <2>. HIDE DEF f
  <2>. QED
    BY <2>1, <2>2, <2>3, <2>4, QuietTop
<1>8. CASE VersionDone
  <2>1. CASE Reported("versioned") /\ ClearPendingException
    <3>1. "versioned" \in AsksForException
      BY DEF AsksForException
    <3>2. ~Guarded(Top)
      BY <2>1, <3>1, ReportedFacts DEF Guarded
    <3>. QED
      BY <1>8, <2>1, <3>1, <3>2, ClearingTop DEF VersionDone
  <2>2. CASE Up /\ Top.java = "setJSFrmVersion" /\ UNCHANGED pending /\ NothingRaised
    <3>1. Top \in Frame /\ Top.pc = "versioned" /\ ~Asking
      BY <2>2, TopFacts DEF FrameOK, Asking
    <3>2. "drain" \in PCs /\ SetTop(Moved("drain")) /\ UNCHANGED <<depth, process, calls>>
      BY <1>8 DEF VersionDone, Goto, Moved, PCs
    <3>3. ~Guarded(Top) /\ ~Guarded(Moved("drain"))
      BY <3>1, <3>2, MovedFrame DEF Guarded
    <3>. QED
      BY <2>2, <3>1, <3>2, <3>3, MovedFrame, QuietTop
  <2>. QED
    BY <1>8, <2>1, <2>2 DEF VersionDone
<1>. QED
  BY <1>1, <1>2, <1>3, <1>4, <1>5, <1>6, <1>7, <1>8 DEF Reports

-----------------------------------------------------------------------------
(***************************************************************************)
(* DrainJobQueue.                                                          *)
(***************************************************************************)

LEMMA DrainJobQueueStep == IInv /\ DrainJobQueue => IInv'
<1>. SUFFICES ASSUME IInv, DrainJobQueue PROVE IInv'
  OBVIOUS
<1>. USE BridgeAssumption DEF IInv
<1>1. Up /\ Top.pc \in {"drain", "finishing", "jobs", "job"} /\ ~Asking
  BY DEF DrainJobQueue, NestedDrain, FinishTask, FinishReturns, BeginJobs, CallJob,
         JobReturns, JobThrows, DrainDone, At, Asking
<1>2. Top \in Frame /\ FrameOK(Top) /\ (Guarded(Top) <=> Top.pc = "job")
  BY <1>1, TopFacts DEF Guarded
<1>3. /\ "drain" \in PCs /\ "finishing" \in PCs /\ "jobs" \in PCs /\ "job" \in PCs
  BY DEF PCs, JSPCs
<1>4. ASSUME NEW pc \in {"drain", "finishing", "jobs"}, Goto(pc), Top.pc # "job",
             UNCHANGED <<depth, process, calls>>, NothingRaised, pending' \in {pending, 0}
      PROVE  IInv'
  <2>1. SetTop(Moved(pc)) /\ pc \in PCs
    BY <1>3, <1>4 DEF Goto, Moved
  <2>2. ~Guarded(Moved(pc)) /\ Moved(pc).pc # "args"
    BY <1>2, <2>1, MovedFrame DEF Guarded
  <2>. QED
    BY <1>1, <1>2, <1>4, <2>1, <2>2, MovedFrame, QuietTop
<1>5. CASE NestedDrain \/ DrainDone
  BY <1>1, <1>5, QuietPop DEF NestedDrain, DrainDone
<1>6. CASE FinishTask \/ BeginJobs
  BY <1>4, <1>6 DEF FinishTask, BeginJobs, At
<1>7. CASE FinishReturns
  BY <1>4, <1>7 DEF FinishReturns, At
<1>8. CASE CallJob
  <2>. DEFINE f == [Save(Top) EXCEPT !.pc = "job"]
  <2>1. /\ SetTop(f) /\ UNCHANGED <<depth, process, calls>> /\ NothingRaised
        /\ pending' = 0 /\ Top.pc = "jobs" /\ Top.java = "none"
    BY <1>8 DEF CallJob, Guard, At
  <2>2. /\ pending \in 0..raised /\ raised \in 0..MaxRaised /\ pending \in Nat /\ raised \in Nat
        /\ raised' = raised /\ exceptions' = exceptions
        /\ exceptions \in [1..MaxRaised -> Exception]
    BY <2>1 DEF TypeOK, NothingRaised
  <2>3. /\ f \in Frame /\ f.call = Top.call /\ f.pc = "job" /\ f.java = "none"
        /\ f.exception = Top.exception /\ f.saved = pending /\ f.base = raised
    BY <1>2, <1>3, <2>1, <2>2 DEF Save, Frame
  <2>. HIDE DEF f
  <2>4. Guarded(f)
    BY <2>3 DEF Guarded
  <2>5. TypeOK' /\ FrameInv' /\ IsolateInv'
    <3>1. /\ f.exception \in 0..raised' /\ depth # 0
          /\ f.exception # 0 => Younger(f.exception, depth - 1)
          /\ f.saved # 0 => Younger(f.saved, depth - 1)
      BY <1>1, <2>2, <2>3, TopFacts DEF FrameOK
    <3>2. /\ f.base \in 0..raised' /\ f.saved \in 0..f.base
          /\ raised' \in raised..MaxRaised /\ pending' \in 0..raised'
      BY <2>1, <2>2, <2>3
    <3>. QED
      BY <2>1, <2>2, <2>3, <2>4, <3>1, <3>2, TopStep
  <2>6. OwnInv'
    BY <1>1, <2>1, OwnKept DEF Up
  <2>7. ClearedForGood'
    <3>1. /\ depth' = depth
          /\ \A d \in 1..depth : stack'[d].saved \in {pending, stack[d].saved}
      BY <1>1, <2>1, <2>3, TopFacts DEF SetTop, Top, TypeOK
    <3>. QED
      BY <2>1, <2>2, <3>1, ClearedKept
  <2>. QED
    BY <2>5, <2>6, <2>7
<1>9. ASSUME JobReturns \/ JobThrows PROVE IInv'
  <2>. DEFINE f == [Restored(Top) EXCEPT !.pc = "jobs"]
  <2>1. SetTop(f) /\ UNCHANGED <<depth, process, calls>> /\ Top.java = "none"
    BY <1>9 DEF JobReturns, JobThrows, At
  <2>2. /\ f \in Frame /\ f.call = Top.call /\ f.pc = "jobs" /\ f.java = "none"
        /\ f.exception = Top.exception /\ f.saved = 0 /\ f.base = 0
    BY <1>2, <1>3, <2>1 DEF Restored, Frame
  <2>. HIDE DEF f
  <2>3. ~Guarded(f) /\ f.pc # "args"
    BY <2>2 DEF Guarded
  <2>4. CASE JobReturns
    BY <1>1, <2>1, <2>2, <2>3, <2>4, LeavingTop DEF JobReturns
  <2>5. CASE JobThrows
    <3>1. Raise("other")
      BY <2>5 DEF JobThrows
    <3>. QED
      BY <1>1, <2>1, <2>2, <2>3, <3>1, RaisingTop
  <2>. QED
    BY <1>9, <2>4, <2>5
<1>. QED
  BY <1>5, <1>6, <1>7, <1>8, <1>9 DEF DrainJobQueue

-----------------------------------------------------------------------------
(***************************************************************************)
(* The theorems.                                                           *)
(***************************************************************************)

LEMMA InitIInv == Init => IInv
<1>. SUFFICES ASSUME Init PROVE IInv
  OBVIOUS
<1>. USE BridgeAssumption
<1>1. NoFrame \in Frame /\ NotRaised \in Exception
  BY DEF NoFrame, Frame, PCs, NotRaised, Exception
<1>2. TypeOK
  BY <1>1 DEF Init, TypeOK, NoFrame
<1>. QED
  BY <1>2 DEF Init, IInv, FrameInv, IsolateInv, OwnInv, ClearedForGood

LEMMA NextIInv == IInv /\ [Next]_vars => IInv'
<1>. SUFFICES ASSUME IInv, [Next]_vars PROVE IInv'
  OBVIOUS
<1>1. CASE UNCHANGED vars
  BY <1>1 DEF vars, IInv, TypeOK, FrameInv, FrameOK, IsolateInv, Younger, OwnInv,
              AboutToReport, Top, ClearedForGood
<1>. QED
  BY <1>1, NativeCallStep, ArgumentsStep, JavaScriptStep, JavaReturnsStep, ReportsStep,
     DrainJobQueueStep DEF Next

LEMMA Invariance == Spec => []IInv
BY InitIInv, NextIInv, PTL DEF Spec

\* Only exceptions that have been raised are pending or saved, and one is
\* saved only in a frame whose AutoSaveExceptionState is alive.
THEOREM TypeCorrect == Spec => []TypeOK
<1>1. IInv => TypeOK
  BY DEF IInv
<1>. QED
  BY <1>1, Invariance, PTL

\* A call's own exceptions are reported before it returns, and first by it,
\* however deep the calls nest and whatever they raise, save and clear.
THEOREM OwnErrorsAreReported == Spec => []OwnErrorsReported
<1>1. IInv => OwnErrorsReported
  BY DEF IInv, TypeOK, OwnInv, AboutToReport, OwnErrorsReported, OnStack, Top
<1>. QED
  BY <1>1, Invariance, PTL

\* No AutoSaveExceptionState brings back what a call has reported and cleared.
THEOREM ClearedIsGone == Spec => []ClearedForGood
<1>1. IInv => ClearedForGood
  BY DEF IInv
<1>. QED
  BY <1>1, Invariance, PTL

\* What is reported inside a script or a promise job was raised inside it.
THEOREM ScopesAreIsolated == Spec => ScopesIsolate
<1>1. IInv /\ [Next]_vars =>
        [ReportException =>
           \A d \in 1..depth : Guarded(stack[d]) => pending > stack[d].base]_vars
  BY DEF IInv, IsolateInv, Younger, ReportException, ToReport
<1>. QED
  BY <1>1, Invariance, PTL DEF Spec, ScopesIsolate

-----------------------------------------------------------------------------
(***************************************************************************)
(* Where exceptions of native_execJS's function can be.  A frame contains  *)
(* them until its question for the pending exception has been answered.    *)
(***************************************************************************)
Contains(f) == f.fn = "execJS" /\ f.pc \in {"args", "js", "badArgument", "called"}

\* The call that raised e is among the lowest n frames, and contains it.
ContainedBelow(e, n) ==
  \E d \in 1..n : Contains(stack[d]) /\ stack[d].call = exceptions[e].by

\* Such an exception is pending only over the frame that contains it, and saved
\* only in frames above that one.
ContainInv ==
  \A e \in 1..raised :
    exceptions[e].inFunction =>
      /\ pending = e => ContainedBelow(e, depth)
      /\ \A c \in 1..depth : stack[c].saved = e => ContainedBelow(e, c - 1)

\* What the history says of the origin of the exceptions does not change.
OriginsKept ==
  /\ raised' = raised
  /\ \A e \in 1..raised : /\ exceptions'[e].by = exceptions[e].by
                          /\ exceptions'[e].inFunction = exceptions[e].inFunction

LEMMA OriginsKeptBy ==
  ASSUME TypeOK, Up => Top.exception \in 0..raised,
         \/ NothingRaised
         \/ Up /\ RecordCleared
         \/ ReportException
  PROVE  OriginsKept
<1>. USE BridgeAssumption
<1>1. /\ exceptions \in [1..MaxRaised -> Exception]
      /\ raised \in 0..MaxRaised /\ pending \in 0..raised
  BY DEF TypeOK
<1>2. CASE NothingRaised
  BY <1>2 DEF NothingRaised, OriginsKept
<1>3. CASE Up /\ RecordCleared
  <2>1. CASE Top.exception = NoException
    BY <1>3, <2>1 DEF RecordCleared, OriginsKept
  <2>2. CASE Top.exception # NoException
    <3>1. Top.exception \in 1..MaxRaised /\ exceptions[Top.exception] \in Exception
      BY <1>1, <1>3, <2>2
    <3>2. exceptions' = [exceptions EXCEPT ![Top.exception].cleared = TRUE] /\ raised' = raised
      BY <1>3, <2>2 DEF RecordCleared
    <3>. QED
      BY <1>1, <3>1, <3>2 DEF OriginsKept, Exception
  <2>. QED
    BY <2>1, <2>2
<1>4. CASE ReportException
  <2>1. raised' = raised /\ pending # 0
    BY <1>4 DEF ReportException, ToReport
  <2>2. pending \in 1..MaxRaised /\ exceptions[pending] \in Exception
    BY <1>1, <2>1
  <2>3. CASE exceptions[pending].reporter = 0
    <3>1. exceptions' = [exceptions EXCEPT ![pending].reporter = Top.call]
      BY <1>4, <2>3 DEF ReportException
    <3>. QED
      BY <1>1, <2>1, <2>2, <3>1 DEF OriginsKept, Exception
  <2>4. CASE exceptions[pending].reporter # 0
    <3>1. exceptions' = exceptions
      BY <1>4, <2>4 DEF ReportException
    <3>. QED
      BY <2>1, <3>1 DEF OriginsKept
  <2>. QED
    BY <2>3, <2>4
<1>. QED
  BY <1>2, <1>3, <1>4

\* The top frame becomes f.
LEMMA ContainTop ==
  ASSUME TypeOK, ContainInv, depth # 0, OriginsKept,
         NEW f, SetTop(f), depth' = depth, f.call = Top.call,
         f.saved \in {0, Top.saved} \/ (f.saved = pending /\ ~Contains(Top)),
         \/ pending' \in {0, Top.saved}
         \/ pending' = pending /\ (Contains(Top) => Contains(f))
  PROVE  ContainInv'
<1>. USE BridgeAssumption
<1>1. /\ depth \in 1..MaxDepth /\ depth - 1 \in Nat /\ raised \in Nat
      /\ stack'[depth] = f
      /\ \A d \in 1..(depth - 1) : stack'[d] = stack[d]
  BY DEF TypeOK, SetTop
<1>. SUFFICES ASSUME NEW e \in 1..raised, exceptions[e].inFunction
              PROVE  /\ pending' = e => ContainedBelow(e, depth)'
                     /\ \A c \in 1..depth : stack'[c].saved = e => ContainedBelow(e, c - 1)'
  BY DEF ContainInv, OriginsKept
<1>2. exceptions'[e].by = exceptions[e].by
  BY DEF OriginsKept
<1>3. Top.saved = e => ContainedBelow(e, depth - 1)
  BY <1>1 DEF ContainInv, Top
<1>4. pending = e /\ ~Contains(Top) => ContainedBelow(e, depth - 1)
  BY <1>1 DEF ContainInv, ContainedBelow, Top
<1>5. pending' = e => ContainedBelow(e, depth)'
  <2>. HAVE pending' = e
  <2>1. CASE pending' = Top.saved
    BY <1>1, <1>2, <1>3, <2>1 DEF ContainedBelow
  <2>2. CASE pending' = pending /\ Contains(Top) /\ Contains(f)
    <3>1. PICK d \in 1..depth : Contains(stack[d]) /\ stack[d].call = exceptions[e].by
      BY <2>2 DEF ContainInv, ContainedBelow
    <3>2. Contains(stack'[d]) /\ stack'[d].call = exceptions'[e].by
      BY <1>1, <1>2, <2>2, <3>1 DEF Top
    <3>. QED
      BY <3>2 DEF ContainedBelow
  <2>3. CASE pending' = pending /\ ~Contains(Top)
    BY <1>1, <1>2, <1>4, <2>3 DEF ContainedBelow
  <2>. QED
    BY <2>1, <2>2, <2>3
<1>6. ASSUME NEW c \in 1..depth, stack'[c].saved = e PROVE ContainedBelow(e, c - 1)'
  <2>1. ContainedBelow(e, c - 1)
    <3>1. CASE c = depth
      BY <1>1, <1>3, <1>4, <1>6, <3>1
    <3>2. CASE c # depth
      BY <1>1, <1>6, <3>2 DEF ContainInv
    <3>. QED
      BY <3>1, <3>2
  <2>. QED
    BY <1>1, <1>2, <2>1 DEF ContainedBelow
<1>. QED
  BY <1>5, <1>6

\* The top frame becomes f and leaves a new exception.
LEMMA ContainRaise ==
  ASSUME TypeOK, FrameInv, IsolateInv, ContainInv, Up,
         NEW via \in {"argument", "result", "call", "other"}, Raise(via),
         NEW f, SetTop(f), depth' = depth, f.call = Top.call,
         f.saved \in {0, Top.saved}, InFunction(Top) => Contains(f)
  PROVE  ContainInv'
<1>. USE BridgeAssumption
<1>1. /\ depth \in 1..MaxDepth /\ depth - 1 \in Nat /\ raised \in Nat
      /\ stack'[depth] = f
      /\ \A d \in 1..(depth - 1) : stack'[d] = stack[d]
      /\ \A d \in 1..MaxDepth : stack[d].saved \in 0..raised
  <2>1. /\ stack \in [1..MaxDepth -> Frame] /\ raised \in Nat
        /\ \A d \in 1..MaxDepth : /\ stack[d].saved \in 0..stack[d].base
                                  /\ stack[d].base \in 0..raised
    BY DEF TypeOK
  <2>2. \A d \in 1..MaxDepth : stack[d].saved \in 0..raised
    BY <2>1
  <2>. QED
    BY <2>1, <2>2, TopFacts DEF SetTop
<1>2. /\ raised' = raised + 1 /\ pending' = raised + 1
      /\ \A e \in 1..raised : exceptions'[e] = exceptions[e]
      /\ exceptions'[raised + 1].by = Top.call
      /\ exceptions'[raised + 1].inFunction = InFunction(Top)
  BY RaiseFacts
<1>. SUFFICES ASSUME NEW e \in 1..(raised + 1), exceptions'[e].inFunction
              PROVE  /\ pending' = e => ContainedBelow(e, depth)'
                     /\ \A c \in 1..depth : stack'[c].saved = e => ContainedBelow(e, c - 1)'
  BY <1>2 DEF ContainInv
<1>3. pending' = e => ContainedBelow(e, depth)'
  <2>. HAVE pending' = e
  <2>1. e = raised + 1
    BY <1>2
  <2>2. InFunction(Top)
    BY <1>2, <2>1, Zenon
  <2>. QED
    BY <1>1, <1>2, <2>1, <2>2 DEF ContainedBelow
<1>4. ASSUME NEW c \in 1..depth, stack'[c].saved = e PROVE ContainedBelow(e, c - 1)'
  <2>1. stack[c].saved = e
    <3>1. CASE c = depth
      BY <1>1, <1>4, <3>1 DEF Top
    <3>2. CASE c # depth
      BY <1>1, <1>4, <3>2
    <3>. QED
      BY <3>1, <3>2
  <2>2. e \in 1..raised /\ exceptions'[e] = exceptions[e]
    BY <1>1, <1>2, <2>1
  <2>3. ContainedBelow(e, c - 1)
    BY <2>1, <2>2 DEF ContainInv
  <2>. QED
    BY <1>1, <2>2, <2>3 DEF ContainedBelow
<1>. QED
  BY <1>3, <1>4

\* A native call begins, with frame f.
LEMMA ContainPush ==
  ASSUME TypeOK, ContainInv, depth < MaxDepth, OriginsKept,
         NEW f, Push(f), depth' = depth + 1,
         f.saved \in {0, pending}, pending' \in {0, pending}
  PROVE  ContainInv'
<1>. USE BridgeAssumption
<1>1. /\ depth \in Nat /\ depth + 1 \in 1..MaxDepth /\ raised \in Nat
      /\ stack'[depth + 1] = f
      /\ \A d \in 1..depth : stack'[d] = stack[d]
  BY DEF TypeOK, Push
<1>. SUFFICES ASSUME NEW e \in 1..raised, exceptions[e].inFunction
              PROVE  /\ pending' = e => ContainedBelow(e, depth)'
                     /\ \A c \in 1..(depth + 1) :
                          stack'[c].saved = e => ContainedBelow(e, c - 1)'
  BY <1>1 DEF ContainInv, OriginsKept
<1>2. exceptions'[e].by = exceptions[e].by
  BY DEF OriginsKept
<1>3. pending' = e => ContainedBelow(e, depth)'
  BY <1>1, <1>2 DEF ContainInv, ContainedBelow
<1>4. ASSUME NEW c \in 1..(depth + 1), stack'[c].saved = e PROVE ContainedBelow(e, c - 1)'
  <2>1. ContainedBelow(e, c - 1)
    <3>1. CASE c = depth + 1
      BY <1>1, <1>4, <3>1 DEF ContainInv
    <3>2. CASE c # depth + 1
      BY <1>1, <1>4, <3>2 DEF ContainInv
    <3>. QED
      BY <3>1, <3>2
  <2>. QED
    BY <1>1, <1>2, <2>1 DEF ContainedBelow
<1>. QED
  BY <1>3, <1>4

\* A native call returns.
LEMMA ContainPop ==
  ASSUME TypeOK, ContainInv, depth # 0, OriginsKept, Pop,
         pending' \in {0, Top.saved} \/ (pending' = pending /\ ~Contains(Top))
  PROVE  ContainInv'
<1>. USE BridgeAssumption
<1>1. /\ depth \in 1..MaxDepth /\ depth - 1 \in Nat /\ depth' = depth - 1
      /\ \A d \in 1..(depth - 1) : stack'[d] = stack[d]
  BY DEF TypeOK, Pop
<1>. SUFFICES ASSUME NEW e \in 1..raised, exceptions[e].inFunction
              PROVE  /\ pending' = e => ContainedBelow(e, depth)'
                     /\ \A c \in 1..(depth - 1) :
                          stack'[c].saved = e => ContainedBelow(e, c - 1)'
  BY <1>1 DEF ContainInv, OriginsKept
<1>2. exceptions'[e].by = exceptions[e].by
  BY DEF OriginsKept
<1>3. pending' = e => ContainedBelow(e, depth - 1)
  <2>. HAVE pending' = e
  <2>1. CASE pending' = Top.saved
    BY <1>1, <2>1 DEF ContainInv, Top
  <2>2. CASE pending' = pending /\ ~Contains(Top)
    BY <1>1, <2>2 DEF ContainInv, ContainedBelow, Top
  <2>. QED
    BY <2>1, <2>2
<1>4. pending' = e => ContainedBelow(e, depth)'
  BY <1>1, <1>2, <1>3 DEF ContainedBelow
<1>5. ASSUME NEW c \in 1..(depth - 1), stack'[c].saved = e PROVE ContainedBelow(e, c - 1)'
  <2>1. ContainedBelow(e, c - 1)
    BY <1>1, <1>5 DEF ContainInv
  <2>. QED
    BY <1>1, <1>2, <2>1 DEF ContainedBelow
<1>. QED
  BY <1>4, <1>5

\* Nothing but what is pending changes.
LEMMA ContainSame ==
  ASSUME TypeOK, ContainInv, OriginsKept, UNCHANGED <<depth, stack>>,
         pending' \in {0, pending}
  PROVE  ContainInv'
BY DEF ContainInv, ContainedBelow, OriginsKept, TypeOK

LEMMA ContainNativeCall == IInv /\ ContainInv /\ NativeCall => ContainInv'
<1>. SUFFICES ASSUME IInv, ContainInv, NativeCall PROVE ContainInv'
  OBVIOUS
<1>1. \A fn, pc : Called(fn, pc).saved = 0 /\ Save(Called(fn, pc)).saved = pending
  BY DEF Called, Save, NoFrame
<1>2. /\ TypeOK /\ depth < MaxDepth /\ depth' = depth + 1 /\ NothingRaised
  BY DEF IInv, NativeCall, native_execJS, native_execJSService, native_initFramework,
         ExecuteJavaScript, Enter
<1>3. OriginsKept
  BY <1>2 DEF OriginsKept, NothingRaised
<1>4. CASE native_execJS
  BY <1>1, <1>2, <1>3, <1>4, ContainPush DEF native_execJS
<1>5. ASSUME NEW fn, ExecuteJavaScript(fn) PROVE ContainInv'
  BY <1>1, <1>2, <1>3, <1>5, ContainPush DEF ExecuteJavaScript, Guard
<1>6. CASE /\ Push(Called("initFramework", "drain"))
           /\ UNCHANGED pending
  BY <1>1, <1>2, <1>3, <1>6, ContainPush
<1>. QED
  BY <1>4, <1>5, <1>6 DEF NativeCall, native_execJSService, native_initFramework

\* Steps of the top frame that raise nothing.
LEMMA ContainQuiet ==
  ASSUME IInv, ContainInv, Up, NEW pc, Goto(pc), UNCHANGED depth,
         NothingRaised \/ RecordCleared,
         \/ pending' = 0
         \/ /\ pending' = pending
            /\ Contains(Top) => pc \in {"args", "js", "badArgument", "called"}
  PROVE  ContainInv'
<1>1. Top \in Frame /\ depth # 0 /\ Top.exception \in 0..raised
  BY TopFacts DEF IInv, Up, FrameOK
<1>. DEFINE f == [Top EXCEPT !.pc = pc, !.java = "none", !.exception = NoException]
<1>2. f.call = Top.call /\ f.saved = Top.saved /\ f.pc = pc /\ f.fn = Top.fn
  BY <1>1 DEF Frame
<1>3. OriginsKept /\ SetTop(f)
  BY <1>1, OriginsKeptBy DEF IInv, Goto
<1>. HIDE DEF f
<1>4. Contains(Top) /\ pc \in {"args", "js", "badArgument", "called"} => Contains(f)
  BY <1>2 DEF Contains
<1>. QED
  BY <1>1, <1>2, <1>3, <1>4, ContainTop DEF IInv

\* Steps of the top frame that raise something.
LEMMA ContainThrow ==
  ASSUME IInv, ContainInv, Up, NEW pc, Goto(pc), UNCHANGED depth,
         NEW via \in {"argument", "result", "call", "other"}, Raise(via),
         InFunction(Top) => pc \in {"args", "js", "badArgument", "called"}
  PROVE  ContainInv'
<1>1. Top \in Frame
  BY TopFacts DEF IInv
<1>. DEFINE f == [Top EXCEPT !.pc = pc, !.java = "none", !.exception = NoException]
<1>2. f.call = Top.call /\ f.saved = Top.saved /\ f.pc = pc /\ f.fn = Top.fn
  BY <1>1 DEF Frame
<1>3. SetTop(f)
  BY DEF Goto
<1>. HIDE DEF f
<1>4. InFunction(Top) => Contains(f)
  BY <1>2 DEF Contains, InFunction
<1>. QED
  BY <1>2, <1>3, <1>4, ContainRaise DEF IInv

LEMMA ContainArguments == IInv /\ ContainInv /\ Arguments => ContainInv'
<1>. SUFFICES ASSUME IInv, ContainInv, Arguments PROVE ContainInv'
  OBVIOUS
<1>1. CASE ConvertArguments
  BY <1>1, ContainQuiet DEF ConvertArguments, At
<1>2. CASE ArgumentFails
  BY <1>2, ContainThrow DEF ArgumentFails, At
<1>3. CASE NamespaceAborts
  BY <1>3, ContainSame DEF NamespaceAborts, NothingRaised, OriginsKept, IInv
<1>. QED
  BY <1>1, <1>2, <1>3 DEF Arguments

\* A frame goes into Java or comes back.
LEMMA ContainJava ==
  ASSUME IInv, ContainInv, Up, NEW m, SetTop([Top EXCEPT !.java = m]), UNCHANGED depth,
         \/ UNCHANGED pending /\ NothingRaised
         \/ \E via \in {"result", "other"} : Raise(via)
  PROVE  ContainInv'
<1>1. Top \in Frame /\ depth # 0
  BY TopFacts DEF IInv, Up
<1>. DEFINE f == [Top EXCEPT !.java = m]
<1>2. f.call = Top.call /\ f.saved = Top.saved /\ f.pc = Top.pc /\ f.fn = Top.fn
  BY <1>1 DEF Frame
<1>3. (Contains(Top) => Contains(f)) /\ (InFunction(Top) => Contains(f)) /\ SetTop(f)
  BY <1>2 DEF Contains, InFunction
<1>. HIDE DEF f
<1>4. CASE UNCHANGED pending /\ NothingRaised
  <2>1. OriginsKept
    BY <1>4 DEF OriginsKept, NothingRaised
  <2>. QED
    BY <1>1, <1>2, <1>3, <1>4, <2>1, ContainTop DEF IInv
<1>5. CASE \E via \in {"result", "other"} : Raise(via)
  BY <1>2, <1>3, <1>5, ContainRaise DEF IInv
<1>. QED
  BY <1>4, <1>5

LEMMA ContainJavaScript == IInv /\ ContainInv /\ JavaScript => ContainInv'
<1>. SUFFICES ASSUME IInv, ContainInv, JavaScript PROVE ContainInv'
  OBVIOUS
<1>1. CASE TryCatch
  BY <1>1, ContainSame DEF TryCatch, NothingRaised, OriginsKept, IInv
<1>2. CASE JSReturns
  <2>1. Contains(Top) => AfterReturn = "called"
    BY <1>2 DEF JSReturns, At, Contains, AfterReturn
  <2>2. Up /\ Goto(AfterReturn) /\ UNCHANGED <<depth, pending>> /\ NothingRaised
    BY <1>2 DEF JSReturns, At
  <2>. QED
    BY <2>1, <2>2, ContainQuiet
<1>3. CASE FunctionThrows
  BY <1>3, ContainThrow DEF FunctionThrows, At
<1>4. CASE ScriptThrows
  BY <1>4, ContainThrow DEF ScriptThrows, At, InFunction
<1>5. CASE VersionThrows
  BY <1>5, ContainThrow DEF VersionThrows, At, InFunction
<1>6. ASSUME NEW m \in Callbacks, CallJava(m) PROVE ContainInv'
  <2>1. /\ Up
        /\ UNCHANGED depth
        /\ \/ UNCHANGED pending /\ NothingRaised
           \/ Raise("other")
    BY <1>6 DEF CallJava, Convert, JSRunning, At
  <2>2. PICK j : SetTop([Top EXCEPT !.java = j])
    BY <1>6 DEF CallJava
  <2>. QED
    BY <2>1, <2>2, ContainJava
<1>7. ASSUME NEW m \in Callbacks, ToStringThrows(m) PROVE ContainInv'
  BY <1>7, ContainSame DEF ToStringThrows, NothingRaised, OriginsKept, IInv
<1>. QED
  BY <1>1, <1>2, <1>3, <1>4, <1>5, <1>6, <1>7 DEF JavaScript

LEMMA ContainJavaReturns == IInv /\ ContainInv /\ JavaReturns => ContainInv'
<1>. SUFFICES ASSUME IInv, ContainInv, JavaReturns PROVE ContainInv'
  OBVIOUS
<1>1. /\ Up /\ UNCHANGED depth
      /\ SetTop([Top EXCEPT !.java = "none"])
      /\ \/ UNCHANGED pending /\ NothingRaised
         \/ Raise("result")
  BY DEF JavaReturns
<1>. QED
  BY <1>1, ContainJava

LEMMA ContainReports == IInv /\ ContainInv /\ Reports => ContainInv'
<1>. SUFFICES ASSUME IInv, ContainInv, Reports PROVE ContainInv'
  OBVIOUS
<1>. USE BridgeAssumption
<1>1. TypeOK /\ (Up => depth # 0 /\ Top \in Frame /\ Top.exception \in 0..raised)
  BY TopFacts DEF IInv, Up, FrameOK
<1>2. CASE ReportException
  <2>. DEFINE f == [Top EXCEPT !.java = "reportJSException", !.exception = pending]
  <2>1. Up /\ SetTop(f) /\ UNCHANGED <<depth, pending>>
    BY <1>2 DEF ReportException, ToReport, At
  <2>2. f.call = Top.call /\ f.saved = Top.saved /\ f.pc = Top.pc /\ f.fn = Top.fn
    BY <1>1, <2>1 DEF Frame
  <2>. HIDE DEF f
  <2>3. Contains(Top) => Contains(f)
    BY <2>2 DEF Contains
  <2>4. OriginsKept
    BY <1>1, <1>2, OriginsKeptBy
  <2>. QED
    BY <1>1, <2>1, <2>2, <2>3, <2>4, ContainTop
<1>3. CASE ReportCrashes
  BY <1>1, <1>3, ContainSame DEF ReportCrashes, NothingRaised, OriginsKept
<1>4. CASE ArgumentRejected
  <2>1. Up /\ pending' = 0 /\ RecordCleared /\ Pop
    BY <1>4 DEF ArgumentRejected, Reported, ClearPendingException
  <2>2. OriginsKept
    BY <1>1, <2>1, OriginsKeptBy
  <2>. QED
    BY <1>1, <2>1, <2>2, ContainPop
<1>5. CASE CallDone
  <2>1. Up /\ pending' = 0 /\ RecordCleared /\ Goto("drain") /\ UNCHANGED depth
    BY <1>5 DEF CallDone, Reported, ClearPendingException
  <2>. QED
    BY <2>1, ContainQuiet
<1>6. CASE ScriptDone
  <2>1. Up /\ Top.pc = "evaluated" /\ NothingRaised /\ UNCHANGED depth
        /\ pending' \in {pending, Top.saved}
    BY <1>6 DEF ScriptDone, Reported, Restoring
  <2>2. PICK pc : SetTop([Restored(Top) EXCEPT !.pc = pc, !.java = "none",
                                               !.exception = NoException])
    BY <1>6 DEF ScriptDone
  <2>. DEFINE f == [Restored(Top) EXCEPT !.pc = pc, !.java = "none",
                                         !.exception = NoException]
  <2>3. f.call = Top.call /\ f.saved = 0
    BY <1>1, <2>1 DEF Frame, Restored
  <2>4. SetTop(f) /\ ~Contains(Top) /\ OriginsKept
    BY <2>1, <2>2 DEF Contains, OriginsKept, NothingRaised
  <2>. HIDE DEF f
  <2>. QED
    BY <1>1, <2>1, <2>3, <2>4, ContainTop
<1>7. CASE ScriptFailed
  <2>1. Up /\ Top.pc = "failed" /\ NothingRaised /\ Pop
        /\ pending' \in {pending, Top.saved}
    BY <1>7 DEF ScriptFailed, Reported, Restoring
  <2>2. ~Contains(Top) /\ OriginsKept
    BY <2>1 DEF Contains, OriginsKept, NothingRaised
  <2>. QED
    BY <1>1, <2>1, <2>2, ContainPop
<1>8. CASE SetJSFVersion
  BY <1>8, ContainJava DEF SetJSFVersion, At
<1>9. CASE VersionDone
  <2>1. Up /\ Goto("drain") /\ UNCHANGED depth
    BY <1>9 DEF VersionDone, Reported
  <2>2. CASE pending' = 0 /\ RecordCleared
    BY <2>1, <2>2, ContainQuiet
  <2>3. CASE Top.java = "setJSFrmVersion" /\ UNCHANGED pending /\ NothingRaised
    <3>1. Top.pc = "versioned"
      BY <2>1, <2>3, TopFacts DEF IInv, FrameOK
    <3>. QED
      BY <2>1, <2>3, <3>1, ContainQuiet DEF Contains
  <2>. QED
    BY <1>9, <2>2, <2>3 DEF VersionDone, ClearPendingException
<1>. QED
  BY <1>2, <1>3, <1>4, <1>5, <1>6, <1>7, <1>8, <1>9 DEF Reports

LEMMA ContainDrain == IInv /\ ContainInv /\ DrainJobQueue => ContainInv'
<1>. SUFFICES ASSUME IInv, ContainInv, DrainJobQueue PROVE ContainInv'
  OBVIOUS
<1>. USE BridgeAssumption
<1>1. /\ TypeOK /\ FrameInv /\ IsolateInv
      /\ Up => depth # 0 /\ Top \in Frame
  BY TopFacts DEF IInv, Up
<1>2. NothingRaised => OriginsKept
  BY DEF NothingRaised, OriginsKept
<1>3. CASE NestedDrain \/ DrainDone
  <2>1. Up /\ Top.pc \in {"drain", "jobs"} /\ Pop /\ UNCHANGED pending /\ NothingRaised
    BY <1>3 DEF NestedDrain, DrainDone, At
  <2>2. ~Contains(Top)
    BY <2>1 DEF Contains
  <2>. QED
    BY <1>1, <1>2, <2>1, <2>2, ContainPop
<1>4. CASE FinishTask
  BY <1>4, ContainQuiet DEF FinishTask, At, Contains
<1>5. CASE FinishReturns
  BY <1>5, ContainQuiet DEF FinishReturns, At, Contains
<1>6. CASE BeginJobs
  BY <1>6, ContainQuiet DEF BeginJobs, At, Contains
<1>7. CASE CallJob
  <2>. DEFINE f == [Save(Top) EXCEPT !.pc = "job"]
  <2>1. Up /\ Top.pc = "jobs" /\ SetTop(f) /\ pending' = 0 /\ UNCHANGED depth /\ OriginsKept
    BY <1>2, <1>7 DEF CallJob, At, Guard
  <2>2. f.call = Top.call /\ f.saved = pending
    BY <1>1, <2>1 DEF Frame, Save
  <2>. HIDE DEF f
  <2>3. ~Contains(Top)
    BY <2>1 DEF Contains
  <2>. QED
    BY <1>1, <2>1, <2>2, <2>3, ContainTop
<1>8. CASE JobReturns \/ JobThrows
  <2>. DEFINE f == [Restored(Top) EXCEPT !.pc = "jobs"]
  <2>1. Up /\ Top.pc = "job" /\ SetTop(f) /\ UNCHANGED depth
    BY <1>8 DEF JobReturns, JobThrows, At
  <2>2. f.call = Top.call /\ f.saved = 0
    BY <1>1, <2>1 DEF Frame, Restored
  <2>3. ~Contains(Top) /\ ~InFunction(Top)
    BY <2>1 DEF Contains, InFunction
  <2>4. \/ pending' \in {pending, Top.saved} /\ OriginsKept
        \/ Raise("other")
    BY <1>2, <1>8 DEF JobReturns, JobThrows, Restoring
  <2>. HIDE DEF f
  <2>5. CASE pending' \in {pending, Top.saved} /\ OriginsKept
    BY <1>1, <2>1, <2>2, <2>3, <2>5, ContainTop
  <2>6. CASE Raise("other")
    BY <1>1, <2>1, <2>2, <2>3, <2>6, ContainRaise
  <2>. QED
    BY <2>4, <2>5, <2>6
<1>. QED
  BY <1>3, <1>4, <1>5, <1>6, <1>7, <1>8 DEF DrainJobQueue

LEMMA NextContainInv == IInv /\ ContainInv /\ [Next]_vars => ContainInv'
<1>1. IInv /\ ContainInv /\ UNCHANGED vars => ContainInv'
  BY DEF vars, ContainInv, ContainedBelow
<1>. QED
  BY <1>1, ContainNativeCall, ContainArguments, ContainJavaScript, ContainJavaReturns,
     ContainReports, ContainDrain DEF Next

LEMMA Containment == Spec => []ContainInv
<1>1. Init => ContainInv
  BY DEF Init, ContainInv
<1>. QED
  BY <1>1, Invariance, NextContainInv, PTL DEF Spec

\* What was raised in the function or the arguments of native_execJS, by a
\* callback's conversion too, is reported while that call is on the stack or
\* not at all.
THEOREM FunctionErrorsStay == Spec => FunctionErrorsContained
<1>1. IInv /\ ContainInv /\ [Next]_vars =>
        [(ReportException /\ exceptions[pending].inFunction)
           => OnStack(exceptions[pending].by)]_vars
  <2>. SUFFICES ASSUME IInv, ContainInv, ReportException, exceptions[pending].inFunction
                PROVE  OnStack(exceptions[pending].by)
    OBVIOUS
  <2>1. pending \in 1..raised
    BY DEF IInv, TypeOK, ReportException, ToReport
  <2>2. ContainedBelow(pending, depth)
    BY <2>1 DEF ContainInv
  <2>. QED
    BY <2>2 DEF ContainedBelow, OnStack
<1>. QED
  BY <1>1, Invariance, Containment, PTL DEF Spec, FunctionErrorsContained
=============================================================================
