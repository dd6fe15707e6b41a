----------------------- MODULE IdleNotificationProofs -----------------------
(***************************************************************************)
(* Proofs about the idle-notification policy, for every MIN_EXECJS_COUNT   *)
(* and MAX_EXECJS_COUNT that satisfy CountAssumption.                      *)
(***************************************************************************)
EXTENDS IdleNotification, TLAPS

\* Calls are counted from the start: as long as execJSCount has not passed
\* MIN_EXECJS_COUNT it has only ever grown by one a call.
CallsCounted ==
  /\ execJSCount <= MIN_EXECJS_COUNT => calls >= execJSCount
  /\ execJSCount > MIN_EXECJS_COUNT => calls > MIN_EXECJS_COUNT

\* While the policy is on, fewer than samplingExecJSCountMax calls have been
\* sampled: the tenth switches it off, and only a markup, which clears the
\* sample count, switches it on again.
SamplingBounded ==
  idle_notification_FLAG => samplingExecJSCount < samplingExecJSCountMax

\* Before sampling starts collections happen where execJSCount is a multiple
\* of denomValue, so both their number and the distance to the last one can be
\* read off execJSCount.
UnsampledPhase ==
  execJSCount < lastExecJSCount + samplingBegin =>
    /\ idle_notification_FLAG
    /\ samplingExecJSCount = 0
    /\ sampled = 0
    /\ idleGCs <= (execJSCount \div 3) - (lastExecJSCount \div 3)
    /\ idleGCs > 0 => sinceGC >= execJSCount % 3

\* Once it has started they can be read off samplingExecJSCount, and
\* execJSCount cannot reach the wrap before the policy is switched off.  The
\* code counts the calls it samples until it switches itself off at the tenth.
SampledPhase ==
  execJSCount >= lastExecJSCount + samplingBegin =>
    /\ idleGCs <= 2 + (samplingExecJSCount \div 3)
    /\ idleGCs > 0 => sinceGC >= samplingExecJSCount % 3
    /\ execJSCount <= MIN_EXECJS_COUNT => sampled = 0
    /\ idle_notification_FLAG => sampled = samplingExecJSCount
    /\ ~idle_notification_FLAG => sampled >= samplingExecJSCountMax
    /\ idle_notification_FLAG =>
         \/ execJSCount <= lastExecJSCount + samplingBegin + samplingExecJSCount
         \/ execJSCount <= MIN_EXECJS_COUNT + samplingExecJSCount

\* Until native_initFramework runs its reset no call has been made.
BeforeFramework ==
  ~framework => /\ execJSCount = 0
                /\ idle_notification_FLAG
                /\ samplingExecJSCount = 0

EpochInv ==
  EpochFits => /\ lastExecJSCount <= execJSCount
               /\ UnsampledPhase
               /\ SampledPhase

IInv ==
  /\ TypeOK
  /\ SamplingBounded
  /\ CallsCounted
  /\ SilentWarmUp
  /\ BeforeFramework
  /\ EpochInv
-----------------------------------------------------------------------------
USE DEF samplingBegin, denomValue, samplingExecJSCountMax

\* In an epoch that fits, a call that is not suppressed never sees the wrap.
LEMMA NoWrapInEpoch ==
  ASSUME IInv, EpochFits, idle_notification_FLAG
  PROVE  execJSCount < MAX_EXECJS_COUNT
BY CountAssumption, Z3
   DEF IInv, TypeOK, SamplingBounded, EpochInv, EpochFits, UnsampledPhase, SampledPhase

\* The branch that would bring lastExecJSCount up to MIN_EXECJS_COUNT is dead:
\* it runs after the increment, when execJSCount is already past it.
LEMMA DeadBranch ==
  ASSUME TypeOK, WrappedCount >= MIN_EXECJS_COUNT
  PROVE  SamplingStart = lastExecJSCount + samplingBegin
BY CountAssumption DEF TypeOK, WrappedCount, NextCount, SamplingStart

LEMMA InitIInv == Init => IInv
<1> SUFFICES ASSUME Init PROVE IInv
  OBVIOUS
<1> USE CountAssumption DEF Init
<1>1. FlagsOK
  BY Zenon DEF FlagsOK
<1>2. TypeOK /\ SamplingBounded /\ CallsCounted
  BY <1>1 DEF TypeOK, SamplingBounded, CallsCounted, SpacingCap, BudgetCap, CallsCap,
     SampledCap
<1>3. UnsampledPhase
  BY DEF UnsampledPhase, SpacingCap
<1>4. SampledPhase
  BY DEF SampledPhase, SpacingCap
<1>5. QED
  BY <1>2, <1>3, <1>4 DEF IInv, EpochInv, SilentWarmUp, BeforeFramework

\* One step per path through needIdleNotification.
LEMMA NextIInv == IInv /\ [Next]_vars => IInv'
<1> SUFFICES ASSUME IInv, [Next]_vars PROVE IInv'
  OBVIOUS
<1> USE CountAssumption DEF IInv, BeforeFramework
<1>1. CASE ResetIdleNotificationCount
  <2> USE <1>1 DEF ResetIdleNotificationCount
  <2>1. FlagsOK'
    BY Zenon DEF FlagsOK, TypeOK, Record
  <2>2. TypeOK' /\ SamplingBounded'
    BY <2>1 DEF SamplingBounded, TypeOK, SpacingCap, BudgetCap, SampledCap,
       CallsCap, Record, Capped
  <2>3. CallsCounted' /\ SilentWarmUp'
    BY DEF CallsCounted, SilentWarmUp, TypeOK, CallsCap, Record, Capped
  <2>4. EpochInv'
    BY DEF EpochInv, EpochFits, UnsampledPhase,
       SampledPhase, SamplingBounded, TypeOK, SpacingCap, BudgetCap, SampledCap,
       Record, Capped
  <2>5. BeforeFramework'
    OBVIOUS
  <2>6. QED
    BY <2>2, <2>3, <2>4, <2>5 DEF IInv
<1>2. CASE MakeIdleNotification /\ Suppressed
  <2> USE <1>2 DEF MakeIdleNotification, Suppressed, counters
  <2>1. FlagsOK'
    BY Zenon DEF FlagsOK, TypeOK, Record
  <2>2. TypeOK' /\ SamplingBounded'
    BY <2>1 DEF SamplingBounded, TypeOK, SpacingCap, BudgetCap, SampledCap,
       CallsCap, Record, Capped
  <2>3. CallsCounted' /\ SilentWarmUp'
    BY DEF CallsCounted, SilentWarmUp, TypeOK, CallsCap, Record, Capped
  <2>4. EpochInv'
    BY DEF EpochInv, EpochFits, UnsampledPhase,
       SampledPhase, SamplingBounded, TypeOK, SpacingCap, BudgetCap, SampledCap,
       Record, Capped
  <2>5. BeforeFramework'
    OBVIOUS
  <2>6. QED
    BY <2>2, <2>3, <2>4, <2>5 DEF IInv
<1>3. CASE MakeIdleNotification /\ WarmUp
  <2> USE <1>3 DEF MakeIdleNotification, WarmUp, WrappedCount, NextCount
  <2>1. FlagsOK'
    BY Zenon DEF FlagsOK, TypeOK, Record
  <2>2. TypeOK' /\ SamplingBounded'
    BY <2>1 DEF SamplingBounded, TypeOK, SpacingCap, BudgetCap, SampledCap,
       CallsCap, Record, Capped
  <2>3. CallsCounted' /\ SilentWarmUp'
    BY DEF CallsCounted, SilentWarmUp, TypeOK, CallsCap, Record, Capped
  <2>4. EpochInv'
    BY DEF EpochInv, EpochFits, UnsampledPhase,
       SampledPhase, SamplingBounded, TypeOK, SpacingCap, BudgetCap, SampledCap,
       Record, Capped
  <2>5. BeforeFramework'
    OBVIOUS
  <2>6. QED
    BY <2>2, <2>3, <2>4, <2>5 DEF IInv
<1>4. CASE MakeIdleNotification /\ BeforeSampling
  <2> USE <1>4 DEF MakeIdleNotification, BeforeSampling, Counted, WrappedCount, NextCount
  <2>1. FlagsOK'
    BY Zenon DEF FlagsOK, TypeOK, Record
  <2>2. TypeOK' /\ SamplingBounded'
    BY <2>1, DeadBranch, NoWrapInEpoch DEF SamplingBounded, TypeOK, SpacingCap, BudgetCap, SampledCap,
       CallsCap, Record, Capped
  <2>3. CallsCounted' /\ SilentWarmUp'
    BY DEF CallsCounted, SilentWarmUp, TypeOK, CallsCap, Record, Capped
  <2>4. EpochInv'
    BY DeadBranch, NoWrapInEpoch DEF EpochInv, EpochFits, UnsampledPhase,
       SampledPhase, SamplingBounded, TypeOK, SpacingCap, BudgetCap, SampledCap,
       Record, Capped
  <2>5. BeforeFramework'
    OBVIOUS
  <2>6. QED
    BY <2>2, <2>3, <2>4, <2>5 DEF IInv
<1>5. CASE MakeIdleNotification /\ StartSampling
  <2> USE <1>5 DEF MakeIdleNotification, StartSampling, Counted, WrappedCount, NextCount
  <2>1. FlagsOK'
    BY Zenon DEF FlagsOK, TypeOK, Record
  <2>2. TypeOK' /\ SamplingBounded'
    BY <2>1, DeadBranch, NoWrapInEpoch DEF SamplingBounded, TypeOK, SpacingCap, BudgetCap, SampledCap,
       CallsCap, Record, Capped
  <2>3. CallsCounted' /\ SilentWarmUp'
    BY DEF CallsCounted, SilentWarmUp, TypeOK, CallsCap, Record, Capped
  <2>4. EpochInv'
    BY DeadBranch, NoWrapInEpoch DEF EpochInv, EpochFits, UnsampledPhase,
       SampledPhase, SamplingBounded, TypeOK, SpacingCap, BudgetCap, SampledCap,
       Record, Capped
  <2>5. BeforeFramework'
    OBVIOUS
  <2>6. QED
    BY <2>2, <2>3, <2>4, <2>5 DEF IInv
<1>6. CASE MakeIdleNotification /\ Sample
  <2> USE <1>6 DEF MakeIdleNotification, Sample, Counted, WrappedCount, NextCount
  <2>1. FlagsOK'
    BY Zenon DEF FlagsOK, TypeOK, Record
  <2>2. TypeOK'
    BY <2>1, DeadBranch, NoWrapInEpoch DEF SamplingBounded, TypeOK, SpacingCap,
       BudgetCap, SampledCap, CallsCap, Record, Capped
  <2>3. SamplingBounded'
    <3>1. ~(samplingExecJSCount' >= samplingExecJSCountMax)
            => samplingExecJSCount' < samplingExecJSCountMax
      BY <2>2 DEF TypeOK
    <3>2. QED
      BY <3>1, Zenon DEF SamplingBounded
  <2>4. CallsCounted' /\ SilentWarmUp'
    BY DEF CallsCounted, SilentWarmUp, TypeOK, CallsCap, Record, Capped
  <2>5. EpochInv'
    <3>1. ~idle_notification_FLAG' => samplingExecJSCount' >= samplingExecJSCountMax
      BY Zenon
    <3>2. EpochFits' => lastExecJSCount' <= execJSCount' /\ UnsampledPhase'
      BY DeadBranch, NoWrapInEpoch DEF EpochInv, EpochFits, UnsampledPhase,
         SampledPhase, SamplingBounded, TypeOK
    <3>3. ASSUME EpochFits' PROVE SampledPhase'
      <4>1. /\ EpochFits
            /\ execJSCount >= lastExecJSCount + samplingBegin
            /\ samplingExecJSCount' = samplingExecJSCount + 1
            /\ sampled = samplingExecJSCount
            /\ samplingExecJSCount < samplingExecJSCountMax
        BY <3>3, DeadBranch, NoWrapInEpoch DEF EpochInv, EpochFits, SampledPhase,
           SamplingBounded, TypeOK
      <4>2. sampled' = samplingExecJSCount'
        BY <4>1 DEF TypeOK, Capped, SampledCap
      <4>3. /\ execJSCount' > MIN_EXECJS_COUNT
            /\ \/ execJSCount' <= lastExecJSCount' + samplingBegin + samplingExecJSCount'
               \/ execJSCount' <= MIN_EXECJS_COUNT + samplingExecJSCount'
        BY <4>1, DeadBranch, NoWrapInEpoch DEF EpochInv, SampledPhase, TypeOK
      <4>4. /\ idleGCs' <= 2 + (samplingExecJSCount' \div 3)
            /\ idleGCs' > 0 => sinceGC' >= samplingExecJSCount' % 3
        BY <4>1 DEF EpochInv, SampledPhase, TypeOK, SpacingCap, BudgetCap, Record, Capped
      <4>5. QED
        BY <2>2, <3>1, <4>2, <4>3, <4>4 DEF SampledPhase, TypeOK
    <3>4. QED
      BY <3>2, <3>3 DEF EpochInv
  <2>6. BeforeFramework'
    OBVIOUS
  <2>7. QED
    BY <2>2, <2>3, <2>4, <2>5, <2>6 DEF IInv
<1>7. CASE MarkupState
  <2> USE <1>7 DEF MarkupState
  <2>1. FlagsOK'
    BY Zenon DEF FlagsOK, TypeOK, Record
  <2>2. TypeOK' /\ SamplingBounded'
    BY <2>1 DEF SamplingBounded, TypeOK, SpacingCap, BudgetCap, SampledCap,
       CallsCap, Record, Capped
  <2>3. CallsCounted' /\ SilentWarmUp'
    BY DEF CallsCounted, SilentWarmUp, TypeOK, CallsCap, Record, Capped
  <2>4. EpochInv'
    BY DEF EpochInv, EpochFits, UnsampledPhase,
       SampledPhase, SamplingBounded, TypeOK, SpacingCap, BudgetCap, SampledCap,
       Record, Capped
  <2>5. BeforeFramework'
    OBVIOUS
  <2>6. QED
    BY <2>2, <2>3, <2>4, <2>5 DEF IInv
<1>8. CASE UNCHANGED vars
  <2> USE <1>8 DEF vars, counters
  <2>1. FlagsOK'
    BY Zenon DEF FlagsOK, TypeOK, Record
  <2>2. TypeOK' /\ SamplingBounded'
    BY <2>1 DEF SamplingBounded, TypeOK, SpacingCap, BudgetCap, SampledCap,
       CallsCap, Record, Capped
  <2>3. CallsCounted' /\ SilentWarmUp'
    BY DEF CallsCounted, SilentWarmUp, TypeOK, CallsCap, Record, Capped
  <2>4. EpochInv'
    BY DEF EpochInv, EpochFits, UnsampledPhase,
       SampledPhase, SamplingBounded, TypeOK, SpacingCap, BudgetCap, SampledCap,
       Record, Capped
  <2>5. BeforeFramework'
    OBVIOUS
  <2>6. QED
    BY <2>2, <2>3, <2>4, <2>5 DEF IInv
<1>9. QED
  BY <1>1, <1>2, <1>3, <1>4, <1>5, <1>6, <1>7, <1>8 DEF Next, MakeIdleNotification

\* Every reachable state of the policy satisfies the inductive invariant.
THEOREM Invariance == Spec => []IInv
BY InitIInv, NextIInv, PTL DEF Spec

\* The counters of needIdleNotification stay in their ranges, the wrap at
\* MAX_EXECJS_COUNT included.
THEOREM TypeCorrect == Spec => []TypeOK
BY Invariance, PTL DEF IInv

\* No idle collection during the first MIN_EXECJS_COUNT calls.
THEOREM WarmUpIsSilent == Spec => []SilentWarmUp
BY Invariance, PTL DEF IInv

\* At most five idle collections between two markups, short of the wrap.
THEOREM BudgetKept == Spec => []GCBudget
<1>1. IInv => GCBudget
  BY CountAssumption
     DEF IInv, TypeOK, SamplingBounded, EpochInv, UnsampledPhase, SampledPhase, GCBudget
<1>2. QED
  BY <1>1, Invariance, PTL

\* Inside such an epoch two idle collections are at least three calls apart.
THEOREM CollectionsSpaced == Spec => SpacedInEpoch
<1> DEFINE Apart == MakeIdleNotification /\ notified' /\ EpochFits /\ idleGCs > 0
                      => sinceGC >= denomValue - 1
<1>1. ASSUME IInv, MakeIdleNotification, notified', EpochFits, idleGCs > 0
      PROVE  sinceGC >= denomValue - 1
  <2> USE <1>1, CountAssumption DEF IInv, EpochInv, MakeIdleNotification, Record
  <2>1. CASE Suppressed \/ WarmUp
    BY <2>1 DEF Suppressed, WarmUp
  <2>2. CASE BeforeSampling \/ StartSampling
    <3>1. execJSCount < lastExecJSCount + samplingBegin /\ NextCount = execJSCount + 1
      <4>1. /\ idle_notification_FLAG
            /\ NextCount < SamplingStart \/ NextCount = SamplingStart
        BY <2>2, Zenon DEF BeforeSampling, StartSampling, Counted
      <4>2. SamplingStart = lastExecJSCount + samplingBegin
        BY <2>2, DeadBranch DEF BeforeSampling, StartSampling, Counted
      <4>3. QED
        BY <4>1, <4>2, NoWrapInEpoch DEF WrappedCount, NextCount, TypeOK
    <3>2. NextCount % 3 = 0
      BY <2>2, Zenon DEF BeforeSampling, StartSampling
    <3>3. QED
      BY <3>1, <3>2 DEF TypeOK, UnsampledPhase
  <2>3. CASE Sample
    <3>1. execJSCount >= lastExecJSCount + samplingBegin
      BY <2>3, DeadBranch, NoWrapInEpoch
         DEF Sample, Counted, WrappedCount, NextCount, TypeOK
    <3>2. samplingExecJSCount' % 3 = 0
      BY <2>3, Zenon DEF Sample
    <3>3. samplingExecJSCount' = samplingExecJSCount + 1
      BY <2>3 DEF Sample, TypeOK
    <3>4. QED
      BY <3>1, <3>2, <3>3 DEF TypeOK, SampledPhase
  <2>4. QED
    BY <2>1, <2>2, <2>3
<1>2. IInv /\ [Next]_vars => [Apart]_vars
  BY <1>1
<1>3. QED
  BY <1>2, Invariance, PTL DEF Spec, SpacedInEpoch

\* The early switch-off at the tenth sampled call is not observable: in an
\* epoch that ends before the wrap the calls from the first sampled one on
\* collect where the rule of the comment has them collect.
THEOREM LimitIsAsCommented == Spec => SampledAsCommented
<1> DEFINE Rule == sampled' % denomValue = 0 /\ sampled' <= samplingExecJSCountMax
           AsRuled == MakeIdleNotification /\ EpochFits /\ sampled' > 0
                        => (notified' <=> Rule)
<1>1. ASSUME IInv, MakeIdleNotification, EpochFits, sampled' > 0
      PROVE  notified' <=> Rule
  <2> USE <1>1, CountAssumption DEF IInv, EpochInv, MakeIdleNotification
  <2>1. CASE Suppressed
    <3>1. notified' = FALSE
      BY <2>1, Zenon DEF Suppressed, Record
    <3>2. sampled >= samplingExecJSCountMax
      BY <2>1 DEF Suppressed, TypeOK, UnsampledPhase, SampledPhase
    <3>3. ~(sampled' <= samplingExecJSCountMax)
      BY <2>1, <3>2 DEF Suppressed, TypeOK, Capped, SampledCap
    <3>4. QED
      BY <3>1, <3>3, Zenon
  <2>2. CASE WarmUp \/ BeforeSampling \/ StartSampling
    <3>1. sampled' = sampled /\ idle_notification_FLAG
      BY <2>2, Zenon DEF WarmUp, BeforeSampling, StartSampling, Counted
    <3>2. sampled = samplingExecJSCount /\ sampled > 0
      BY <3>1 DEF TypeOK, UnsampledPhase, SampledPhase
    <3>3. execJSCount >= lastExecJSCount + samplingBegin
      BY <3>2 DEF TypeOK, UnsampledPhase
    <3>4. CASE WarmUp
      BY <3>2, <3>3, <3>4 DEF WarmUp, WrappedCount, SampledPhase, TypeOK
    <3>5. CASE BeforeSampling \/ StartSampling
      <4>1. NextCount < SamplingStart \/ NextCount = SamplingStart
        BY <3>5, Zenon DEF BeforeSampling, StartSampling
      <4>2. SamplingStart = lastExecJSCount + samplingBegin
        BY <3>5, DeadBranch DEF BeforeSampling, StartSampling, Counted
      <4>3. QED
        BY <3>1, <3>3, <4>1, <4>2, NoWrapInEpoch DEF WrappedCount, NextCount, TypeOK
    <3>6. QED
      BY <2>2, <3>4, <3>5
  <2>3. CASE Sample
    <3>1. execJSCount >= lastExecJSCount + samplingBegin /\ idle_notification_FLAG
      BY <2>3, DeadBranch, NoWrapInEpoch
         DEF Sample, Counted, WrappedCount, NextCount, TypeOK
    <3>2. sampled = samplingExecJSCount /\ samplingExecJSCount < samplingExecJSCountMax
      BY <3>1 DEF SampledPhase, SamplingBounded
    <3>3. notified' = (samplingExecJSCount' % denomValue = 0)
      BY <2>3, Zenon DEF Sample, Record
    <3>4. /\ samplingExecJSCount' = samplingExecJSCount + 1
          /\ sampled' = sampled + 1
      BY <2>3, <3>2 DEF Sample, TypeOK, Capped, SampledCap
    <3>5. sampled' <= samplingExecJSCountMax /\ sampled' = samplingExecJSCount'
      BY <3>2, <3>4 DEF TypeOK
    <3>6. QED
      BY <3>3, <3>5, Zenon
  <2>4. QED
    BY <2>1, <2>2, <2>3
<1>2. IInv /\ [Next]_vars => [AsRuled]_vars
  BY <1>1, Zenon
<1>3. QED
  BY <1>2, Invariance, PTL DEF Spec, SampledAsCommented
=============================================================================
