-------------------------- MODULE IdleNotification --------------------------
(***************************************************************************)
(* The idle-notification policy of weexion.cpp: at the end of every call   *)
(* of native_execJS the bridge decides whether to run a full JS_GC.  The   *)
(* decision is a small state machine over four process-wide variables.     *)
(*                                                                         *)
(* The counters are C unsigned longs.  MAX_EXECJS_COUNT is LONG_MAX, so no *)
(* sum the code forms (at most LONG_MAX + 5) wraps the unsigned type: the  *)
(* explicit wrap at MAX_EXECJS_COUNT is the only one, and it is modelled.  *)
(***************************************************************************)
EXTENDS Integers

CONSTANTS
  MIN_EXECJS_COUNT,   \* 100 in the code: calls before the first notification
  MAX_EXECJS_COUNT    \* LONG_MAX in the code: where execJSCount wraps

samplingBegin == 5            \* calls after a markup before sampling starts

denomValue == 3               \* notify on every third call

samplingExecJSCountMax == 10  \* the sampled call at which notifying stops

ASSUME CountAssumption ==
  /\ MIN_EXECJS_COUNT \in Nat \ {0}
  /\ MAX_EXECJS_COUNT \in Nat
  /\ MAX_EXECJS_COUNT > MIN_EXECJS_COUNT + samplingBegin + samplingExecJSCountMax

VARIABLES
  framework,               \* native_initFramework has run past its reset
  execJSCount,
  lastExecJSCount,
  samplingExecJSCount,
  idle_notification_FLAG,
  notified,                \* history: the last native_execJS ran an idle GC
  sinceGC,                 \* history: calls since the last idle GC, capped
  idleGCs,                 \* history: idle GCs since the last markup, capped
  calls,                   \* history: calls of native_execJS, capped
  sampled                  \* history: calls of this epoch from the first sampled
                           \* one on, the suppressed ones included, capped

counters == <<execJSCount, lastExecJSCount, samplingExecJSCount,
              idle_notification_FLAG>>

vars == <<framework, counters, notified, sinceGC, idleGCs, calls, sampled>>

(***************************************************************************)
(* The history variables.  SpacingCap, BudgetCap, CallsCap and SampledCap  *)
(* only bound them: each lies above every value a property tells apart     *)
(* (SampledCap is no multiple of denomValue).                              *)
(***************************************************************************)
SpacingCap == denomValue + 1

BudgetCap == 6

CallsCap == MIN_EXECJS_COUNT + 1

SampledCap == samplingExecJSCountMax + 1

Capped(n, cap) == IF n < cap THEN n ELSE cap

Record(gc) ==
  /\ notified' = gc
  /\ sinceGC' = IF gc THEN 0 ELSE Capped(sinceGC + 1, SpacingCap)
  /\ idleGCs' = Capped(idleGCs + (IF gc THEN 1 ELSE 0), BudgetCap)
  /\ calls' = Capped(calls + 1, CallsCap)

Init ==
  /\ framework = FALSE
  /\ execJSCount = 0
  /\ lastExecJSCount = 0
  /\ samplingExecJSCount = 0
  /\ idle_notification_FLAG = TRUE
  /\ notified = FALSE
  /\ sinceGC = SpacingCap
  /\ idleGCs = 0
  /\ calls = 0
  /\ sampled = 0

(***************************************************************************)
(* native_initFramework calls resetIdleNotificationCount before it runs    *)
(* the framework script.  A second call returns at its first test.         *)
(***************************************************************************)
ResetIdleNotificationCount ==
  /\ ~framework
  /\ framework' = TRUE
  /\ execJSCount' = 0
  /\ idle_notification_FLAG' = TRUE
  /\ UNCHANGED <<lastExecJSCount, samplingExecJSCount, notified, sinceGC,
                 idleGCs, calls, sampled>>

(***************************************************************************)
(* needIdleNotification, one action per path through it.  The call first   *)
(* wraps execJSCount, then increments it, then brings lastExecJSCount up   *)
(* when the incremented value is MIN_EXECJS_COUNT.                         *)
(***************************************************************************)
NoWrap == execJSCount

WrappedCount ==
  IF execJSCount = MAX_EXECJS_COUNT THEN MIN_EXECJS_COUNT ELSE execJSCount

NextCount == WrappedCount + 1

SamplingStart ==
  (IF NextCount = MIN_EXECJS_COUNT THEN NextCount ELSE lastExecJSCount)
    + samplingBegin

\* if (!idle_notification_FLAG) return false
Suppressed ==
  /\ ~idle_notification_FLAG
  /\ Record(FALSE)
  /\ sampled' = Capped(sampled + 1, SampledCap)
  /\ UNCHANGED counters

EagerWarmUp ==
  /\ idle_notification_FLAG
  /\ WrappedCount < MIN_EXECJS_COUNT
  /\ execJSCount' = NextCount
  /\ Record(NextCount % denomValue = 0)
  /\ UNCHANGED <<lastExecJSCount, samplingExecJSCount, idle_notification_FLAG,
                 sampled>>

\* if (execJSCount++ < MIN_EXECJS_COUNT) return false
WarmUp ==
  /\ idle_notification_FLAG
  /\ WrappedCount < MIN_EXECJS_COUNT
  /\ execJSCount' = NextCount
  /\ Record(FALSE)
  /\ UNCHANGED <<lastExecJSCount, samplingExecJSCount, idle_notification_FLAG,
                 sampled>>

Counted ==
  /\ idle_notification_FLAG
  /\ WrappedCount >= MIN_EXECJS_COUNT
  /\ execJSCount' = NextCount
  /\ lastExecJSCount' = SamplingStart - samplingBegin

EveryCallBeforeSampling ==
  /\ Counted
  /\ NextCount < SamplingStart
  /\ Record(TRUE)
  /\ UNCHANGED <<samplingExecJSCount, idle_notification_FLAG, sampled>>

\* Fewer than samplingBegin calls since the markup: every third call.
BeforeSampling ==
  /\ Counted
  /\ NextCount < SamplingStart
  /\ Record(NextCount % denomValue = 0)
  /\ UNCHANGED <<samplingExecJSCount, idle_notification_FLAG, sampled>>

StartSamplingAtOne ==
  /\ Counted
  /\ NextCount = SamplingStart
  /\ samplingExecJSCount' = 1
  /\ Record(NextCount % denomValue = 0)
  /\ UNCHANGED <<idle_notification_FLAG, sampled>>

StartSampling ==
  /\ Counted
  /\ NextCount = SamplingStart
  /\ samplingExecJSCount' = 0
  /\ Record(NextCount % denomValue = 0)
  /\ UNCHANGED <<idle_notification_FLAG, sampled>>

\* The tenth sampled call switches the policy off.
Sample ==
  /\ Counted
  /\ NextCount > SamplingStart
  /\ samplingExecJSCount' =
       (IF samplingExecJSCount = MAX_EXECJS_COUNT THEN 0 ELSE samplingExecJSCount) + 1
  /\ idle_notification_FLAG' = ~(samplingExecJSCount' >= samplingExecJSCountMax)
  /\ Record(samplingExecJSCount' % denomValue = 0)
  /\ sampled' = Capped(sampled + 1, SampledCap)

\* makeIdleNotification, the last thing native_execJS does.
MakeIdleNotification ==
  /\ framework
  /\ Suppressed \/ WarmUp \/ BeforeSampling \/ StartSampling \/ Sample
  /\ UNCHANGED framework

(***************************************************************************)
(* The JavaScript global markupState() calls markupStateInternally.        *)
(* (EagerWarmUp, EveryCallBeforeSampling, StartSamplingAtOne, NoWrap and   *)
(* MarkupStaysOff are the mutants the properties are tried against.)       *)
(***************************************************************************)
MarkupStaysOff ==
  /\ framework
  /\ execJSCount' = IF execJSCount + samplingBegin = MAX_EXECJS_COUNT
                    THEN MIN_EXECJS_COUNT ELSE execJSCount
  /\ lastExecJSCount' = execJSCount'
  /\ samplingExecJSCount' = 0
  /\ idleGCs' = 0
  /\ sampled' = 0
  /\ UNCHANGED <<framework, idle_notification_FLAG, notified, sinceGC, calls>>

MarkupState ==
  /\ framework
  /\ execJSCount' = IF execJSCount + samplingBegin = MAX_EXECJS_COUNT
                    THEN MIN_EXECJS_COUNT ELSE execJSCount
  /\ lastExecJSCount' = execJSCount'
  /\ idle_notification_FLAG' = TRUE
  /\ samplingExecJSCount' = 0
  /\ idleGCs' = 0
  /\ sampled' = 0
  /\ UNCHANGED <<framework, notified, sinceGC, calls>>

Next == ResetIdleNotificationCount \/ MakeIdleNotification \/ MarkupState

Spec == Init /\ [][Next]_vars

-----------------------------------------------------------------------------
(***************************************************************************)
(* Properties.                                                             *)
(***************************************************************************)

FlagsOK ==
  /\ framework \in BOOLEAN
  /\ idle_notification_FLAG \in BOOLEAN
  /\ notified \in BOOLEAN

\* The counters stay in their ranges: execJSCount wraps before it passes
\* MAX_EXECJS_COUNT, and sampling ends with samplingExecJSCount at its maximum.
TypeOK ==
  /\ FlagsOK
  /\ execJSCount \in 0..MAX_EXECJS_COUNT
  /\ lastExecJSCount \in 0..MAX_EXECJS_COUNT
  /\ samplingExecJSCount \in 0..samplingExecJSCountMax
  /\ sinceGC \in 0..SpacingCap
  /\ idleGCs \in 0..BudgetCap
  /\ calls \in 0..CallsCap
  /\ sampled \in 0..SampledCap

\* The epoch that began at the last markup can be sampled to its end before
\* execJSCount wraps.
EpochFits ==
  lastExecJSCount + samplingBegin + samplingExecJSCountMax <= MAX_EXECJS_COUNT

\* The comment on needIdleNotification: "We begin to record the times of
\* calling execJS, if the times are greater than upper limit of 10, we decide
\* not to tell v8 idle notifications."  The code switches itself off at the
\* tenth recorded call, not after it, and then stops counting.  The difference
\* cannot be observed: counted from the first recorded call of an epoch that
\* ends before the wrap, also after the switch, the calls that collect are
\* every third one up to the limit of 10, and none beyond it.
SampledAsCommented ==
  [][(MakeIdleNotification /\ EpochFits /\ sampled' > 0)
       => (notified' <=> /\ sampled' % denomValue = 0
                         /\ sampled' <= samplingExecJSCountMax)]_vars

\* needIdleNotification bounds the full collections the bridge adds between
\* two calls of markupState: at most two in the five calls before sampling
\* starts and three in the ten sampled calls, provided the epoch ends before
\* the wrap at MAX_EXECJS_COUNT.
GCBudget == EpochFits => idleGCs <= 5

\* Inside one epoch that ends before the wrap, two idle collections are at
\* least denomValue calls of native_execJS apart, also across the switch from
\* counting execJSCount to counting samplingExecJSCount.
SpacedInEpoch ==
  [][(MakeIdleNotification /\ notified' /\ EpochFits /\ idleGCs > 0)
       => sinceGC >= denomValue - 1]_vars

\* The comment on needIdleNotification: "don't trigger notifications if
\* execJSCount is less than 100, because jsfm initialization wound take almost
\* 100 times of calling execJS()".  No idle collection runs in the first
\* MIN_EXECJS_COUNT calls of native_execJS, however markups interleave.
SilentWarmUp == notified => calls > MIN_EXECJS_COUNT
=============================================================================
