-------------------------- MODULE IonCompileProofs --------------------------
(***************************************************************************)
(* Proofs about IonCompile, for any scripts, any number of helper threads  *)
(* and every bound.                                                        *)
(***************************************************************************)
EXTENDS IonCompile, FiniteSetTheorems, TLAPS

Compiling(t) == helper[t] \in {"compile", "paused", "resumed"}

\* A thread has a builder exactly while it compiles.
ThreadInv == \A t \in Threads : ionBuilder[t] # None <=> Compiling(t)

Cancelling == main \in {"cancel", "cancelWait", "cancelWoken", "cancelled"}

\* LinkIonScript has its builder until it ends, also while it cancels, and
\* then forgets where it was called from.
LinkInv ==
  /\ cancelReturn # "js" => Cancelling
  /\ linkReturn = "interrupted" => main = "link" \/ cancelReturn = "link"
  /\ linking # None <=> main = "link" \/ cancelReturn = "link"

\* Between the worklist and the mark the new builder is off thread.
MarkInv ==
  main = "mark" =>
    /\ started \in OffThread
    /\ script[started] \in Scripts
    /\ ~hadIonScript[started]
    /\ ion[script[started]] = "none"

\* Builders are numbered in the order of their allocation.
FreshInv == \A b \in Builders : b > started => script[b] = None

\* Only the unloading terminates threads.
TerminateInv ==
  \A t \in Threads :
    /\ terminate[t] => ~Loaded
    /\ helper[t] = "exited" => terminate[t]

IInv ==
  /\ TypeOK
  /\ ThreadInv
  /\ LinkInv
  /\ MarkInv
  /\ FreshInv
  /\ TerminateInv
  /\ OneBuilderPerScript
  /\ ScriptStateAgrees
  /\ CancelComplete
  /\ WaitersHaveWakers
  /\ FinishedNoticed

-----------------------------------------------------------------------------
(***************************************************************************)
(* Lists.                                                                  *)
(***************************************************************************)
LEMMA NatLeast ==
  ASSUME NEW T \in SUBSET Nat, T # {}
  PROVE  \E x \in T : \A y \in T : x <= y
<1> DEFINE R == {ss \in Nat \X Nat : ss[1] < ss[2]}
<1>1. IsWellFoundedOn(R, Nat)
  BY NatLessThanWellFounded, Zenon DEF OpToRel
<1>2. \E x \in T : \A y \in T : <<y, x>> \notin R
  BY <1>1, WFMin, T \subseteq Nat, Zenon
<1>3. PICK x \in T : \A y \in T : <<y, x>> \notin R
  BY <1>2
<1>4. \A y \in T : x <= y
  <2> SUFFICES ASSUME NEW y \in T, ~(x <= y) PROVE FALSE
    OBVIOUS
  <2>1. <<y, x>> \in Nat \X Nat /\ y < x
    OBVIOUS
  <2>2. <<y, x>> \in R
    BY <2>1
  <2>3. QED
    BY <1>3, <2>2
<1>5. QED
  BY <1>4

\* Below a bound also a greatest.
LEMMA NatGreatest ==
  ASSUME NEW N \in Nat, NEW T \in SUBSET (0..N), T # {}
  PROVE  \E x \in T : \A y \in T : y <= x
<1> DEFINE U == {N - y : y \in T}
<1>1. U \in SUBSET Nat /\ U # {}
  <2>1. \A y \in T : N - y \in Nat
    OBVIOUS
  <2>2. PICK y \in T : TRUE
    OBVIOUS
  <2>3. N - y \in U
    OBVIOUS
  <2>4. QED
    BY <2>1, <2>3
<1>2. PICK u \in U : \A v \in U : u <= v
  BY <1>1, NatLeast
<1>3. PICK x \in T : u = N - x
  OBVIOUS
<1>4. \A y \in T : y <= x
  <2> TAKE y \in T
  <2>1. N - y \in U
    OBVIOUS
  <2>2. N - x <= N - y
    BY <1>2, <1>3, <2>1
  <2>3. QED
    BY <2>2
<1>5. QED
  BY <1>4

\* The numbers of the elements of a finite set of positions.
LEMMA NthExists ==
  ASSUME NEW N \in Nat, NEW S \in SUBSET (1..N), NEW n \in 1..Cardinality(S)
  PROVE  \E k \in S : Cardinality({j \in S : j <= k}) = n
<1> DEFINE UpTo(k) == {j \in S : j <= k}
           High == {k \in S : Cardinality(UpTo(k)) >= n}
<1>1. IsFiniteSet(S) /\ Cardinality(S) \in Nat
  <2>1. IsFiniteSet(1..N)
    BY FS_Interval
  <2>2. IsFiniteSet(S)
    BY <2>1, FS_Subset
  <2>3. QED
    BY <2>2, FS_CardinalityType
<1>2. \A k \in S : IsFiniteSet(UpTo(k)) /\ Cardinality(UpTo(k)) \in Nat
  BY <1>1, FS_Subset, FS_CardinalityType
<1>3. S # {}
  BY FS_EmptySet
<1>4. PICK top \in S : \A j \in S : j <= top
  BY <1>3, NatGreatest, S \in SUBSET (0..N)
<1>5. UpTo(top) = S
  BY <1>4
<1>6. High # {} /\ High \in SUBSET Nat
  <2>1. Cardinality(S) >= n
    BY <1>1
  <2>2. top \in High
    BY <1>5, <2>1
  <2>3. \A k \in High : k \in S
    OBVIOUS
  <2>4. S \subseteq Nat
    OBVIOUS
  <2> HIDE DEF High
  <2>5. QED
    BY <2>2, <2>3, <2>4
<1>7. PICK k \in High : \A j \in High : k <= j
  BY <1>6, NatLeast
<1>8. Cardinality(UpTo(k)) = n
  <2> SUFFICES ASSUME Cardinality(UpTo(k)) # n PROVE FALSE
    OBVIOUS
  <2>1. Cardinality(UpTo(k)) > n /\ k \in UpTo(k)
    BY <1>2, <1>7
  <2> DEFINE Below == UpTo(k) \ {k}
  <2>2. Cardinality(Below) = Cardinality(UpTo(k)) - 1 /\ IsFiniteSet(Below)
    BY <1>2, <2>1, FS_RemoveElement
  <2>3. Cardinality(Below) >= n
    <3>1. Cardinality(UpTo(k)) \in Nat /\ n \in Nat
      BY <1>2
    <3>2. QED
      BY <2>1, <2>2, <3>1
  <2>4. Below # {}
    BY <2>3, FS_EmptySet
  <2>5. PICK b \in Below : \A j \in Below : j <= b
    <3>1. Below \in SUBSET (0..N)
      <4>1. Below \subseteq S
        OBVIOUS
      <4>2. S \subseteq 0..N
        OBVIOUS
      <4>3. QED
        BY <4>1, <4>2
    <3>2. QED
      BY <2>4, <3>1, NatGreatest
  <2>6. UpTo(b) = Below
    <3>1. b \in S /\ b < k /\ b \in Nat /\ k \in Nat
      OBVIOUS
    <3>2. \A j \in S : j \in Nat
      OBVIOUS
    <3>3. \A j \in S : j <= b => j \in Below
      BY <3>1, <3>2
    <3>4. \A j \in Below : j \in S
      OBVIOUS
    <3> HIDE DEF Below
    <3>5. QED
      BY <2>5, <3>3, <3>4
  <2>7. b \in High /\ b < k
    BY <2>3, <2>6
  <2>8. QED
    BY <1>7, <2>7
<1>9. QED
  BY <1>8

\* Removing builders from the list leaves the others.
LEMMA RemovedList ==
  ASSUME NEW B, NEW list \in Seq(B), NEW dropped
  PROVE  /\ ionLazyLinkListRemove(list, dropped) \in Seq(B)
         /\ Range(ionLazyLinkListRemove(list, dropped)) = Range(list) \ dropped
<1> DEFINE kept == {k \in 1..Len(list) : list[k] \notin dropped}
           UpTo(k) == {j \in kept : j <= k}
           w == ionLazyLinkListRemove(list, dropped)
<1>1. IsFiniteSet(kept) /\ Cardinality(kept) \in Nat /\ Len(list) \in Nat
  <2>1. Len(list) \in Nat /\ IsFiniteSet(1..Len(list))
    BY FS_Interval
  <2>2. IsFiniteSet(kept)
    BY <2>1, FS_Subset
  <2>3. QED
    BY <2>1, <2>2, FS_CardinalityType
<1>2. w = [n \in 1..Cardinality(kept) |-> list[Nth(kept, n)]]
  BY DEF ionLazyLinkListRemove
<1>3. \A n \in 1..Cardinality(kept) :
        Nth(kept, n) \in kept /\ Cardinality(UpTo(Nth(kept, n))) = n
  <2> TAKE n \in 1..Cardinality(kept)
  <2>1. \E k \in kept : Cardinality(UpTo(k)) = n
    BY <1>1, NthExists, kept \in SUBSET (1..Len(list))
  <2>2. QED
    BY <2>1 DEF Nth
<1>4. w \in Seq(B)
  <2>1. \A n \in 1..Cardinality(kept) : list[Nth(kept, n)] \in B
    <3>1. \A k \in kept : list[k] \in B
      OBVIOUS
    <3> HIDE DEF kept
    <3>2. QED
      BY <1>3, <3>1
  <2>2. QED
    BY <1>1, <1>2, <2>1
<1>5. \A k \in kept : \E n \in 1..Cardinality(kept) : Nth(kept, n) = k
  <2> TAKE k \in kept
  <2> DEFINE n == Cardinality(UpTo(k))
  <2>1. n \in 1..Cardinality(kept)
    <3>1. n \in Nat /\ n <= Cardinality(kept) /\ IsFiniteSet(UpTo(k))
      BY <1>1, FS_Subset, FS_CardinalityType
    <3>2. n # 0
      BY <1>1, <3>1, FS_EmptySet, k \in UpTo(k)
    <3>3. QED
      BY <1>1, <3>1, <3>2
  <2>2. Nth(kept, n) \in kept /\ Cardinality(UpTo(Nth(kept, n))) = n
    BY <1>3, <2>1
  <2>3. \A j \in kept : j < k => Cardinality(UpTo(j)) < n
    <3> SUFFICES ASSUME NEW j \in kept, j < k PROVE Cardinality(UpTo(j)) < n
      OBVIOUS
    <3>1. UpTo(j) \subseteq UpTo(k) \ {k} /\ k \in UpTo(k)
      BY <1>1
    <3>2. IsFiniteSet(UpTo(k)) /\ n \in Nat
      BY <1>1, FS_Subset, FS_CardinalityType
    <3>3. Cardinality(UpTo(k) \ {k}) = n - 1 /\ IsFiniteSet(UpTo(k) \ {k})
      BY <3>1, <3>2, FS_RemoveElement
    <3>4. Cardinality(UpTo(j)) <= n - 1 /\ Cardinality(UpTo(j)) \in Nat
      BY <3>1, <3>3, FS_Subset, FS_CardinalityType
    <3>5. QED
      BY <3>2, <3>4
  <2>4. \A j \in kept : k < j => n < Cardinality(UpTo(j))
    <3> SUFFICES ASSUME NEW j \in kept, k < j PROVE n < Cardinality(UpTo(j))
      OBVIOUS
    <3>1. UpTo(k) \subseteq UpTo(j) \ {j} /\ j \in UpTo(j)
      BY <1>1
    <3>2. IsFiniteSet(UpTo(j)) /\ Cardinality(UpTo(j)) \in Nat
      BY <1>1, FS_Subset, FS_CardinalityType
    <3>3. Cardinality(UpTo(j) \ {j}) = Cardinality(UpTo(j)) - 1 /\ IsFiniteSet(UpTo(j) \ {j})
      BY <3>1, <3>2, FS_RemoveElement
    <3>4. n <= Cardinality(UpTo(j)) - 1 /\ n \in Nat
      BY <3>1, <3>3, FS_Subset, FS_CardinalityType
    <3>5. QED
      BY <3>2, <3>4
  <2>5. Nth(kept, n) = k
    <3>1. k \in Nat /\ Nth(kept, n) \in Nat
      BY <2>2
    <3>2. n \in Nat
      BY <2>1
    <3>3. PICK m \in kept : m = Nth(kept, n) /\ Cardinality(UpTo(m)) = n
      BY <2>2
    <3> HIDE DEF n, UpTo, kept
    <3>4. ~(m < k)
      BY <2>3, <3>2, <3>3
    <3>5. ~(k < m)
      BY <2>4, <3>2, <3>3
    <3>6. QED
      BY <3>1, <3>3, <3>4, <3>5
  <2>6. QED
    BY <2>1, <2>5
<1>6. Range(w) = {list[k] : k \in kept}
  <2>1. Range(w) = {list[Nth(kept, n)] : n \in 1..Cardinality(kept)}
    BY <1>2 DEF Range
  <2>2. QED
    BY <1>3, <1>5, <2>1
<1>7. Range(list) = {list[k] : k \in 1..Len(list)}
  BY DEF Range
<1>8. {list[k] : k \in kept} = {list[k] : k \in 1..Len(list)} \ dropped
  OBVIOUS
<1>9. QED
  BY <1>4, <1>6, <1>7, <1>8


-----------------------------------------------------------------------------
(***************************************************************************)
(* Types.                                                                  *)
(***************************************************************************)
USE IonCompileAssumption

MainType ==
  /\ main \in {"js", "mark", "interrupted", "attach", "link", "cancel",
               "cancelWait", "cancelWoken", "cancelled", "unload", "down"}
  /\ linkReturn \in {"js", "interrupted"}
  /\ cancelReturn \in {"js", "link", "interrupted"}
  /\ selected \subseteq Scripts
  /\ afterCancel \in {"nothing", "invalidate", "forbid"}
  /\ linking \in Builders \union {None}
  /\ (main = "link") => linking # None
  /\ interrupt \in BOOLEAN

ScriptType ==
  /\ ion \in [Scripts -> {"none", "disabled", "compiling", "pending", "ion"}]
  /\ recompiling \in [Scripts -> BOOLEAN]
  /\ pendingBuilder \in [Scripts -> Builders \union {None}]

BuilderType ==
  /\ started \in 0..MaxBuilders
  /\ script \in [Builders -> Scripts \union {None}]
  /\ hadIonScript \in [Builders -> BOOLEAN]
  /\ warmUp \in [Builders -> 0..MaxWarmUp]
  /\ codegen \in [Builders -> BOOLEAN]

ListType ==
  /\ ionWorklist \subseteq Builders
  /\ finishedList \subseteq Builders
  /\ lazyLinkList \in Seq(Builders)

ThreadType ==
  /\ helper \in [Threads -> {"ready", "top", "idle", "compile", "paused", "resumed",
                             "exited"}]
  /\ ionBuilder \in [Threads -> Builders \union {None}]
  /\ pause \in [Threads -> BOOLEAN]
  /\ \A t \in Paused : ionBuilder[t] # None
  /\ terminate \in [Threads -> BOOLEAN]

LEMMA TypeParts ==
  TypeOK <=> MainType /\ ScriptType /\ BuilderType /\ ListType /\ ThreadType
BY DEF TypeOK, MainType, ScriptType, BuilderType, ListType, ThreadType

LEMMA NoneIsNone == None \notin Builders /\ None \notin Scripts
BY DEF None, Builders

\* Where builders are, they live.
LEMMA Places ==
  ASSUME TypeOK, OneBuilderPerScript
  PROVE  /\ InThreads \subseteq Builders
         /\ OffThread \subseteq Builders
         /\ Lazy \subseteq Builders
         /\ \A b \in OffThread \union Lazy : script[b] \in Scripts
         /\ linking # None => linking \in Builders /\ script[linking] \in Scripts
<1>1. InThreads \subseteq Builders
  BY DEF InThreads, TypeOK
<1>2. OffThread \subseteq Builders
  BY <1>1 DEF OffThread, TypeOK
<1>3. Lazy \subseteq Builders
  BY DEF Lazy, Range, TypeOK
<1>4. \A b \in OffThread \union Lazy : script[b] \in Scripts
  BY <1>2, <1>3, NoneIsNone DEF OneBuilderPerScript, TypeOK
<1>5. linking # None => linking \in Builders /\ script[linking] \in Scripts
  BY NoneIsNone DEF OneBuilderPerScript, TypeOK
<1>6. QED
  BY <1>1, <1>2, <1>3, <1>4, <1>5

\* The oldest of the list is pending.
LEMMA Oldest ==
  ASSUME TypeOK, OneBuilderPerScript, ScriptStateAgrees, Len(lazyLinkList) > LazyMax
  PROVE  /\ script[Last(lazyLinkList)] \in Scripts
         /\ pendingBuilder[script[Last(lazyLinkList)]] = Last(lazyLinkList)
         /\ Last(lazyLinkList) \in Builders
<1>1. Len(lazyLinkList) \in Nat \ {0}
  BY DEF TypeOK
<1>2. Last(lazyLinkList) \in Lazy
  BY <1>1 DEF Last, Lazy, Range, TypeOK
<1>3. QED
  BY <1>2, Places DEF ScriptStateAgrees

LEMMA DeleteType ==
  ASSUME NEW builders, BuilderType, Delete(builders), UNCHANGED started
  PROVE  BuilderType'
BY DEF BuilderType, Delete

\* LinkOnEntry and LinkOldest.
Link ==
  \E s \in Scripts, ret \in {"js", "interrupted"} :
    /\ LinkIonScript(s, ret)
    /\ pendingBuilder[s] # None
    /\ main \in {"js", "attach"}
    /\ ret = "interrupted" => main = "attach"
    /\ main = "attach" => ret = "interrupted"

LEMMA LinkCases ==
  ASSUME TypeOK, OneBuilderPerScript, ScriptStateAgrees,
         LinkOldest \/ \E s \in Scripts : LinkOnEntry(s)
  PROVE  Link
<1>1. CASE LinkOldest
  <2>1. /\ main = "attach"
        /\ Len(lazyLinkList) > LazyMax
        /\ LinkIonScript(script[Last(lazyLinkList)], "interrupted")
    BY <1>1 DEF LinkOldest
  <2>2. QED
    BY <2>1, Oldest, NoneIsNone DEF Link
<1>2. ASSUME NEW s \in Scripts, LinkOnEntry(s) PROVE Link
  BY <1>2 DEF LinkOnEntry, Link
<1>3. QED
  BY <1>1, <1>2

\* The callers of CancelOffThreadIonCompile.
Cancel ==
  \/ CancelAll \/ CancelAndDiscard
  \/ \E s \in Scripts : CancelAndInvalidate(s) \/ ForbidCompilation(s)

LEMMA CancelCall ==
  ASSUME Cancel
  PROVE  /\ main \in {"js", "interrupted"} \/ (main = "link" /\ codegen[linking])
         /\ main' = "cancel"
         /\ cancelReturn' = main
         /\ selected' \subseteq Scripts
         /\ afterCancel' \in {"nothing", "invalidate", "forbid"}
         /\ UNCHANGED <<linkReturn, linking, scriptVars, builderVars, ionWorklist,
                        finishedList, lazyLinkList, interrupt, threadVars>>
BY DEF Cancel, CancelAll, CancelAndDiscard, CancelAndInvalidate, ForbidCompilation,
       CallCancel, MayCollect, MayInvalidate

\* Steps by the JavaScript thread that move nothing but itself.
Plain ==
  \/ handleInterrupt \/ Unload \/ AttachLock \/ AttachDone \/ finishThreads
  \/ UNCHANGED vars

LEMMA PlainStep ==
  ASSUME Plain
  PROVE  UNCHANGED <<callVars, scriptVars, builderVars, ionWorklist, finishedList,
                     lazyLinkList, threadVars>>
BY DEF Plain, handleInterrupt, Unload, AttachLock, AttachDone, finishThreads, vars

LEMMA Cases ==
  ASSUME TypeOK, OneBuilderPerScript, ScriptStateAgrees, [Next]_vars
  PROVE  \/ Plain
         \/ Cancel
         \/ Link
         \/ \E b \in Builders, count \in 0..MaxWarmUp : WarmUp(b, count)
         \/ \E s \in Scripts, recompile \in BOOLEAN : IonCompile(s, recompile)
         \/ \E s \in Scripts : AbortRecompile(s)
         \/ MarkCompiling
         \/ \E b \in Builders : AttachFinishedBuilder(b)
         \/ FinishLink
         \/ CancelOffThreadIonCompile
         \/ AfterCancel
         \/ \E t \in Threads : destroy(t)
         \/ \E t \in Threads : ThreadStep(t)
BY LinkCases DEF Next, Script, MainStep, Plain, Cancel

LEMMA TypeNext ==
  ASSUME IInv, [Next]_vars
  PROVE  TypeOK'
<1>1. /\ TypeOK /\ OneBuilderPerScript /\ ScriptStateAgrees /\ LinkInv /\ ThreadInv
      /\ MainType /\ ScriptType /\ BuilderType /\ ListType /\ ThreadType
  BY TypeParts DEF IInv
<1> DEFINE Goal == MainType' /\ ScriptType' /\ BuilderType' /\ ListType' /\ ThreadType'
<1> SUFFICES Goal
  BY DEF TypeOK, MainType, ScriptType, BuilderType, ListType, ThreadType
<1>2. CASE Plain
  <2>1. ScriptType' /\ BuilderType' /\ ListType' /\ ThreadType'
    BY <1>1, <1>2, PlainStep DEF callVars, scriptVars, builderVars, threadVars,
       ScriptType, BuilderType, ListType, ThreadType, Paused
  <2>2. MainType'
    BY <1>1, <1>2, PlainStep DEF Plain, handleInterrupt, Unload, AttachLock, AttachDone,
       finishThreads, vars, callVars, MainType
  <2>3. QED
    BY <2>1, <2>2
<1>3. CASE Cancel
  <2>1. ScriptType' /\ BuilderType' /\ ListType' /\ ThreadType'
    BY <1>1, <1>3, CancelCall DEF scriptVars, builderVars, threadVars,
       ScriptType, BuilderType, ListType, ThreadType, Paused
  <2>2. MainType'
    BY <1>1, <1>3, CancelCall DEF MainType
  <2>3. QED
    BY <2>1, <2>2
<1>4. CASE Link
  <2>1. PICK s \in Scripts, ret \in {"js", "interrupted"} :
          LinkIonScript(s, ret) /\ pendingBuilder[s] # None
    BY <1>4 DEF Link
  <2>2. /\ main' = "link"
        /\ linkReturn' = ret
        /\ linking' = pendingBuilder[s]
        /\ pendingBuilder' = [pendingBuilder EXCEPT ![s] = None]
        /\ lazyLinkList' = ionLazyLinkListRemove(lazyLinkList, {pendingBuilder[s]})
        /\ ion' \in [Scripts -> {"none", "disabled", "compiling", "pending", "ion"}]
        /\ recompiling' \in [Scripts -> BOOLEAN]
        /\ UNCHANGED <<cancelReturn, selected, afterCancel, builderVars,
                       ionWorklist, finishedList, interrupt, threadVars>>
    BY <1>1, <2>1 DEF LinkIonScript, removePendingIonBuilder, ScriptType
  <2>3. lazyLinkList' \in Seq(Builders)
    BY <1>1, <2>2, RemovedList DEF ListType
  <2>4. BuilderType' /\ ThreadType'
    BY <1>1, <2>2 DEF builderVars, threadVars, BuilderType, ThreadType, Paused
  <2>5. ScriptType' /\ ListType' /\ MainType'
    BY <1>1, <2>1, <2>2, <2>3 DEF ScriptType, ListType, MainType
  <2>6. QED
    BY <2>4, <2>5
<1>5. ASSUME NEW b \in Builders, NEW count \in 0..MaxWarmUp, WarmUp(b, count) PROVE Goal
  BY <1>1, <1>5 DEF WarmUp, callVars, scriptVars, threadVars, MainType, ScriptType,
     BuilderType, ListType, ThreadType, Paused
<1>6. ASSUME NEW s \in Scripts, NEW recompile \in BOOLEAN, IonCompile(s, recompile) PROVE Goal
  <2>0. started' = started + 1 /\ started' \in Builders
    BY <1>1, <1>6 DEF IonCompile, BuilderType, Builders
  <2>1. /\ \E count \in 0..MaxWarmUp : warmUp' = [warmUp EXCEPT ![started'] = count]
        /\ script' = [script EXCEPT ![started'] = s]
        /\ hadIonScript' = [hadIonScript EXCEPT ![started'] = recompile]
        /\ recompiling' = [recompiling EXCEPT ![s] = recompile]
        /\ ionWorklist' = ionWorklist \union {started'}
        /\ main' \in {"js", "mark"}
        /\ UNCHANGED <<callVars, ion, pendingBuilder, codegen, finishedList,
                       lazyLinkList, interrupt, ionBuilder, pause, terminate>>
    BY <1>6 DEF IonCompile
  <2>2. BuilderType'
    BY <1>1, <2>0, <2>1 DEF BuilderType, Builders
  <2>3. ThreadType'
    BY <1>1, <1>6, <2>1 DEF IonCompile, NotifyOneProducer, ThreadType, Paused
  <2>4. MainType' /\ ScriptType' /\ ListType'
    BY <1>1, <2>0, <2>1 DEF callVars, MainType, ScriptType, ListType
  <2>5. QED
    BY <2>2, <2>3, <2>4
<1>7. ASSUME NEW s \in Scripts, AbortRecompile(s) PROVE Goal
  BY <1>1, <1>7 DEF AbortRecompile, callVars, builderVars, threadVars, MainType,
     ScriptType, BuilderType, ListType, ThreadType, Paused
<1>8. CASE MarkCompiling
  BY <1>1, <1>8 DEF MarkCompiling, callVars, builderVars, threadVars, MainType,
     ScriptType, BuilderType, ListType, ThreadType, Paused
<1>9. ASSUME NEW b \in Builders, AttachFinishedBuilder(b) PROVE Goal
  <2>1. /\ finishedList' = finishedList \ {b}
        /\ ion' = [ion EXCEPT ![script[b]] = IF @ = "compiling" THEN "pending" ELSE @]
        /\ pendingBuilder' = [pendingBuilder EXCEPT ![script[b]] = b]
        /\ lazyLinkList' = <<b>> \o lazyLinkList
        /\ UNCHANGED <<main, callVars, recompiling, builderVars, ionWorklist,
                       interrupt, threadVars>>
    BY <1>9 DEF AttachFinishedBuilder
  <2>2. lazyLinkList' \in Seq(Builders)
    BY <1>1, <2>1 DEF ListType
  <2>3. ScriptType'
    BY <1>1, <2>1 DEF ScriptType
  <2>4. MainType' /\ BuilderType' /\ ListType' /\ ThreadType'
    BY <1>1, <2>1, <2>2 DEF callVars, builderVars, threadVars, MainType, BuilderType,
       ListType, ThreadType, Paused
  <2>5. QED
    BY <2>3, <2>4
<1>10. CASE FinishLink
  <2>1. /\ main = "link"
        /\ main' = linkReturn
        /\ linkReturn' = "js"
        /\ linking' = None
        /\ Delete({linking})
        /\ ion' \in [Scripts -> {"none", "disabled", "compiling", "pending", "ion"}]
        /\ recompiling' \in [Scripts -> BOOLEAN]
        /\ UNCHANGED <<cancelReturn, selected, afterCancel, pendingBuilder, started,
                       ionWorklist, finishedList, lazyLinkList, interrupt, threadVars>>
    BY <1>1, <1>10 DEF FinishLink, ScriptType
  <2>2. BuilderType'
    BY <1>1, <2>1, DeleteType
  <2>3. MainType' /\ ScriptType' /\ ListType' /\ ThreadType'
    BY <1>1, <2>1 DEF threadVars, MainType, ScriptType, ListType, ThreadType, Paused
  <2>4. QED
    BY <2>2, <2>3
<1>11. CASE CancelOffThreadIonCompile
  <2>1. /\ ionWorklist' \subseteq ionWorklist
        /\ UNCHANGED <<callVars, interrupt, ionBuilder, terminate>>
        /\ CancelInProgress \/ CancelFinished
    BY <1>11 DEF CancelOffThreadIonCompile
  <2>2. CASE CancelInProgress
    <3>1. /\ finishedList' \subseteq Builders
          /\ pause' = [t \in Threads |-> pause[t] /\ t \notin InProgress]
          /\ main' = "cancelWait"
          /\ UNCHANGED <<scriptVars, builderVars, lazyLinkList>>
      BY <1>1, <2>2 DEF CancelInProgress, BuildersOf, ListType
    <3>2. helper' \in [Threads -> {"ready", "top", "idle", "compile", "paused",
                                   "resumed", "exited"}]
      BY <1>1, <2>2 DEF CancelInProgress, NotifyAllPaused, ThreadType
    <3>3. ThreadType'
      BY <1>1, <2>1, <3>1, <3>2 DEF ThreadType, Paused
    <3>4. MainType' /\ ScriptType' /\ BuilderType' /\ ListType'
      BY <1>1, <2>1, <3>1 DEF callVars, scriptVars, builderVars, MainType, ScriptType,
         BuilderType, ListType
    <3>5. QED
      BY <3>3, <3>4
  <2>3. CASE CancelFinished
    <3>1. PICK finished, lazy :
            /\ FinishOffThreadBuilder(finished \union lazy)
            /\ finishedList' = finishedList \ finished
            /\ lazyLinkList' = ionLazyLinkListRemove(lazyLinkList, lazy)
            /\ main' = "cancelled"
            /\ UNCHANGED <<started, helper, pause>>
      BY <2>3 DEF CancelFinished
    <3>2. BuilderType'
      BY <1>1, <3>1, DeleteType DEF FinishOffThreadBuilder
    <3>3. ScriptType'
      BY <1>1, <3>1 DEF FinishOffThreadBuilder, ScriptType
    <3>4. lazyLinkList' \in Seq(Builders)
      BY <1>1, <3>1, RemovedList DEF ListType
    <3>5. MainType' /\ ListType' /\ ThreadType'
      BY <1>1, <2>1, <3>1, <3>4 DEF callVars, MainType, ListType, ThreadType, Paused
    <3>6. QED
      BY <3>2, <3>3, <3>5
  <2>4. QED
    BY <2>1, <2>2, <2>3
<1>12. CASE AfterCancel
  <2>1. /\ main' = cancelReturn
        /\ cancelReturn' = "js"
        /\ selected' = {}
        /\ afterCancel' = "nothing"
        /\ ion' \in [Scripts -> {"none", "disabled", "compiling", "pending", "ion"}]
        /\ recompiling' \in [Scripts -> BOOLEAN]
        /\ UNCHANGED <<linkReturn, linking, pendingBuilder, builderVars, ionWorklist,
                       finishedList, lazyLinkList, interrupt, threadVars>>
    BY <1>1, <1>12 DEF AfterCancel, ScriptType
  <2>2. MainType' /\ ScriptType' /\ BuilderType' /\ ListType' /\ ThreadType'
    BY <1>1, <2>1 DEF LinkInv, builderVars, threadVars, MainType, ScriptType, BuilderType,
       ListType, ThreadType, Paused
  <2>3. QED
    BY <2>2
<1>13. ASSUME NEW t \in Threads, destroy(t) \/ ExitLoop(t) \/ WaitForWork(t)
              \/ PauseCurrentHelperThread(t)
       PROVE  Goal
  <2>1. UNCHANGED <<main, callVars, scriptVars, builderVars, ionWorklist, finishedList,
                    lazyLinkList, interrupt, ionBuilder, pause>>
    BY <1>13 DEF destroy, ExitLoop, WaitForWork, PauseCurrentHelperThread
  <2>2. /\ helper' \in [Threads -> {"ready", "top", "idle", "compile", "paused",
                                    "resumed", "exited"}]
        /\ terminate' \in [Threads -> BOOLEAN]
    BY <1>1, <1>13 DEF destroy, ExitLoop, WaitForWork, PauseCurrentHelperThread, ThreadType
  <2>3. QED
    BY <1>1, <2>1, <2>2 DEF callVars, scriptVars, builderVars, MainType, ScriptType,
       BuilderType, ListType, ThreadType, Paused
<1>14. ASSUME NEW t \in Threads, StartWorkload(t) PROVE Goal
  <2>1. PICK b \in ionWorklist :
          /\ ionWorklist' = ionWorklist \ {b}
          /\ ionBuilder' = [ionBuilder EXCEPT ![t] = b]
    BY <1>14 DEF StartWorkload, highestPriorityPendingIonCompile
  <2>2. /\ helper' = [helper EXCEPT ![t] = "compile"]
        /\ UNCHANGED <<main, callVars, scriptVars, builderVars, finishedList,
                       lazyLinkList, interrupt, terminate>>
        /\ \/ UNCHANGED pause
           \/ \E other \in Unpaused : pause' = [pause EXCEPT ![other] = TRUE]
    BY <1>14 DEF StartWorkload, lowestPriorityUnpausedIonCompileAtThreshold
  <2>3. b \in Builders /\ b # None
    BY <1>1, <2>1, NoneIsNone DEF ListType
  <2>4. ThreadType'
    BY <1>1, <2>1, <2>2, <2>3 DEF ThreadType, Paused, Unpaused
  <2>5. MainType' /\ ScriptType' /\ BuilderType' /\ ListType'
    BY <1>1, <2>1, <2>2 DEF callVars, scriptVars, builderVars, MainType, ScriptType,
       BuilderType, ListType
  <2>6. QED
    BY <2>4, <2>5
<1>15. ASSUME NEW t \in Threads, FinishWorkload(t) PROVE Goal
  <2>1. /\ helper[t] = "compile"
        /\ \E ok \in BOOLEAN : codegen' = [codegen EXCEPT ![ionBuilder[t]] = ok]
        /\ finishedList' = finishedList \union {ionBuilder[t]}
        /\ ionBuilder' = [ionBuilder EXCEPT ![t] = None]
        /\ interrupt' = TRUE
        /\ main' = IF main = "cancelWait" THEN "cancelWoken" ELSE main
        /\ UNCHANGED <<callVars, scriptVars, started, script, hadIonScript, warmUp,
                       ionWorklist, lazyLinkList, terminate>>
        /\ UnpauseOther(t)
    BY <1>15 DEF FinishWorkload, requestInterrupt, NotifyAllConsumer
  <2>2. ionBuilder[t] \in Builders
    BY <1>1, <2>1 DEF ThreadInv, Compiling, ThreadType
  <2>3. /\ helper' \in [Threads -> {"ready", "top", "idle", "compile", "paused",
                                    "resumed", "exited"}]
        /\ pause' \in [Threads -> BOOLEAN]
        /\ \A u \in Threads : pause'[u] => pause[u] /\ u # t
    BY <1>1, <2>1 DEF UnpauseOther, ThreadType
  <2>4. ThreadType'
    BY <1>1, <2>1, <2>3 DEF ThreadType, Paused
  <2>5. MainType' /\ ScriptType' /\ BuilderType' /\ ListType'
    BY <1>1, <2>1, <2>2 DEF callVars, scriptVars, MainType, ScriptType,
       BuilderType, ListType
  <2>6. QED
    BY <2>4, <2>5
<1>16. QED
  BY <1>1, <1>2, <1>3, <1>4, <1>5, <1>6, <1>7, <1>8, <1>9, <1>10, <1>11, <1>12, <1>13,
     <1>14, <1>15, Cases DEF ThreadStep

-----------------------------------------------------------------------------
(***************************************************************************)
(* What the steps do.                                                      *)
(***************************************************************************)
LEMMA CompileStep ==
  ASSUME TypeOK, NEW s \in Scripts, NEW recompile \in BOOLEAN, IonCompile(s, recompile)
  PROVE  /\ Compile(s, recompile)
         /\ main = "js"
         /\ LockFree
         /\ started' = started + 1
         /\ started' \in Builders
         /\ script' = [script EXCEPT ![started'] = s]
         /\ hadIonScript' = [hadIonScript EXCEPT ![started'] = recompile]
         /\ recompiling' = [recompiling EXCEPT ![s] = recompile]
         /\ ionWorklist' = ionWorklist \union {started'}
         /\ NotifyOneProducer
         /\ main' = IF recompile THEN "js" ELSE "mark"
         /\ UNCHANGED <<callVars, ion, pendingBuilder, finishedList, lazyLinkList,
                        interrupt, ionBuilder, pause, terminate>>
BY DEF IonCompile, Compile, TypeOK, Builders

LEMMA LinkStep ==
  ASSUME TypeOK, Link
  PROVE  \E s \in Scripts, ret \in {"js", "interrupted"} :
           LET b == pendingBuilder[s] IN
           /\ main \in {"js", "attach"}
           /\ main = "attach" <=> ret = "interrupted"
           /\ b \in Builders
           /\ main' = "link"
           /\ linkReturn' = ret
           /\ linking' = b
           /\ pendingBuilder' = [pendingBuilder EXCEPT ![s] = None]
           /\ lazyLinkList' \in Seq(Builders)
           /\ Lazy' = Lazy \ {b}
           /\ \A r \in Scripts : r # s => ion'[r] = ion[r] /\ recompiling'[r] = recompiling[r]
           /\ (ion'[s] = ion[s] /\ ion[s] # "pending") \/ ion'[s] = "none"
           /\ UNCHANGED <<cancelReturn, selected, afterCancel, builderVars,
                          ionWorklist, finishedList, interrupt, threadVars>>
<1>1. PICK s \in Scripts, ret \in {"js", "interrupted"} :
        /\ LinkIonScript(s, ret)
        /\ pendingBuilder[s] # None
        /\ main \in {"js", "attach"}
        /\ main = "attach" <=> ret = "interrupted"
  BY DEF Link
<1>2. /\ main' = "link"
      /\ linkReturn' = ret
      /\ linking' = pendingBuilder[s]
      /\ pendingBuilder' = [pendingBuilder EXCEPT ![s] = None]
      /\ lazyLinkList' = ionLazyLinkListRemove(lazyLinkList, {pendingBuilder[s]})
      /\ UNCHANGED <<cancelReturn, selected, afterCancel, builderVars,
                     ionWorklist, finishedList, interrupt, threadVars>>
  BY <1>1 DEF LinkIonScript, removePendingIonBuilder
<1>3. /\ \A r \in Scripts : r # s => ion'[r] = ion[r] /\ recompiling'[r] = recompiling[r]
      /\ (ion'[s] = ion[s] /\ ion[s] # "pending") \/ ion'[s] = "none"
  BY <1>1 DEF LinkIonScript, TypeOK
<1>4. lazyLinkList' \in Seq(Builders) /\ Lazy' = Lazy \ {pendingBuilder[s]}
  BY <1>2, RemovedList DEF TypeOK, Lazy
<1>5. pendingBuilder[s] \in Builders
  BY <1>1 DEF TypeOK
<1>6. QED
  BY <1>1, <1>2, <1>3, <1>4, <1>5

LEMMA AttachStep ==
  ASSUME TypeOK, NEW b \in Builders, AttachFinishedBuilder(b)
  PROVE  /\ main = "attach"
         /\ b \in finishedList
         /\ finishedList' = finishedList \ {b}
         /\ ion' = [ion EXCEPT ![script[b]] = IF @ = "compiling" THEN "pending" ELSE @]
         /\ pendingBuilder' = [pendingBuilder EXCEPT ![script[b]] = b]
         /\ Lazy' = Lazy \union {b}
         /\ UNCHANGED <<main, callVars, recompiling, builderVars, ionWorklist,
                        interrupt, threadVars>>
<1>1. lazyLinkList' = <<b>> \o lazyLinkList /\ lazyLinkList \in Seq(Builders)
  BY DEF AttachFinishedBuilder, TypeOK
<1>2. Range(lazyLinkList') = Range(lazyLinkList) \union {b}
  <2>1. /\ DOMAIN lazyLinkList = 1..Len(lazyLinkList)
        /\ DOMAIN lazyLinkList' = 1..Len(lazyLinkList) + 1
        /\ Len(lazyLinkList) \in Nat
        /\ lazyLinkList'[1] = b
        /\ \A k \in 1..Len(lazyLinkList) : lazyLinkList'[k + 1] = lazyLinkList[k]
    BY <1>1
  <2>2. \A k \in 1..Len(lazyLinkList) + 1 :
          k = 1 \/ (k - 1 \in 1..Len(lazyLinkList) /\ k = (k - 1) + 1)
    BY <2>1
  <2>3. Range(lazyLinkList') \subseteq Range(lazyLinkList) \union {b}
    <3> SUFFICES ASSUME NEW k \in 1..Len(lazyLinkList) + 1
                 PROVE  lazyLinkList'[k] \in Range(lazyLinkList) \union {b}
      BY <2>1 DEF Range
    <3>1. CASE k = 1
      BY <2>1, <3>1
    <3>2. CASE k - 1 \in 1..Len(lazyLinkList) /\ k = (k - 1) + 1
      <4>1. lazyLinkList'[k] = lazyLinkList[k - 1]
        BY <2>1, <3>2
      <4>2. QED
        BY <2>1, <3>2, <4>1 DEF Range
    <3>3. QED
      BY <2>2, <3>1, <3>2
  <2>4. b \in Range(lazyLinkList')
    BY <2>1 DEF Range
  <2>5. Range(lazyLinkList) \subseteq Range(lazyLinkList')
    <3> SUFFICES ASSUME NEW k \in 1..Len(lazyLinkList)
                 PROVE  lazyLinkList[k] \in Range(lazyLinkList')
      BY <2>1 DEF Range
    <3>1. k + 1 \in DOMAIN lazyLinkList'
      BY <2>1
    <3>2. QED
      BY <2>1, <3>1 DEF Range
  <2>6. QED
    BY <2>3, <2>4, <2>5
<1>3. QED
  BY <1>2 DEF AttachFinishedBuilder, Lazy

LEMMA FinishLinkStep ==
  ASSUME TypeOK, OneBuilderPerScript, FinishLink
  PROVE  LET s == script[linking] IN
         /\ main = "link"
         /\ linking \in Builders
         /\ s \in Scripts
         /\ LockFree
         /\ main' = linkReturn
         /\ linkReturn' = "js"
         /\ linking' = None
         /\ Delete({linking})
         /\ \A r \in Scripts : r # s => ion'[r] = ion[r] /\ recompiling'[r] = recompiling[r]
         /\ ion'[s] \in {"ion", ion[s]}
         /\ UNCHANGED <<cancelReturn, selected, afterCancel, pendingBuilder, started,
                        ionWorklist, finishedList, lazyLinkList, interrupt, threadVars>>
<1>1. main = "link" /\ linking \in Builders /\ script[linking] \in Scripts
  BY Places DEF FinishLink, TypeOK
<1>2. /\ \A r \in Scripts : r # script[linking] =>
           ion'[r] = ion[r] /\ recompiling'[r] = recompiling[r]
      /\ ion'[script[linking]] \in {"ion", ion[script[linking]]}
  BY <1>1 DEF FinishLink, TypeOK
<1>3. QED
  BY <1>1, <1>2 DEF FinishLink

LEMMA WaitStep ==
  ASSUME CancelOffThreadIonCompile, CancelInProgress
  PROVE  /\ main \in {"cancel", "cancelWoken"}
         /\ LockFree
         /\ InProgress # {}
         /\ ionWorklist' = ionWorklist \ BuildersOf(selected, ionWorklist)
         /\ finishedList' = finishedList \union BuildersOf(selected, ionWorklist)
         /\ pause' = [t \in Threads |-> pause[t] /\ t \notin InProgress]
         /\ IF \E t \in InProgress : pause[t] THEN NotifyAllPaused ELSE UNCHANGED helper
         /\ main' = "cancelWait"
         /\ UNCHANGED <<callVars, scriptVars, builderVars, lazyLinkList, interrupt,
                        ionBuilder, terminate>>
BY DEF CancelOffThreadIonCompile, CancelInProgress, WaitAgain

LEMMA CancelledStep ==
  ASSUME TypeOK, CancelOffThreadIonCompile, CancelFinished
  PROVE  LET finished == BuildersOf(selected, finishedList \union ionWorklist)
             lazy == BuildersOf(selected, Lazy) IN
         /\ main \in {"cancel", "cancelWoken"}
         /\ LockFree
         /\ InProgress = {}
         /\ ionWorklist' = ionWorklist \ BuildersOf(selected, ionWorklist)
         /\ FinishOffThreadBuilder(finished \union lazy)
         /\ finishedList' = finishedList \ finished
         /\ Lazy' = Lazy \ lazy
         /\ main' = "cancelled"
         /\ UNCHANGED <<callVars, interrupt, threadVars, started>>
<1>1. lazyLinkList' = ionLazyLinkListRemove(lazyLinkList, BuildersOf(selected, Lazy))
  BY DEF CancelFinished
<1>2. Lazy' = Lazy \ BuildersOf(selected, Lazy)
  BY <1>1, RemovedList DEF TypeOK, Lazy
<1>3. QED
  BY <1>2 DEF CancelOffThreadIonCompile, CancelFinished, WaitAgain, threadVars

LEMMA StartStep ==
  ASSUME TypeOK, ThreadInv, NEW t \in Threads, StartWorkload(t)
  PROVE  \E b \in ionWorklist :
           /\ AtLoop(t)
           /\ b \in Builders
           /\ ionBuilder[t] = None
           /\ ionWorklist' = ionWorklist \ {b}
           /\ ionBuilder' = [ionBuilder EXCEPT ![t] = b]
           /\ helper' = [helper EXCEPT ![t] = "compile"]
           /\ \/ UNCHANGED pause
              \/ \E other \in Unpaused : pause' = [pause EXCEPT ![other] = TRUE]
           /\ UNCHANGED <<main, callVars, scriptVars, builderVars, finishedList,
                          lazyLinkList, interrupt, terminate>>
<1>1. PICK b \in ionWorklist :
        ionWorklist' = ionWorklist \ {b} /\ ionBuilder' = [ionBuilder EXCEPT ![t] = b]
  BY DEF StartWorkload, highestPriorityPendingIonCompile
<1>2. /\ AtLoop(t)
      /\ helper' = [helper EXCEPT ![t] = "compile"]
      /\ \/ UNCHANGED pause
         \/ \E other \in Unpaused : pause' = [pause EXCEPT ![other] = TRUE]
      /\ UNCHANGED <<main, callVars, scriptVars, builderVars, finishedList,
                     lazyLinkList, interrupt, terminate>>
  BY DEF StartWorkload, lowestPriorityUnpausedIonCompileAtThreshold
<1>3. ionBuilder[t] = None /\ b \in Builders
  BY <1>2 DEF AtLoop, ThreadInv, Compiling, TypeOK
<1>4. QED
  BY <1>1, <1>2, <1>3

LEMMA FinishStep ==
  ASSUME TypeOK, ThreadInv, NEW t \in Threads, FinishWorkload(t)
  PROVE  /\ helper[t] = "compile"
         /\ LockFree
         /\ ionBuilder[t] \in Builders
         /\ finishedList' = finishedList \union {ionBuilder[t]}
         /\ ionBuilder' = [ionBuilder EXCEPT ![t] = None]
         /\ interrupt' = TRUE
         /\ main' = IF main = "cancelWait" THEN "cancelWoken" ELSE main
         /\ UnpauseOther(t)
         /\ UNCHANGED <<callVars, scriptVars, started, script, hadIonScript, warmUp,
                        ionWorklist, lazyLinkList, terminate>>
<1>1. helper[t] = "compile"
  BY DEF FinishWorkload
<1>2. ionBuilder[t] \in Builders
  BY <1>1 DEF ThreadInv, Compiling, TypeOK
<1>3. QED
  BY <1>1, <1>2 DEF FinishWorkload, requestInterrupt, NotifyAllConsumer

LEMMA UnpauseStep ==
  ASSUME TypeOK, NEW t \in Threads, helper[t] = "compile", UnpauseOther(t)
  PROVE  /\ helper'[t] = "top"
         /\ \A u \in Threads : u # t =>
              \/ helper'[u] = helper[u]
              \/ helper[u] = "paused" /\ helper'[u] = "resumed"
<1>1. CASE helper' = [helper EXCEPT ![t] = "top"]
  BY <1>1 DEF TypeOK
<1>2. CASE helper' = [u \in Threads |-> CASE u = t -> "top"
                                          [] helper[u] = "paused" -> "resumed"
                                          [] OTHER -> helper[u]]
  BY <1>2
<1>3. QED
  BY <1>1, <1>2 DEF UnpauseOther

\* The other steps of a helper thread.
LEMMA LoopStep ==
  ASSUME NEW t \in Threads, ExitLoop(t) \/ WaitForWork(t) \/ PauseCurrentHelperThread(t)
  PROVE  UNCHANGED <<main, callVars, scriptVars, builderVars, ionWorklist, finishedList,
                     lazyLinkList, interrupt, ionBuilder, pause, terminate>>
BY DEF ExitLoop, WaitForWork, PauseCurrentHelperThread

\* A helper thread passes builders on, and the scripts do not notice.
LEMMA ThreadsPassOn ==
  ASSUME TypeOK, ThreadInv, NEW t \in Threads, ThreadStep(t)
  PROVE  /\ OffThread' = OffThread
         /\ main' \in {main, "cancelWoken"}
         /\ main' # main => main = "cancelWait"
         /\ UNCHANGED <<callVars, scriptVars, started, script, hadIonScript, lazyLinkList>>
<1>1. CASE ExitLoop(t) \/ WaitForWork(t) \/ PauseCurrentHelperThread(t)
  BY <1>1, LoopStep DEF OffThread, InThreads, builderVars
<1>2. CASE StartWorkload(t)
  <2>1. PICK b \in ionWorklist :
           /\ b \in Builders
           /\ ionBuilder[t] = None
           /\ ionWorklist' = ionWorklist \ {b}
           /\ ionBuilder' = [ionBuilder EXCEPT ![t] = b]
           /\ UNCHANGED <<main, callVars, scriptVars, builderVars, finishedList,
                          lazyLinkList>>
    BY <1>2, StartStep
  <2>2. InThreads' = InThreads \union {b}
    BY <2>1, NoneIsNone DEF InThreads, TypeOK
  <2>3. QED
    BY <2>1, <2>2 DEF OffThread, builderVars
<1>3. CASE FinishWorkload(t)
  <2>1. /\ ionBuilder[t] \in Builders
        /\ finishedList' = finishedList \union {ionBuilder[t]}
        /\ ionBuilder' = [ionBuilder EXCEPT ![t] = None]
        /\ main' = IF main = "cancelWait" THEN "cancelWoken" ELSE main
        /\ UNCHANGED <<callVars, scriptVars, started, script, hadIonScript,
                        ionWorklist, lazyLinkList>>
    BY <1>3, FinishStep
  <2>2. InThreads \subseteq InThreads' \union {ionBuilder[t]}
    BY <2>1 DEF InThreads, TypeOK
  <2>3. InThreads' \subseteq InThreads /\ ionBuilder[t] \in InThreads
    BY <2>1, NoneIsNone DEF InThreads, TypeOK
  <2>4. QED
    BY <2>1, <2>2, <2>3 DEF OffThread
<1>4. QED
  BY <1>1, <1>2, <1>3 DEF ThreadStep

-----------------------------------------------------------------------------
(***************************************************************************)
(* Where the threads are.                                                  *)
(***************************************************************************)
LEMMA ThreadNext ==
  ASSUME IInv, [Next]_vars
  PROVE  ThreadInv'
<1>1. TypeOK /\ ThreadInv /\ OneBuilderPerScript /\ ScriptStateAgrees
  BY DEF IInv
<1>2. ASSUME UNCHANGED <<helper, ionBuilder>> PROVE ThreadInv'
  BY <1>1, <1>2 DEF ThreadInv, Compiling
<1>3. ASSUME UNCHANGED ionBuilder,
             \A t \in Threads : Compiling(t)' <=> Compiling(t)
      PROVE  ThreadInv'
  BY <1>1, <1>3 DEF ThreadInv
<1>4. CASE Plain \/ Cancel \/ Link \/ MarkCompiling \/ FinishLink \/ AfterCancel
           \/ (\E b \in Builders, count \in 0..MaxWarmUp : WarmUp(b, count))
           \/ (\E s \in Scripts : AbortRecompile(s))
           \/ (\E b \in Builders : AttachFinishedBuilder(b))
  <2>1. CASE Plain \/ Cancel \/ Link
    BY <1>1, <1>2, <2>1, PlainStep, CancelCall, LinkStep DEF threadVars
  <2>2. QED
    BY <1>2, <1>4, <2>1 DEF MarkCompiling, FinishLink, AfterCancel, WarmUp,
       AbortRecompile, AttachFinishedBuilder, threadVars
<1>5. ASSUME NEW s \in Scripts, NEW recompile \in BOOLEAN, IonCompile(s, recompile)
      PROVE  ThreadInv'
  <2>1. NotifyOneProducer /\ UNCHANGED ionBuilder
    BY <1>1, <1>5, CompileStep
  <2>2. \A t \in Threads : Compiling(t)' <=> Compiling(t)
    BY <1>1, <2>1 DEF NotifyOneProducer, Compiling, TypeOK
  <2>3. QED
    BY <1>3, <2>1, <2>2
<1>6. CASE CancelOffThreadIonCompile
  <2>1. UNCHANGED ionBuilder /\ (NotifyAllPaused \/ UNCHANGED helper)
    BY <1>6 DEF CancelOffThreadIonCompile, CancelInProgress, CancelFinished
  <2>2. \A t \in Threads : Compiling(t)' <=> Compiling(t)
    BY <1>1, <2>1 DEF NotifyAllPaused, Compiling, TypeOK
  <2>3. QED
    BY <1>3, <2>1, <2>2
<1>7. ASSUME NEW t \in Threads, destroy(t) \/ ExitLoop(t) \/ WaitForWork(t)
             \/ PauseCurrentHelperThread(t)
      PROVE  ThreadInv'
  <2>1. UNCHANGED ionBuilder
    BY <1>7 DEF destroy, ExitLoop, WaitForWork, PauseCurrentHelperThread
  <2>2. \A u \in Threads : Compiling(u)' <=> Compiling(u)
    BY <1>1, <1>7 DEF destroy, ExitLoop, WaitForWork, PauseCurrentHelperThread, AtLoop,
                      Compiling, TypeOK
  <2>3. QED
    BY <1>3, <2>1, <2>2
<1>8. ASSUME NEW t \in Threads, StartWorkload(t) PROVE ThreadInv'
  <2>1. PICK b \in Builders : /\ ionBuilder' = [ionBuilder EXCEPT ![t] = b]
                              /\ helper' = [helper EXCEPT ![t] = "compile"]
    BY <1>1, <1>8, StartStep
  <2>2. QED
    BY <1>1, <2>1, NoneIsNone DEF ThreadInv, Compiling, TypeOK
<1>9. ASSUME NEW t \in Threads, FinishWorkload(t) PROVE ThreadInv'
  <2>1. /\ helper[t] = "compile"
        /\ UnpauseOther(t)
        /\ ionBuilder' = [ionBuilder EXCEPT ![t] = None]
    BY <1>1, <1>9, FinishStep
  <2>2. /\ helper'[t] = "top"
        /\ \A u \in Threads : u # t => (Compiling(u)' <=> Compiling(u))
    BY <1>1, <2>1, UnpauseStep DEF Compiling
  <2>3. QED
    BY <1>1, <2>1, <2>2 DEF ThreadInv, Compiling, TypeOK
<1>10. QED
  BY <1>1, <1>4, <1>5, <1>6, <1>7, <1>8, <1>9, Cases DEF ThreadStep

LEMMA TerminateNext ==
  ASSUME IInv, [Next]_vars
  PROVE  TerminateInv'
<1>1. TypeOK /\ ThreadInv /\ OneBuilderPerScript /\ ScriptStateAgrees /\ TerminateInv
  BY DEF IInv
<1>2. ASSUME \A t \in Threads : terminate'[t] => terminate[t],
             \A t \in Threads : helper'[t] = "exited" => terminate'[t],
             Loaded' => Loaded
      PROVE  TerminateInv'
  BY <1>1, <1>2 DEF TerminateInv
<1>3. CASE Plain \/ Cancel \/ Link
  <2>1. UNCHANGED <<helper, terminate>>
    BY <1>1, <1>3, PlainStep, CancelCall, LinkStep DEF threadVars
  <2>2. Loaded' => Loaded
    BY <1>1, <1>3, CancelCall, LinkStep DEF Loaded, Plain, handleInterrupt, Unload,
       AttachLock, AttachDone, finishThreads, vars
  <2>3. QED
    BY <1>1, <2>1, <2>2 DEF TerminateInv
<1>4. CASE MarkCompiling \/ FinishLink \/ AfterCancel
           \/ (\E b \in Builders, count \in 0..MaxWarmUp : WarmUp(b, count))
           \/ (\E s \in Scripts : AbortRecompile(s))
           \/ (\E b \in Builders : AttachFinishedBuilder(b))
  <2>1. UNCHANGED <<helper, terminate>> /\ Loaded
    BY <1>4 DEF MarkCompiling, FinishLink, AfterCancel, WarmUp, Compile,
       AbortRecompile, AttachFinishedBuilder, threadVars, Loaded
  <2>2. QED
    BY <1>1, <2>1 DEF TerminateInv
<1>5. CASE CancelOffThreadIonCompile
           \/ \E s \in Scripts, recompile \in BOOLEAN : IonCompile(s, recompile)
  <2>1. UNCHANGED terminate /\ Loaded
    BY <1>5 DEF CancelOffThreadIonCompile, IonCompile, Compile, Loaded
  <2>2. UNCHANGED helper \/ NotifyAllPaused \/ NotifyOneProducer
    BY <1>5 DEF CancelOffThreadIonCompile, CancelInProgress, CancelFinished, IonCompile
  <2>3. \A t \in Threads : helper'[t] = "exited" => helper[t] = "exited"
    BY <1>1, <2>2 DEF NotifyAllPaused, NotifyOneProducer, TypeOK
  <2>4. QED
    BY <1>1, <2>1, <2>3 DEF TerminateInv
<1>6. ASSUME NEW t \in Threads, destroy(t) PROVE TerminateInv'
  <2>1. /\ main = "unload"
        /\ UNCHANGED main
        /\ terminate' = [terminate EXCEPT ![t] = TRUE]
        /\ helper' = [u \in Threads |-> IF helper[u] = "idle" THEN "ready" ELSE helper[u]]
    BY <1>6 DEF destroy
  <2>2. QED
    BY <1>1, <2>1 DEF TerminateInv, Loaded, TypeOK
<1>7. ASSUME NEW t \in Threads, ThreadStep(t) PROVE TerminateInv'
  <2>1. UNCHANGED terminate
    BY <1>1, <1>7, LoopStep, StartStep, FinishStep DEF ThreadStep
  <2>2. Loaded' => Loaded
    BY <1>1, <1>7, ThreadsPassOn DEF Loaded
  <2>3. \A u \in Threads : helper'[u] = "exited" => helper[u] = "exited" \/ terminate[u]
    <3>1. CASE ExitLoop(t) \/ WaitForWork(t) \/ PauseCurrentHelperThread(t)
      BY <1>1, <3>1 DEF ExitLoop, WaitForWork, PauseCurrentHelperThread, TypeOK
    <3>2. CASE StartWorkload(t)
      BY <1>1, <3>2 DEF StartWorkload, TypeOK
    <3>3. CASE FinishWorkload(t)
      BY <1>1, <3>3 DEF FinishWorkload, UnpauseOther, TypeOK
    <3>4. QED
      BY <1>7, <3>1, <3>2, <3>3 DEF ThreadStep
  <2>4. QED
    BY <1>1, <2>1, <2>2, <2>3 DEF TerminateInv
<1>8. QED
  BY <1>1, <1>3, <1>4, <1>5, <1>6, <1>7, Cases

LEMMA LinkNext ==
  ASSUME IInv, [Next]_vars
  PROVE  LinkInv'
<1>1. TypeOK /\ ThreadInv /\ OneBuilderPerScript /\ ScriptStateAgrees /\ LinkInv
  BY DEF IInv
<1>2. CASE Plain
  BY <1>1, <1>2, PlainStep DEF LinkInv, Cancelling, Plain, handleInterrupt, Unload,
     AttachLock, AttachDone, finishThreads, vars, callVars
<1>3. CASE Cancel
  BY <1>1, <1>3, CancelCall DEF LinkInv, Cancelling
<1>4. CASE Link
  <2>1. /\ main \in {"js", "attach"}
        /\ main' = "link"
        /\ linking' \in Builders
        /\ UNCHANGED cancelReturn
    BY <1>1, <1>4, LinkStep
  <2>2. QED
    BY <1>1, <2>1, NoneIsNone DEF LinkInv, Cancelling
<1>5. CASE MarkCompiling \/ CancelOffThreadIonCompile
           \/ (\E b \in Builders, count \in 0..MaxWarmUp : WarmUp(b, count))
           \/ (\E s \in Scripts : AbortRecompile(s))
           \/ (\E s \in Scripts, recompile \in BOOLEAN : IonCompile(s, recompile))
           \/ (\E b \in Builders : AttachFinishedBuilder(b))
  <2>1. /\ UNCHANGED <<cancelReturn, linking, linkReturn>>
        /\ main # "link" /\ main' # "link"
        /\ Cancelling => Cancelling'
    BY <1>5 DEF MarkCompiling, CancelOffThreadIonCompile, CancelInProgress, CancelFinished,
       WarmUp, AbortRecompile, IonCompile, Compile, AttachFinishedBuilder, callVars,
       Cancelling
  <2>2. QED
    BY <1>1, <2>1 DEF LinkInv
<1>6. CASE FinishLink
  BY <1>1, <1>6, FinishLinkStep DEF LinkInv, Cancelling, TypeOK
<1>7. CASE AfterCancel
  BY <1>1, <1>7 DEF AfterCancel, LinkInv, Cancelling, TypeOK
<1>8. ASSUME NEW t \in Threads, destroy(t) PROVE LinkInv'
  BY <1>1, <1>8 DEF destroy, callVars, LinkInv, Cancelling
<1>9. ASSUME NEW t \in Threads, ThreadStep(t) PROVE LinkInv'
  BY <1>1, <1>9, ThreadsPassOn DEF callVars, LinkInv, Cancelling
<1>10. QED
  BY <1>1, <1>2, <1>3, <1>4, <1>5, <1>6, <1>7, <1>8, <1>9, Cases

LEMMA MarkNext ==
  ASSUME IInv, [Next]_vars
  PROVE  MarkInv'
<1>1. TypeOK /\ ThreadInv /\ OneBuilderPerScript /\ ScriptStateAgrees /\ MarkInv
  BY DEF IInv
<1>2. SUFFICES ASSUME main' = "mark" PROVE MarkInv'
  BY DEF MarkInv
<1>3. \/ \E s \in Scripts : IonCompile(s, FALSE)
      \/ UNCHANGED vars
      \/ \E t \in Threads : ThreadStep(t)
  <2>1. ~Cancel /\ ~Link
    BY <1>1, <1>2, CancelCall, LinkStep
  <2>2. Plain => UNCHANGED vars
    BY <1>2 DEF Plain, handleInterrupt, Unload, AttachLock, AttachDone, finishThreads
  <2>3. \A s \in Scripts, recompile \in BOOLEAN :
          IonCompile(s, recompile) => recompile = FALSE
    BY <1>2 DEF IonCompile
  <2>4. /\ ~MarkCompiling
        /\ ~FinishLink
        /\ ~CancelOffThreadIonCompile
        /\ ~AfterCancel
        /\ ~\E b \in Builders, count \in 0..MaxWarmUp : WarmUp(b, count)
        /\ ~\E s \in Scripts : AbortRecompile(s)
        /\ ~\E b \in Builders : AttachFinishedBuilder(b)
        /\ ~\E t \in Threads : destroy(t)
    BY <1>1, <1>2 DEF MarkCompiling, FinishLink, CancelOffThreadIonCompile,
       CancelInProgress, CancelFinished, AfterCancel, WarmUp, AbortRecompile, Compile,
       AttachFinishedBuilder, destroy, TypeOK
  <2>5. QED
    BY <1>1, <2>1, <2>2, <2>3, <2>4, Cases
<1>4. ASSUME NEW s \in Scripts, IonCompile(s, FALSE) PROVE MarkInv'
  <2>1. /\ started' \in Builders
        /\ script' = [script EXCEPT ![started'] = s]
        /\ hadIonScript' = [hadIonScript EXCEPT ![started'] = FALSE]
        /\ ionWorklist' = ionWorklist \union {started'}
        /\ UNCHANGED ion
        /\ Compile(s, FALSE)
    BY <1>1, <1>4, CompileStep
  <2>2. ion[s] = "none"
    BY <2>1 DEF Compile
  <2>3. started' \in OffThread'
    BY <2>1 DEF OffThread
  <2>4. QED
    BY <1>1, <2>1, <2>2, <2>3 DEF MarkInv, TypeOK
<1>5. CASE UNCHANGED vars
  BY <1>1, <1>5 DEF MarkInv, vars, builderVars, scriptVars, threadVars, OffThread,
     InThreads
<1>6. ASSUME NEW t \in Threads, ThreadStep(t) PROVE MarkInv'
  BY <1>1, <1>2, <1>6, ThreadsPassOn DEF MarkInv, scriptVars
<1>7. QED
  BY <1>3, <1>4, <1>5, <1>6

LEMMA FreshNext ==
  ASSUME IInv, [Next]_vars
  PROVE  FreshInv'
<1>1. TypeOK /\ ThreadInv /\ OneBuilderPerScript /\ ScriptStateAgrees /\ FreshInv
  BY DEF IInv
<1>2. ASSUME UNCHANGED started,
             \A b \in Builders : script'[b] \in {script[b], None}
      PROVE  FreshInv'
  BY <1>1, <1>2 DEF FreshInv
<1>3. CASE Plain \/ Cancel \/ Link
  BY <1>1, <1>2, <1>3, PlainStep, CancelCall, LinkStep DEF builderVars
<1>4. CASE MarkCompiling \/ AfterCancel
           \/ (\E b \in Builders, count \in 0..MaxWarmUp : WarmUp(b, count))
           \/ (\E s \in Scripts : AbortRecompile(s))
           \/ (\E b \in Builders : AttachFinishedBuilder(b))
           \/ (\E t \in Threads : destroy(t))
  BY <1>2, <1>4 DEF MarkCompiling, AfterCancel, WarmUp, AbortRecompile,
     AttachFinishedBuilder, destroy, builderVars
<1>5. ASSUME NEW s \in Scripts, NEW recompile \in BOOLEAN, IonCompile(s, recompile)
      PROVE  FreshInv'
  <2>1. /\ started' = started + 1
        /\ script' = [script EXCEPT ![started'] = s]
    BY <1>1, <1>5, CompileStep
  <2>2. QED
    BY <1>1, <2>1 DEF FreshInv, TypeOK, Builders
<1>6. CASE FinishLink \/ CancelOffThreadIonCompile
  <2>1. UNCHANGED started /\ (UNCHANGED script \/ \E builders : Delete(builders))
    BY <1>6 DEF FinishLink, CancelOffThreadIonCompile, CancelInProgress, CancelFinished,
       FinishOffThreadBuilder, builderVars
  <2>2. QED
    BY <1>2, <2>1 DEF Delete
<1>7. ASSUME NEW t \in Threads, ThreadStep(t) PROVE FreshInv'
  BY <1>1, <1>2, <1>7, ThreadsPassOn
<1>8. QED
  BY <1>1, <1>3, <1>4, <1>5, <1>6, <1>7, Cases

-----------------------------------------------------------------------------
(***************************************************************************)
(* Where the builders are.                                                 *)
(***************************************************************************)

\* A script that may be compiled has no builder.
LEMMA CompileFree ==
  ASSUME TypeOK, LinkInv, OneBuilderPerScript, ScriptStateAgrees,
         NEW s \in Scripts, NEW force \in BOOLEAN, Compile(s, force)
  PROVE  \A b \in Builders : script[b] # s
<1> SUFFICES ASSUME NEW b \in Builders, script[b] = s PROVE FALSE
  OBVIOUS
<1>1. main = "js" /\ linking = None
  BY DEF Compile, LinkInv, Cancelling
<1>2. b \in OffThread \/ b \in Lazy
  BY <1>1, NoneIsNone DEF OneBuilderPerScript
<1>3. CASE b \in OffThread /\ ~hadIonScript[b]
  BY <1>1, <1>3 DEF ScriptStateAgrees, Compile
<1>4. CASE b \in Lazy /\ ~hadIonScript[b]
  BY <1>1, <1>4 DEF ScriptStateAgrees, Compile
<1>5. CASE hadIonScript[b]
  BY <1>2, <1>5 DEF ScriptStateAgrees, Compile
<1>6. QED
  BY <1>2, <1>3, <1>4, <1>5

LEMMA PlacesNext ==
  ASSUME IInv, [Next]_vars
  PROVE  OneBuilderPerScript'
<1>1. /\ TypeOK /\ ThreadInv /\ OneBuilderPerScript /\ ScriptStateAgrees /\ LinkInv
      /\ FreshInv
  BY DEF IInv
<1>2. ASSUME UNCHANGED <<ionBuilder, ionWorklist, finishedList, lazyLinkList, linking,
                         script>>
      PROVE  OneBuilderPerScript'
  BY <1>1, <1>2 DEF OneBuilderPerScript, OffThread, InThreads, Lazy
<1>3. CASE Plain \/ Cancel
  BY <1>2, <1>3, PlainStep, CancelCall DEF callVars, builderVars, threadVars
<1>4. CASE MarkCompiling \/ AfterCancel
           \/ (\E b \in Builders, count \in 0..MaxWarmUp : WarmUp(b, count))
           \/ (\E s \in Scripts : AbortRecompile(s))
           \/ (\E t \in Threads : destroy(t))
  BY <1>2, <1>4 DEF MarkCompiling, AfterCancel, WarmUp, AbortRecompile, destroy,
     callVars, builderVars, threadVars
<1>5. CASE Link
  <2>1. PICK s \in Scripts, b \in Builders :
          /\ pendingBuilder[s] = b
          /\ main \in {"js", "attach"}
          /\ linking' = b
          /\ Lazy' = Lazy \ {b}
          /\ UNCHANGED <<ionBuilder, ionWorklist, finishedList, script>>
    BY <1>1, <1>5, LinkStep DEF builderVars, threadVars
  <2>2. b \in Lazy /\ linking = None
    BY <1>1, <2>1 DEF ScriptStateAgrees, LinkInv, Cancelling
  <2>3. UNCHANGED <<OffThread, InThreads>>
    BY <2>1 DEF OffThread, InThreads
  <2>4. QED
    BY <1>1, <2>1, <2>2, <2>3, NoneIsNone DEF OneBuilderPerScript
<1>6. ASSUME NEW s \in Scripts, NEW recompile \in BOOLEAN, IonCompile(s, recompile)
      PROVE  OneBuilderPerScript'
  <2>1. PICK n \in Builders :
          /\ n = started + 1
          /\ Compile(s, recompile)
          /\ script' = [script EXCEPT ![n] = s]
          /\ ionWorklist' = ionWorklist \union {n}
          /\ UNCHANGED <<linking, finishedList, lazyLinkList, ionBuilder>>
    BY <1>1, <1>6, CompileStep DEF callVars
  <2>2. /\ script[n] = None
        /\ \A b \in Builders : script[b] # s
    <3>1. \A c \in Builders : script[c] # s
      BY <1>1, <2>1, CompileFree
    <3>2. started \in Nat
      BY <1>1, IonCompileAssumption DEF TypeOK
    <3>3. script[n] = None
      BY <1>1, <2>1, <3>2 DEF FreshInv
    <3>4. QED
      BY <3>1, <3>3
  <2>3. n \notin OffThread /\ n \notin Lazy /\ n # linking /\ n # None
    BY <1>1, <2>2, NoneIsNone DEF OneBuilderPerScript
  <2>4. /\ OffThread' = OffThread \union {n}
        /\ UNCHANGED <<InThreads, Lazy>>
        /\ n \notin InThreads /\ n \notin finishedList
    BY <2>1, <2>3 DEF OffThread, InThreads, Lazy
  <2>5. /\ script'[n] = s
        /\ \A b \in Builders : b # n => script'[b] = script[b]
    BY <1>1, <2>1 DEF TypeOK
  <2>6. \A b, c \in Builders : script'[b] = script'[c] /\ script'[b] # None => b = c
    BY <1>1, <2>2, <2>5 DEF OneBuilderPerScript
  <2>7. {b \in Builders : script'[b] # None} = {b \in Builders : script[b] # None} \union {n}
    BY <2>5, NoneIsNone
  <2>8. QED
    BY <1>1, <2>1, <2>3, <2>4, <2>6, <2>7 DEF OneBuilderPerScript
<1>7. ASSUME NEW b \in Builders, AttachFinishedBuilder(b) PROVE OneBuilderPerScript'
  <2>1. /\ b \in finishedList
        /\ finishedList' = finishedList \ {b}
        /\ Lazy' = Lazy \union {b}
        /\ UNCHANGED <<ionBuilder, ionWorklist, script, linking>>
    BY <1>1, <1>7, AttachStep DEF callVars, builderVars, threadVars
  <2>2. UNCHANGED InThreads /\ OffThread' = OffThread \ {b} /\ b \in OffThread
    BY <1>1, <2>1 DEF OffThread, InThreads, OneBuilderPerScript
  <2>3. QED
    BY <1>1, <2>1, <2>2 DEF OneBuilderPerScript
<1>8. CASE FinishLink
  <2>1. /\ linking \in Builders
        /\ linking' = None
        /\ Delete({linking})
        /\ UNCHANGED <<ionBuilder, ionWorklist, finishedList, lazyLinkList>>
    BY <1>1, <1>8, FinishLinkStep DEF threadVars
  <2>2. UNCHANGED <<OffThread, InThreads, Lazy>>
    BY <2>1 DEF OffThread, InThreads, Lazy
  <2>3. script' = [b \in Builders |-> IF b \in {linking} THEN None ELSE script[b]]
    BY <2>1 DEF Delete
  <2>4. /\ \A b, c \in Builders : script'[b] = script'[c] /\ script'[b] # None => b = c
        /\ {b \in Builders : script'[b] # None}
             = {b \in Builders : script[b] # None} \ {linking}
    BY <1>1, <2>1, <2>3 DEF OneBuilderPerScript
  <2>5. None \notin OffThread \union Lazy
    BY <1>1, Places, NoneIsNone
  <2>6. QED
    BY <1>1, <2>1, <2>2, <2>4, <2>5 DEF OneBuilderPerScript
<1>9. CASE CancelOffThreadIonCompile /\ CancelInProgress
  <2>1. /\ ionWorklist' = ionWorklist \ BuildersOf(selected, ionWorklist)
        /\ finishedList' = finishedList \union BuildersOf(selected, ionWorklist)
        /\ UNCHANGED <<linking, script, lazyLinkList, ionBuilder>>
    BY <1>9, WaitStep DEF callVars, builderVars
  <2>2. /\ UNCHANGED <<InThreads, Lazy>>
        /\ BuildersOf(selected, ionWorklist) \subseteq ionWorklist
    BY <2>1 DEF InThreads, Lazy, BuildersOf
  <2>3. OffThread' = OffThread
    BY <2>1, <2>2 DEF OffThread
  <2>4. QED
    BY <1>1, <2>1, <2>2, <2>3 DEF OneBuilderPerScript
<1>10. CASE CancelOffThreadIonCompile /\ CancelFinished
  <2> DEFINE finished == BuildersOf(selected, finishedList \union ionWorklist)
             lazy == BuildersOf(selected, Lazy)
             dead == finished \union lazy
  <2>1. /\ ionWorklist' = ionWorklist \ BuildersOf(selected, ionWorklist)
        /\ FinishOffThreadBuilder(dead)
        /\ finishedList' = finishedList \ finished
        /\ Lazy' = Lazy \ lazy
        /\ UNCHANGED <<linking, ionBuilder>>
    BY <1>1, <1>10, CancelledStep DEF callVars, threadVars
  <2>2. script' = [b \in Builders |-> IF b \in dead THEN None ELSE script[b]]
    BY <2>1 DEF FinishOffThreadBuilder, Delete
  <2>3. /\ finished \subseteq finishedList \union ionWorklist
        /\ lazy \subseteq Lazy
        /\ BuildersOf(selected, ionWorklist) = finished \intersect ionWorklist
    BY DEF BuildersOf
  <2> HIDE DEF finished, lazy
  <2>4. /\ UNCHANGED InThreads
        /\ linking \notin dead
        /\ dead \intersect InThreads = {}
        /\ lazy \intersect OffThread = {}
        /\ finished \intersect Lazy = {}
    BY <1>1, <2>1, <2>3 DEF OneBuilderPerScript, OffThread, InThreads
  <2>5. OffThread' = OffThread \ dead /\ Lazy' = Lazy \ dead
    BY <2>1, <2>3, <2>4 DEF OffThread
  <2>6. /\ \A b, c \in Builders : script'[b] = script'[c] /\ script'[b] # None => b = c
        /\ {b \in Builders : script'[b] # None}
             = {b \in Builders : script[b] # None} \ dead
    BY <1>1, <2>2 DEF OneBuilderPerScript
  <2>7. QED
    BY <1>1, <2>1, <2>4, <2>5, <2>6 DEF OneBuilderPerScript
<1>11. ASSUME NEW t \in Threads, ThreadStep(t) PROVE OneBuilderPerScript'
  <2>1. /\ OffThread' = OffThread
        /\ UNCHANGED <<linking, script, lazyLinkList, Lazy>>
    BY <1>1, <1>11, ThreadsPassOn DEF callVars, Lazy
  <2>2. CASE ExitLoop(t) \/ WaitForWork(t) \/ PauseCurrentHelperThread(t)
    BY <1>2, <2>2, LoopStep DEF callVars, builderVars
  <2>3. CASE StartWorkload(t)
    <3>1. PICK b \in ionWorklist :
            /\ b \in Builders
            /\ ionBuilder[t] = None
            /\ ionWorklist' = ionWorklist \ {b}
            /\ ionBuilder' = [ionBuilder EXCEPT ![t] = b]
            /\ UNCHANGED finishedList
      BY <1>1, <2>3, StartStep
    <3>2. InThreads' = InThreads \union {b}
      BY <1>1, <3>1, NoneIsNone DEF InThreads, TypeOK
    <3>3. \A u \in Threads : ionBuilder[u] # b
      BY <1>1, <3>1, NoneIsNone DEF OneBuilderPerScript, InThreads
    <3>4. \A u, v \in Threads : ionBuilder'[u] = ionBuilder'[v] /\ ionBuilder'[u] # None
            => u = v
      BY <1>1, <3>1, <3>3 DEF OneBuilderPerScript, TypeOK
    <3>5. QED
      BY <1>1, <2>1, <3>1, <3>2, <3>4 DEF OneBuilderPerScript
  <2>4. CASE FinishWorkload(t)
    <3>1. /\ ionBuilder[t] \in Builders
          /\ finishedList' = finishedList \union {ionBuilder[t]}
          /\ ionBuilder' = [ionBuilder EXCEPT ![t] = None]
          /\ UNCHANGED ionWorklist
      BY <1>1, <2>4, FinishStep
    <3>2. InThreads' \subseteq InThreads \ {ionBuilder[t]} /\ ionBuilder[t] \in InThreads
      BY <1>1, <3>1, NoneIsNone DEF InThreads, TypeOK, OneBuilderPerScript
    <3>3. \A u, v \in Threads : ionBuilder'[u] = ionBuilder'[v] /\ ionBuilder'[u] # None
            => u = v
      BY <1>1, <3>1 DEF OneBuilderPerScript, TypeOK
    <3>4. QED
      BY <1>1, <2>1, <3>1, <3>2, <3>3 DEF OneBuilderPerScript
  <2>5. QED
    BY <1>11, <2>2, <2>3, <2>4 DEF ThreadStep
<1>12. QED
  BY <1>1, <1>3, <1>4, <1>5, <1>6, <1>7, <1>8, <1>9, <1>10, <1>11, Cases
     DEF CancelOffThreadIonCompile

-----------------------------------------------------------------------------
(***************************************************************************)
(* What the scripts say.                                                   *)
(***************************************************************************)

\* What ScriptStateAgrees says of one script.
Compiles(s) == \E b \in OffThread : script[b] = s /\ ~hadIonScript[b]

Waits(s) == \E b \in Lazy : script[b] = s /\ ~hadIonScript[b]

Agrees(s) ==
  /\ (main = "mark" /\ script[started] = s) \/ (ion[s] = "compiling" <=> Compiles(s))
  /\ ion[s] = "pending" <=> Waits(s)
  /\ \A b \in OffThread \union Lazy :
       script[b] = s /\ hadIonScript[b] => ion[s] = "ion" /\ recompiling[s]
  /\ \A b \in Builders : pendingBuilder[s] = b <=> b \in Lazy /\ script[b] = s

LEMMA AgreesAll == ScriptStateAgrees <=> \A s \in Scripts : Agrees(s)
BY DEF ScriptStateAgrees, Agrees, Compiles, Waits

LEMMA AgreesNext ==
  ASSUME IInv, [Next]_vars
  PROVE  ScriptStateAgrees'
<1>1. /\ TypeOK /\ ThreadInv /\ OneBuilderPerScript /\ ScriptStateAgrees /\ LinkInv
      /\ FreshInv /\ MarkInv /\ CancelComplete
  BY DEF IInv
<1>2. \A s \in Scripts : Agrees(s)
  BY <1>1, AgreesAll
<1>3. TypeOK' /\ OneBuilderPerScript'
  BY TypeNext, PlacesNext
<1>4. SUFFICES \A s \in Scripts : Agrees(s)'
  BY DEF ScriptStateAgrees, Agrees, Compiles, Waits
<1>5. /\ OffThread \subseteq Builders
      /\ Lazy \subseteq Builders
      /\ \A b \in OffThread \union Lazy : script[b] \in Scripts
  BY <1>1, Places
<1> DEFINE Goal == \A s \in Scripts : Agrees(s)'
<1>6. ASSUME UNCHANGED <<OffThread, Lazy, script, hadIonScript, ion, recompiling,
                         pendingBuilder, started>>,
             main = "mark" => main' = "mark"
      PROVE  Goal
  BY <1>2, <1>6 DEF Agrees, Compiles, Waits
<1>7. CASE Plain \/ Cancel
  <2>1. UNCHANGED <<OffThread, Lazy, script, hadIonScript, ion, recompiling,
                    pendingBuilder, started>>
    BY <1>7, PlainStep, CancelCall DEF builderVars, scriptVars, threadVars, OffThread,
       InThreads, Lazy
  <2>2. main = "mark" => main' = "mark"
    BY <1>7, CancelCall DEF Plain, handleInterrupt, Unload, AttachLock, AttachDone,
       finishThreads, vars
  <2>3. QED
    BY <1>6, <2>1, <2>2
<1>8. CASE Link
  <2>1. PICK s \in Scripts, b \in Builders :
          /\ pendingBuilder[s] = b
          /\ main \in {"js", "attach"}
          /\ main' = "link"
          /\ pendingBuilder' = [pendingBuilder EXCEPT ![s] = None]
          /\ Lazy' = Lazy \ {b}
          /\ \A r \in Scripts : r # s => ion'[r] = ion[r] /\ recompiling'[r] = recompiling[r]
          /\ (ion'[s] = ion[s] /\ ion[s] # "pending") \/ ion'[s] = "none"
          /\ UNCHANGED <<ionBuilder, ionWorklist, finishedList, script, hadIonScript,
                         started>>
    BY <1>1, <1>8, LinkStep DEF builderVars, threadVars
  <2>2. UNCHANGED OffThread
    BY <2>1 DEF OffThread, InThreads
  <2>3. b \in Lazy /\ script[b] = s
    BY <1>2, <2>1 DEF Agrees
  <2>4. \A c \in OffThread \union Lazy : script[c] = s => c = b
    BY <1>1, <1>5, <2>3, NoneIsNone DEF OneBuilderPerScript
  <2>5. b \notin OffThread
    BY <1>1, <2>3 DEF OneBuilderPerScript
  <2>6. Agrees(s)'
    <3>1. ion[s] # "compiling"
      BY <1>2, <2>1, <2>4, <2>5 DEF Agrees, Compiles
    <3>2. ion'[s] \notin {"compiling", "pending"}
      BY <2>1, <3>1
    <3>3. \A c \in OffThread' \union Lazy' : script'[c] # s
      BY <2>1, <2>2, <2>4, <2>5
    <3>4. pendingBuilder'[s] = None
      BY <1>1, <2>1 DEF TypeOK
    <3>5. QED
      BY <3>2, <3>3, <3>4, NoneIsNone DEF Agrees, Compiles, Waits
  <2>7. \A r \in Scripts : r # s => Agrees(r)'
    <3> SUFFICES ASSUME NEW r \in Scripts, r # s PROVE Agrees(r)'
      OBVIOUS
    <3>1. /\ ion'[r] = ion[r] /\ recompiling'[r] = recompiling[r]
          /\ pendingBuilder'[r] = pendingBuilder[r]
      BY <1>1, <2>1 DEF TypeOK
    <3>2. Compiles(r)' <=> Compiles(r)
      BY <2>1, <2>2 DEF Compiles
    <3>3. Waits(r)' <=> Waits(r)
      BY <2>1, <2>3 DEF Waits
    <3>4. QED
      BY <1>2, <2>1, <2>2, <2>3, <3>1, <3>2, <3>3 DEF Agrees
  <2>8. QED
    BY <2>6, <2>7
<1>9. ASSUME NEW b \in Builders, NEW count \in 0..MaxWarmUp, WarmUp(b, count) PROVE Goal
  BY <1>6, <1>9 DEF WarmUp, scriptVars, threadVars, OffThread, InThreads, Lazy
<1>10. ASSUME NEW s \in Scripts, NEW recompile \in BOOLEAN, IonCompile(s, recompile)
       PROVE Goal
  <2>1. PICK n \in Builders :
          /\ n = started'
          /\ n = started + 1
          /\ Compile(s, recompile)
          /\ script' = [script EXCEPT ![n] = s]
          /\ hadIonScript' = [hadIonScript EXCEPT ![n] = recompile]
          /\ recompiling' = [recompiling EXCEPT ![s] = recompile]
          /\ ionWorklist' = ionWorklist \union {n}
          /\ main = "js"
          /\ main' = IF recompile THEN "js" ELSE "mark"
          /\ UNCHANGED <<finishedList, lazyLinkList, ionBuilder, ion, pendingBuilder>>
    BY <1>1, <1>10, CompileStep
  <2>2. OffThread' = OffThread \union {n} /\ Lazy' = Lazy
    BY <2>1 DEF OffThread, InThreads, Lazy
  <2>3. /\ \A c \in Builders : script[c] # s
        /\ script[n] = None
    <3>1. \A c \in Builders : script[c] # s
      BY <1>1, <2>1, CompileFree
    <3>2. started \in Nat
      BY <1>1, IonCompileAssumption DEF TypeOK
    <3>3. script[n] = None
      BY <1>1, <2>1, <3>2 DEF FreshInv
    <3>4. QED
      BY <3>1, <3>3
  <2>4. n \notin OffThread /\ n \notin Lazy
    BY <1>5, <2>3, NoneIsNone
  <2>5. /\ script'[n] = s
        /\ hadIonScript'[n] = recompile
        /\ \A c \in Builders : c # n =>
             script'[c] = script[c] /\ hadIonScript'[c] = hadIonScript[c]
    BY <1>1, <2>1 DEF TypeOK
  <2>6. Agrees(s)'
    <3>1. ion[s] # "compiling" /\ ion[s] # "pending" /\ pendingBuilder[s] = None
      <4>1. ~Compiles(s) /\ ~Waits(s)
        BY <1>5, <2>3 DEF Compiles, Waits
      <4>2. pendingBuilder[s] \notin Builders
        BY <1>2, <2>3 DEF Agrees
      <4>3. QED
        BY <1>1, <1>2, <2>1, <4>1, <4>2 DEF Agrees, TypeOK
    <3>2. ~Waits(s)'
      BY <1>5, <2>2, <2>3, <2>4, <2>5 DEF Waits
    <3>3. \A c \in OffThread' \union Lazy' : script'[c] = s => c = n
      BY <1>5, <2>2, <2>3, <2>5
    <3>4. CASE recompile
      <4>1. ion[s] = "ion" /\ recompiling'[s] = TRUE /\ hadIonScript'[n] = TRUE
        BY <1>1, <2>1, <2>5, <3>4 DEF Compile, TypeOK
      <4>2. ~Compiles(s)'
        BY <2>2, <2>4, <3>3, <4>1 DEF Compiles
      <4>3. QED
        BY <2>1, <2>2, <2>4, <3>1, <3>2, <3>3, <4>1, <4>2, NoneIsNone DEF Agrees
    <3>5. CASE ~recompile
      <4>1. main' = "mark" /\ script'[started'] = s /\ ~hadIonScript'[n]
        BY <2>1, <2>5, <3>5
      <4>2. QED
        BY <2>1, <2>2, <2>4, <3>1, <3>2, <3>3, <4>1, NoneIsNone DEF Agrees
    <3>6. QED
      BY <3>4, <3>5
  <2>7. \A r \in Scripts : r # s => Agrees(r)'
    <3> SUFFICES ASSUME NEW r \in Scripts, r # s PROVE Agrees(r)'
      OBVIOUS
    <3>1. /\ ion'[r] = ion[r] /\ recompiling'[r] = recompiling[r]
          /\ pendingBuilder'[r] = pendingBuilder[r]
      BY <1>1, <2>1 DEF TypeOK
    <3>2. Compiles(r)' <=> Compiles(r)
      BY <1>5, <2>2, <2>4, <2>5 DEF Compiles
    <3>3. Waits(r)' <=> Waits(r)
      BY <1>5, <2>2, <2>4, <2>5 DEF Waits
    <3>4. \A c \in OffThread' \union Lazy' : script'[c] = r /\ hadIonScript'[c] =>
            c \in OffThread \union Lazy /\ script[c] = r /\ hadIonScript[c]
      BY <1>5, <2>2, <2>4, <2>5
    <3>5. \A c \in Builders : c \in Lazy' /\ script'[c] = r <=> c \in Lazy /\ script[c] = r
      BY <2>2, <2>4, <2>5
    <3>6. main # "mark"
      BY <2>1
    <3>7. QED
      BY <1>2, <3>1, <3>2, <3>3, <3>4, <3>5, <3>6 DEF Agrees
  <2>8. QED
    BY <2>6, <2>7
<1>11. ASSUME NEW s \in Scripts, AbortRecompile(s) PROVE Goal
  <2>1. /\ UNCHANGED <<OffThread, Lazy, main, script, hadIonScript, ion, pendingBuilder,
                       started>>
        /\ recompiling' = [recompiling EXCEPT ![s] = TRUE]
    BY <1>11 DEF AbortRecompile, builderVars, threadVars, OffThread, InThreads, Lazy
  <2>2. \A r \in Scripts : recompiling[r] => recompiling'[r]
    BY <1>1, <2>1 DEF TypeOK
  <2>3. QED
    BY <1>2, <2>1, <2>2 DEF Agrees, Compiles, Waits
<1>12. CASE MarkCompiling
  <2>1. PICK s \in Scripts :
          /\ s = script[started]
          /\ ion' = [ion EXCEPT ![s] = "compiling"]
          /\ started \in OffThread
          /\ ~hadIonScript[started]
          /\ ion[s] = "none"
    BY <1>1, <1>12 DEF MarkCompiling, MarkInv
  <2>2. UNCHANGED <<OffThread, Lazy, script, hadIonScript, recompiling, pendingBuilder,
                    started>>
    BY <1>12 DEF MarkCompiling, builderVars, threadVars, OffThread, InThreads, Lazy
  <2>3. Compiles(s)
    BY <2>1 DEF Compiles
  <2>4. \A r \in Scripts : (Compiles(r)' <=> Compiles(r)) /\ (Waits(r)' <=> Waits(r))
    BY <2>2 DEF Compiles, Waits
  <2>5. ion'[s] = "compiling" /\ \A r \in Scripts : r # s => ion'[r] = ion[r]
    BY <1>1, <2>1 DEF TypeOK
  <2>6. Agrees(s)'
    BY <1>2, <2>1, <2>2, <2>3, <2>4, <2>5 DEF Agrees
  <2>7. \A r \in Scripts : r # s => Agrees(r)'
    BY <1>2, <2>1, <2>2, <2>4, <2>5 DEF Agrees
  <2>8. QED
    BY <2>6, <2>7
<1>13. ASSUME NEW b \in Builders, AttachFinishedBuilder(b) PROVE Goal
  <2>1. /\ main = "attach"
        /\ b \in finishedList
        /\ finishedList' = finishedList \ {b}
        /\ ion' = [ion EXCEPT ![script[b]] = IF @ = "compiling" THEN "pending" ELSE @]
        /\ pendingBuilder' = [pendingBuilder EXCEPT ![script[b]] = b]
        /\ Lazy' = Lazy \union {b}
        /\ UNCHANGED <<recompiling, script, hadIonScript, started, ionWorklist, ionBuilder>>
    BY <1>1, <1>13, AttachStep DEF builderVars, threadVars
  <2>2. b \in OffThread /\ b \notin Lazy /\ OffThread' = OffThread \ {b}
    BY <1>1, <2>1 DEF OffThread, InThreads, OneBuilderPerScript
  <2>3. PICK s \in Scripts : s = script[b]
    BY <1>5, <2>2
  <2>4. \A c \in OffThread \union Lazy : script[c] = s => c = b
    BY <1>1, <1>5, <2>3, NoneIsNone DEF OneBuilderPerScript
  <2>5. /\ ion'[s] = IF ion[s] = "compiling" THEN "pending" ELSE ion[s]
        /\ pendingBuilder'[s] = b
        /\ \A r \in Scripts : r # s =>
             ion'[r] = ion[r] /\ pendingBuilder'[r] = pendingBuilder[r]
    BY <1>1, <2>1, <2>3 DEF TypeOK
  <2>6. Agrees(s)'
    <3>1. ~Compiles(s)' /\ (Waits(s)' <=> ~hadIonScript[b])
      BY <2>1, <2>2, <2>3, <2>4 DEF Compiles, Waits
    <3>2. /\ ion[s] = "compiling" <=> ~hadIonScript[b]
          /\ ion[s] # "pending"
          /\ hadIonScript[b] => ion[s] = "ion" /\ recompiling[s]
      <4>1. ~Waits(s) /\ (Compiles(s) <=> ~hadIonScript[b])
        BY <2>2, <2>3, <2>4 DEF Compiles, Waits
      <4>2. QED
        BY <1>2, <2>1, <2>2, <2>3, <4>1 DEF Agrees
    <3>3. \A c \in OffThread' \union Lazy' : script'[c] = s => c = b
      BY <2>1, <2>2, <2>4
    <3>4. \A c \in Builders : pendingBuilder'[s] = c <=> c \in Lazy' /\ script'[c] = s
      BY <2>1, <2>3, <2>5, <3>3
    <3>5. QED
      BY <2>1, <2>5, <3>1, <3>2, <3>3, <3>4 DEF Agrees
  <2>7. \A r \in Scripts : r # s => Agrees(r)'
    <3> SUFFICES ASSUME NEW r \in Scripts, r # s PROVE Agrees(r)'
      OBVIOUS
    <3>1. (Compiles(r)' <=> Compiles(r)) /\ (Waits(r)' <=> Waits(r))
      BY <2>1, <2>2, <2>3 DEF Compiles, Waits
    <3>2. QED
      BY <1>2, <2>1, <2>2, <2>3, <2>5, <3>1 DEF Agrees
  <2>8. QED
    BY <2>6, <2>7
<1>14. CASE FinishLink
  <2>1. PICK s \in Scripts :
          /\ s = script[linking]
          /\ main = "link"
          /\ linking \in Builders
          /\ Delete({linking})
          /\ \A r \in Scripts : r # s => ion'[r] = ion[r] /\ recompiling'[r] = recompiling[r]
          /\ ion'[s] \in {"ion", ion[s]}
          /\ UNCHANGED <<pendingBuilder, started, ionWorklist, finishedList, lazyLinkList,
                         ionBuilder>>
    BY <1>1, <1>14, FinishLinkStep DEF threadVars
  <2>2. UNCHANGED <<OffThread, Lazy>>
    BY <2>1 DEF OffThread, InThreads, Lazy
  <2>3. \A c \in OffThread \union Lazy : c # linking /\ script[c] # s
    BY <1>1, <1>5, <2>1, NoneIsNone DEF OneBuilderPerScript
  <2>4. \A c \in Builders : c # linking =>
          script'[c] = script[c] /\ hadIonScript'[c] = hadIonScript[c]
    BY <1>1, <2>1 DEF Delete, TypeOK
  <2>5. Agrees(s)'
    <3>1. ~Compiles(s) /\ ~Waits(s)
      BY <2>3 DEF Compiles, Waits
    <3>2. ion[s] \notin {"compiling", "pending"} /\ pendingBuilder[s] \notin Builders
      BY <1>2, <2>1, <2>3, <3>1 DEF Agrees
    <3>3. ion'[s] \notin {"compiling", "pending"}
      BY <2>1, <3>2
    <3>4. \A c \in OffThread' \union Lazy' : script'[c] # s
      BY <1>5, <2>2, <2>3, <2>4
    <3>5. QED
      BY <2>1, <3>2, <3>3, <3>4 DEF Agrees, Compiles, Waits
  <2>6. \A r \in Scripts : r # s => Agrees(r)'
    <3> SUFFICES ASSUME NEW r \in Scripts, r # s PROVE Agrees(r)'
      OBVIOUS
    <3>1. (Compiles(r)' <=> Compiles(r)) /\ (Waits(r)' <=> Waits(r))
      BY <1>5, <2>2, <2>3, <2>4 DEF Compiles, Waits
    <3>2. \A c \in OffThread' \union Lazy' : script'[c] = r /\ hadIonScript'[c] =>
            c \in OffThread \union Lazy /\ script[c] = r /\ hadIonScript[c]
      BY <1>5, <2>2, <2>3, <2>4
    <3>3. \A c \in Builders : c \in Lazy' /\ script'[c] = r <=> c \in Lazy /\ script[c] = r
      BY <2>2, <2>3, <2>4
    <3>4. QED
      BY <1>2, <2>1, <3>1, <3>2, <3>3 DEF Agrees
  <2>7. QED
    BY <2>5, <2>6
<1>15. CASE CancelOffThreadIonCompile /\ CancelInProgress
  <2>1. /\ ionWorklist' = ionWorklist \ BuildersOf(selected, ionWorklist)
        /\ finishedList' = finishedList \union BuildersOf(selected, ionWorklist)
        /\ main # "mark"
        /\ UNCHANGED <<script, hadIonScript, ion, recompiling, pendingBuilder, started,
                       lazyLinkList, ionBuilder>>
    BY <1>15, WaitStep DEF builderVars, scriptVars
  <2>2. BuildersOf(selected, ionWorklist) \subseteq ionWorklist
    BY DEF BuildersOf
  <2>3. UNCHANGED <<OffThread, Lazy>>
    BY <2>1, <2>2 DEF OffThread, InThreads, Lazy
  <2>4. QED
    BY <1>6, <2>1, <2>3
<1>16. CASE CancelOffThreadIonCompile /\ CancelFinished
  <2> DEFINE finished == BuildersOf(selected, finishedList \union ionWorklist)
             lazy == BuildersOf(selected, Lazy)
             dead == finished \union lazy
  <2>1. /\ main \in {"cancel", "cancelWoken"}
        /\ InProgress = {}
        /\ ionWorklist' = ionWorklist \ BuildersOf(selected, ionWorklist)
        /\ FinishOffThreadBuilder(dead)
        /\ finishedList' = finishedList \ finished
        /\ Lazy' = Lazy \ lazy
        /\ UNCHANGED <<started, ionBuilder>>
    BY <1>1, <1>16, CancelledStep DEF callVars, threadVars
  <2>2. \A b \in dead : b \in OffThread \union Lazy /\ script[b] \in selected
    BY DEF BuildersOf, OffThread
  <2>3. \A b \in OffThread \union Lazy : script[b] \in selected => b \in dead
    BY <2>1 DEF BuildersOf, OffThread, InThreads, InProgress
  <2>4. OffThread' \union Lazy' \subseteq OffThread \union Lazy
    BY <2>1 DEF OffThread, InThreads
  <2>5. /\ \A b \in OffThread : script[b] \notin selected => b \in OffThread'
        /\ \A b \in Lazy : script[b] \notin selected => b \in Lazy'
        /\ OffThread' \subseteq OffThread
        /\ Lazy' \subseteq Lazy
    BY <2>1 DEF OffThread, InThreads, BuildersOf
  <2> HIDE DEF finished, lazy, dead
  <2>6. \A b \in Builders :
          /\ b \in dead => script'[b] = None
          /\ b \notin dead => script'[b] = script[b] /\ hadIonScript'[b] = hadIonScript[b]
    BY <1>1, <2>1 DEF FinishOffThreadBuilder, Delete, TypeOK
  <2>7. ASSUME NEW s \in Scripts, s \in selected PROVE Agrees(s)'
    <3>1. \A b \in OffThread' \union Lazy' : script'[b] # s
      BY <1>5, <2>3, <2>4, <2>6, <2>7, NoneIsNone
    <3>2. ion[s] = "compiling" => \E b \in dead : script[b] = s
      BY <1>2, <2>1, <2>3, <2>7 DEF Agrees, Compiles
    <3>3. pendingBuilder[s] \in Builders => pendingBuilder[s] \in dead
      BY <1>2, <2>3, <2>7 DEF Agrees
    <3>4. ion[s] = "pending" => pendingBuilder[s] \in dead
      <4>1. ASSUME ion[s] = "pending" PROVE pendingBuilder[s] \in Builders
        <5>1. PICK b \in Lazy : script[b] = s
          BY <1>2, <4>1 DEF Agrees, Waits
        <5>2. QED
          BY <1>2, <1>5, <5>1 DEF Agrees
      <4>2. QED
        BY <3>3, <4>1
    <3>5. /\ pendingBuilder'[s] = IF pendingBuilder[s] \in dead THEN None
                                                               ELSE pendingBuilder[s]
          /\ ion'[s] = IF \/ (\E b \in dead : script[b] = s) /\ ion[s] = "compiling"
                          \/ pendingBuilder[s] \in dead /\ ion[s] = "pending"
                       THEN "none" ELSE ion[s]
      BY <2>1 DEF FinishOffThreadBuilder
    <3>6. ion'[s] \notin {"compiling", "pending"} /\ pendingBuilder'[s] \notin Builders
      BY <3>2, <3>3, <3>4, <3>5, NoneIsNone
    <3>7. QED
      BY <3>1, <3>6 DEF Agrees, Compiles, Waits
  <2>8. ASSUME NEW s \in Scripts, s \notin selected PROVE Agrees(s)'
    <3>1. \A b \in OffThread \union Lazy : script[b] = s => b \notin dead
      BY <2>2, <2>8
    <3>2. /\ (\E b \in OffThread' : script'[b] = s /\ ~hadIonScript'[b]) <=> Compiles(s)
          /\ (\E b \in Lazy' : script'[b] = s /\ ~hadIonScript'[b]) <=> Waits(s)
      BY <1>5, <2>5, <2>6, <2>8, <3>1, NoneIsNone DEF Compiles, Waits
    <3>3. pendingBuilder[s] \notin dead
      BY <1>2, <1>5, <2>2, <2>8 DEF Agrees
    <3>4. ~\E b \in dead : script[b] = s
      BY <2>2, <2>8
    <3>5. ion'[s] = ion[s] /\ pendingBuilder'[s] = pendingBuilder[s]
          /\ (recompiling[s] => recompiling'[s])
      BY <2>1, <3>3, <3>4 DEF FinishOffThreadBuilder
    <3>6. \A c \in OffThread' \union Lazy' : script'[c] = s /\ hadIonScript'[c] =>
            c \in OffThread \union Lazy /\ script[c] = s /\ hadIonScript[c]
      BY <1>5, <2>4, <2>6, <3>1, NoneIsNone
    <3>7. \A c \in Builders : c \in Lazy' /\ script'[c] = s <=> c \in Lazy /\ script[c] = s
      BY <2>5, <2>6, <2>8, <3>1, NoneIsNone
    <3>8. main # "mark"
      BY <2>1
    <3>9. QED
      BY <1>2, <3>2, <3>5, <3>6, <3>7, <3>8 DEF Agrees, Compiles, Waits
  <2>9. QED
    BY <2>7, <2>8
<1>17. CASE AfterCancel
  <2>1. /\ main = "cancelled"
        /\ UNCHANGED <<OffThread, Lazy, script, hadIonScript, started, pendingBuilder>>
    BY <1>17 DEF AfterCancel, builderVars, threadVars, OffThread, InThreads, Lazy
  <2>2. \A b \in OffThread \union Lazy : script[b] \notin selected
    BY <1>1, <2>1 DEF CancelComplete, BuildersOf
  <2>3. ASSUME NEW s \in Scripts, s \in selected PROVE Agrees(s)'
    <3>1. ~Compiles(s) /\ ~Waits(s)
      BY <2>2, <2>3 DEF Compiles, Waits
    <3>2. ion[s] \notin {"compiling", "pending"} /\ pendingBuilder[s] \notin Builders
      BY <1>2, <2>1, <2>2, <2>3, <3>1 DEF Agrees
    <3>3. ion'[s] \in {ion[s], "disabled", "none"}
      BY <1>17 DEF AfterCancel
    <3>4. \A c \in OffThread' \union Lazy' : script'[c] # s
      BY <2>1, <2>2, <2>3
    <3>5. QED
      BY <2>1, <3>2, <3>3, <3>4 DEF Agrees, Compiles, Waits
  <2>4. ASSUME NEW s \in Scripts, s \notin selected PROVE Agrees(s)'
    <3>1. ion'[s] = ion[s]
      BY <1>17, <2>4 DEF AfterCancel
    <3>2. recompiling[s] /\ ion[s] = "ion" => recompiling'[s]
      BY <1>17, <3>1 DEF AfterCancel
    <3>3. (Compiles(s)' <=> Compiles(s)) /\ (Waits(s)' <=> Waits(s))
      BY <2>1 DEF Compiles, Waits
    <3>4. QED
      BY <1>2, <2>1, <3>1, <3>2, <3>3 DEF Agrees
  <2>5. QED
    BY <2>3, <2>4
<1>18. ASSUME NEW t \in Threads, destroy(t) PROVE Goal
  BY <1>6, <1>18 DEF destroy, builderVars, scriptVars, OffThread, InThreads, Lazy
<1>19. ASSUME NEW t \in Threads, ThreadStep(t) PROVE Goal
  BY <1>1, <1>6, <1>19, ThreadsPassOn DEF scriptVars, Lazy
<1>20. QED
  BY <1>1, <1>7, <1>8, <1>9, <1>10, <1>11, <1>12, <1>13, <1>14, <1>15, <1>16, <1>17,
     <1>18, <1>19, Cases DEF CancelOffThreadIonCompile

-----------------------------------------------------------------------------
(***************************************************************************)
(* Cancelling, attaching and waiting.                                      *)
(***************************************************************************)
LEMMA CompleteNext ==
  ASSUME IInv, [Next]_vars
  PROVE  CancelComplete'
<1>1. /\ TypeOK /\ ThreadInv /\ OneBuilderPerScript /\ ScriptStateAgrees /\ LinkInv
      /\ CancelComplete
  BY DEF IInv
<1>2. SUFFICES ASSUME main' = "cancelled" PROVE CancelComplete'
  BY DEF CancelComplete
<1>3. \/ CancelOffThreadIonCompile /\ CancelFinished
      \/ UNCHANGED vars
      \/ \E t \in Threads : ThreadStep(t)
  <2>1. ~Cancel /\ ~Link
    BY <1>1, <1>2, CancelCall, LinkStep
  <2>2. Plain => UNCHANGED vars
    BY <1>2 DEF Plain, handleInterrupt, Unload, AttachLock, AttachDone, finishThreads
  <2>3. /\ ~MarkCompiling
        /\ ~FinishLink
        /\ ~CancelInProgress
        /\ ~AfterCancel
        /\ ~\E b \in Builders, count \in 0..MaxWarmUp : WarmUp(b, count)
        /\ ~\E s \in Scripts, recompile \in BOOLEAN : IonCompile(s, recompile)
        /\ ~\E s \in Scripts : AbortRecompile(s)
        /\ ~\E b \in Builders : AttachFinishedBuilder(b)
        /\ ~\E t \in Threads : destroy(t)
    BY <1>1, <1>2 DEF MarkCompiling, FinishLink, CancelInProgress, AfterCancel, WarmUp,
       AbortRecompile, IonCompile, Compile, AttachFinishedBuilder, destroy, TypeOK
  <2>4. QED
    BY <1>1, <2>1, <2>2, <2>3, Cases DEF CancelOffThreadIonCompile
<1>4. CASE CancelOffThreadIonCompile /\ CancelFinished
  <2> DEFINE finished == BuildersOf(selected, finishedList \union ionWorklist)
             lazy == BuildersOf(selected, Lazy)
             dead == finished \union lazy
  <2>1. /\ InProgress = {}
        /\ ionWorklist' = ionWorklist \ BuildersOf(selected, ionWorklist)
        /\ FinishOffThreadBuilder(dead)
        /\ finishedList' = finishedList \ finished
        /\ Lazy' = Lazy \ lazy
        /\ UNCHANGED <<selected, ionBuilder>>
    BY <1>1, <1>4, CancelledStep DEF callVars, threadVars
  <2>2. \A b \in OffThread' \union Lazy' :
          b \in OffThread \union Lazy /\ script[b] \notin selected
    BY <2>1 DEF OffThread, InThreads, InProgress, BuildersOf
  <2>3. \A b \in Builders : script'[b] \in {script[b], None}
    BY <2>1 DEF FinishOffThreadBuilder, Delete
  <2>4. \A b \in OffThread' \union Lazy' : script'[b] \notin selected
    BY <1>1, <2>2, <2>3, Places, NoneIsNone DEF TypeOK
  <2>5. QED
    BY <2>1, <2>4 DEF CancelComplete, BuildersOf
<1>5. CASE UNCHANGED vars
  BY <1>1, <1>5 DEF CancelComplete, BuildersOf, OffThread, InThreads, Lazy, vars, callVars,
     builderVars, threadVars
<1>6. ASSUME NEW t \in Threads, ThreadStep(t) PROVE CancelComplete'
  <2>1. /\ OffThread' = OffThread
        /\ UNCHANGED <<main, selected, script, Lazy>>
    BY <1>1, <1>2, <1>6, ThreadsPassOn DEF callVars, Lazy
  <2>2. QED
    BY <1>1, <2>1 DEF CancelComplete, BuildersOf
<1>7. QED
  BY <1>3, <1>4, <1>5, <1>6

LEMMA NoticedNext ==
  ASSUME IInv, [Next]_vars
  PROVE  FinishedNoticed'
<1>1. /\ TypeOK /\ ThreadInv /\ OneBuilderPerScript /\ ScriptStateAgrees /\ LinkInv
      /\ FinishedNoticed
  BY DEF IInv
<1>. cancelReturn # "js" => Cancelling
  BY <1>1 DEF LinkInv
<1>2. CASE Plain
  BY <1>1, <1>2, PlainStep DEF FinishedNoticed, Plain, handleInterrupt, Unload, AttachLock,
     AttachDone, finishThreads, vars, callVars, builderVars, BuildersOf, TypeOK
<1>3. CASE Cancel
  BY <1>1, <1>3, CancelCall DEF FinishedNoticed, Cancelling
<1>4. CASE Link
  <2>1. PICK ret \in {"js", "interrupted"} :
          /\ main \in {"js", "attach"}
          /\ main = "attach" <=> ret = "interrupted"
          /\ main' = "link"
          /\ linkReturn' = ret
          /\ UNCHANGED <<finishedList, interrupt>>
    BY <1>1, <1>4, LinkStep
  <2>2. linkReturn # "interrupted" /\ cancelReturn = "js"
    BY <1>1, <2>1 DEF LinkInv, Cancelling
  <2>3. QED
    BY <1>1, <2>1, <2>2 DEF FinishedNoticed
<1>5. CASE MarkCompiling
           \/ (\E b \in Builders, count \in 0..MaxWarmUp : WarmUp(b, count))
           \/ (\E s \in Scripts : AbortRecompile(s))
           \/ (\E t \in Threads : destroy(t))
           \/ (\E s \in Scripts, recompile \in BOOLEAN : IonCompile(s, recompile))
  <2>1. /\ UNCHANGED <<finishedList, interrupt, linkReturn, cancelReturn>>
        /\ main \notin {"interrupted", "attach", "cancelWait", "cancelWoken"}
    BY <1>5 DEF MarkCompiling, WarmUp, AbortRecompile, destroy, IonCompile, Compile, callVars
  <2>2. QED
    BY <1>1, <2>1 DEF FinishedNoticed
<1>6. CASE FinishLink
  BY <1>1, <1>6, FinishLinkStep DEF FinishedNoticed, TypeOK, Cancelling
<1>7. ASSUME NEW b \in Builders, AttachFinishedBuilder(b) PROVE FinishedNoticed'
  BY <1>1, <1>7, AttachStep DEF FinishedNoticed, callVars
<1>8. CASE CancelOffThreadIonCompile /\ CancelInProgress
  <2>1. /\ main \in {"cancel", "cancelWoken"}
        /\ main' = "cancelWait"
        /\ finishedList' = finishedList \union BuildersOf(selected, ionWorklist)
        /\ UNCHANGED <<selected, script, interrupt, linkReturn, cancelReturn>>
    BY <1>8, WaitStep DEF callVars, builderVars
  <2>2. BuildersOf(Scripts \ selected, finishedList)' = BuildersOf(Scripts \ selected, finishedList)
    BY <2>1 DEF BuildersOf
  <2>3. finishedList = {} => BuildersOf(Scripts \ selected, finishedList) = {}
    BY DEF BuildersOf
  <2>4. QED
    BY <1>1, <2>1, <2>2, <2>3 DEF FinishedNoticed
<1>9. CASE CancelOffThreadIonCompile /\ CancelFinished
  <2>1. /\ main \in {"cancel", "cancelWoken"}
        /\ finishedList' =
             finishedList \ BuildersOf(selected, finishedList \union ionWorklist)
        /\ UNCHANGED <<selected, interrupt, linkReturn, cancelReturn>>
    BY <1>1, <1>9, CancelledStep DEF callVars
  <2>2. ASSUME BuildersOf(Scripts \ selected, finishedList) = {}
        PROVE  finishedList' = {}
    <3>1. \A b \in finishedList : script[b] \in Scripts
      BY <1>1, Places DEF OffThread
    <3>2. QED
      BY <2>1, <2>2, <3>1 DEF BuildersOf
  <2>3. QED
    BY <1>1, <2>1, <2>2 DEF FinishedNoticed
<1>10. CASE AfterCancel
  <2>1. /\ main = "cancelled"
        /\ main' = cancelReturn
        /\ UNCHANGED <<finishedList, interrupt, linkReturn>>
    BY <1>10 DEF AfterCancel
  <2>2. QED
    BY <1>1, <2>1 DEF FinishedNoticed
<1>11. ASSUME NEW t \in Threads, ThreadStep(t) PROVE FinishedNoticed'
  <2>1. CASE ExitLoop(t) \/ WaitForWork(t) \/ PauseCurrentHelperThread(t)
    BY <1>1, <2>1, LoopStep DEF FinishedNoticed, callVars, builderVars, BuildersOf
  <2>2. CASE StartWorkload(t)
    <3>1. UNCHANGED <<main, finishedList, interrupt, linkReturn, cancelReturn, selected,
                    script>>
      BY <1>1, <2>2, StartStep DEF callVars, builderVars
    <3>2. QED
      BY <1>1, <3>1 DEF FinishedNoticed, BuildersOf
  <2>3. CASE FinishWorkload(t)
    BY <1>1, <2>3, FinishStep DEF FinishedNoticed
  <2>4. QED
    BY <1>11, <2>1, <2>2, <2>3 DEF ThreadStep
<1>12. QED
  BY <1>1, <1>2, <1>3, <1>4, <1>5, <1>6, <1>7, <1>8, <1>9, <1>10, <1>11, Cases
     DEF CancelOffThreadIonCompile

\* Among paused compilations one has the highest priority.
LEMMA HighestExists ==
  ASSUME TypeOK, NEW S \in SUBSET Paused, S # {}
  PROVE  highestPriorityPausedIonCompile(S) # {}
<1> DEFINE had(t) == hadIonScript[ionBuilder[t]]
           warm(t) == warmUp[ionBuilder[t]]
<1>1. \A t \in S : had(t) \in BOOLEAN /\ warm(t) \in 0..MaxWarmUp
  BY DEF Paused, TypeOK
<1>2. PICK P \in SUBSET S :
        /\ P # {}
        /\ \A t \in P, u \in S : had(u) = had(t) => u \in P
        /\ \A t \in P, u \in S : had(t) => had(u)
  <2>1. CASE \E t \in S : ~had(t)
    <3> DEFINE Q == {t \in S : ~had(t)}
    <3>1. /\ Q \in SUBSET S
          /\ Q # {}
          /\ \A t \in Q, u \in S : had(u) = had(t) => u \in Q
          /\ \A t \in Q, u \in S : had(t) => had(u)
      BY <2>1
    <3> HIDE DEF Q
    <3>2. QED
      BY <3>1
  <2>2. CASE \A t \in S : had(t)
    BY <2>2
  <2>3. QED
    BY <2>1, <2>2
<1> DEFINE W == {warm(t) : t \in P}
<1>3. W \in SUBSET (0..MaxWarmUp) /\ W # {}
  BY <1>1, <1>2
<1>4. PICK w \in W : \A v \in W : v <= w
  <2> HIDE DEF W
  <2>1. QED
    BY <1>3, NatGreatest
<1>5. PICK t \in P : w = warm(t)
  OBVIOUS
<1>6. \A u \in P : warm(u) <= warm(t)
  BY <1>4, <1>5
<1>7. ASSUME NEW u \in S
      PROVE  ~IonBuilderHasHigherPriority(ionBuilder[u], ionBuilder[t])
  <2>1. CASE had(u) = had(t)
    <3>1. warm(u) <= warm(t) /\ warm(u) \in Nat /\ warm(t) \in Nat
      BY <1>1, <1>2, <1>6, <2>1
    <3>2. QED
      BY <2>1, <3>1 DEF IonBuilderHasHigherPriority
  <2>2. CASE had(u) # had(t)
    <3>1. had(u)
      BY <1>1, <1>2, <2>2
    <3>2. QED
      BY <2>2, <3>1 DEF IonBuilderHasHigherPriority
  <2>3. QED
    BY <2>1, <2>2
<1>8. t \in highestPriorityPausedIonCompile(S)
  BY <1>2, <1>5, <1>7 DEF highestPriorityPausedIonCompile
<1>9. QED
  BY <1>8

\* The parts of WaitersHaveWakers.
SomeRuns ==
  Paused # {} => Unpaused # {} \/ (ionWorklist # {} /\ \E t \in Threads : helper[t] = "top")

FlagsUp == \A t \in Threads : helper[t] = "paused" => pause[t]

SomeAwake ==
  ionWorklist # {} /\ Unpaused = {} => \E t \in Threads : helper[t] \in {"ready", "top"}

WaitsForSome == main = "cancelWait" => InProgress # {}

LEMMA WaitersParts ==
  WaitersHaveWakers <=> (Loaded => SomeRuns /\ FlagsUp /\ SomeAwake /\ WaitsForSome)
BY DEF WaitersHaveWakers, SomeRuns, FlagsUp, SomeAwake, WaitsForSome

\* A step by the JavaScript thread that leaves the helper threads alone.
LEMMA WaitersKept ==
  ASSUME WaitersHaveWakers, UNCHANGED <<ionWorklist, helper, ionBuilder, pause>>,
         Loaded' => Loaded, main' = "cancelWait" => UNCHANGED <<main, script, selected>>
  PROVE  WaitersHaveWakers'
BY DEF WaitersHaveWakers, Paused, Unpaused, InProgress

LEMMA WaitersNext ==
  ASSUME IInv, [Next]_vars
  PROVE  WaitersHaveWakers'
<1>1. /\ TypeOK /\ ThreadInv /\ OneBuilderPerScript /\ ScriptStateAgrees /\ LinkInv
      /\ TerminateInv /\ WaitersHaveWakers
  BY DEF IInv
<1> DEFINE Goal == (SomeRuns /\ FlagsUp /\ SomeAwake /\ WaitsForSome)'
<1>2. Goal => WaitersHaveWakers'
  BY DEF WaitersHaveWakers, SomeRuns, FlagsUp, SomeAwake, WaitsForSome
<1>3. Loaded => SomeRuns /\ FlagsUp /\ SomeAwake /\ WaitsForSome
  BY <1>1, WaitersParts
<1>4. CASE Plain
  <2>1. UNCHANGED <<ionWorklist, helper, ionBuilder, pause, script, selected>>
    BY <1>4, PlainStep DEF threadVars, callVars, builderVars
  <2>2. (Loaded' => Loaded) /\ (main' = "cancelWait" => UNCHANGED main)
    BY <1>4 DEF Plain, handleInterrupt, Unload, AttachLock, AttachDone, finishThreads, vars,
       Loaded
  <2>3. QED
    BY <1>1, <2>1, <2>2, WaitersKept
<1>5. CASE Cancel \/ Link \/ MarkCompiling \/ FinishLink \/ AfterCancel
           \/ (\E b \in Builders, count \in 0..MaxWarmUp : WarmUp(b, count))
           \/ (\E s \in Scripts : AbortRecompile(s))
           \/ (\E b \in Builders : AttachFinishedBuilder(b))
  <2> DEFINE Quiet == /\ UNCHANGED <<ionWorklist, helper, ionBuilder, pause>>
                      /\ Loaded
                      /\ main' # "cancelWait"
  <2>1. ASSUME Cancel PROVE Quiet
    BY <2>1, CancelCall DEF threadVars, Loaded
  <2>2. ASSUME Link PROVE Quiet
    BY <1>1, <2>2, LinkStep DEF threadVars, Loaded
  <2>3. ASSUME FinishLink \/ AfterCancel PROVE Quiet
    BY <1>1, <2>3 DEF FinishLink, AfterCancel, threadVars, Loaded, TypeOK
  <2>4. ASSUME \/ MarkCompiling
               \/ \E b \in Builders, count \in 0..MaxWarmUp : WarmUp(b, count)
               \/ \E s \in Scripts : AbortRecompile(s)
               \/ \E b \in Builders : AttachFinishedBuilder(b)
        PROVE  Quiet
    BY <2>4 DEF MarkCompiling, WarmUp, AbortRecompile, Compile, AttachFinishedBuilder,
       threadVars, Loaded
  <2>5. Quiet
    BY <1>5, <2>1, <2>2, <2>3, <2>4
  <2>6. QED
    BY <1>1, <2>5, WaitersKept
<1>6. ASSUME NEW s \in Scripts, NEW recompile \in BOOLEAN, IonCompile(s, recompile)
      PROVE  Goal
  <2>1. /\ main = "js"
        /\ LockFree
        /\ NotifyOneProducer
        /\ main' # "cancelWait"
        /\ UNCHANGED <<ionBuilder, pause>>
    BY <1>1, <1>6, CompileStep
  <2>2. Paused' = Paused /\ Unpaused' = Unpaused /\ (Paused # {} => Unpaused # {})
    BY <1>3, <2>1 DEF Loaded, Paused, Unpaused, SomeRuns, LockFree
  <2>3. FlagsUp'
    BY <1>1, <1>3, <2>1 DEF NotifyOneProducer, Loaded, FlagsUp, TypeOK
  <2>4. ASSUME Unpaused = {}
        PROVE  \E t \in Threads : helper'[t] = "ready"
    <3>1. \A t \in Threads : helper[t] \in {"ready", "idle"}
      <4> TAKE t \in Threads
      <4>1. ~Compiling(t)
        BY <1>1, <2>2, <2>4 DEF ThreadInv, Paused, Unpaused
      <4>2. helper[t] # "exited"
        BY <1>1, <2>1 DEF TerminateInv, Loaded
      <4>3. helper[t] # "top"
        BY <2>1 DEF LockFree
      <4>4. QED
        BY <1>1, <4>1, <4>2, <4>3 DEF Compiling, TypeOK
    <3>2. 1 \in Threads
      BY DEF Threads
    <3>3. QED
      BY <1>1, <2>1, <3>1, <3>2 DEF NotifyOneProducer, TypeOK
  <2>5. QED
    BY <2>1, <2>2, <2>3, <2>4 DEF SomeRuns, SomeAwake, WaitsForSome
<1>7. CASE CancelOffThreadIonCompile /\ CancelInProgress
  <2>1. /\ main \in {"cancel", "cancelWoken"}
        /\ InProgress # {}
        /\ pause' = [t \in Threads |-> pause[t] /\ t \notin InProgress]
        /\ IF \E t \in InProgress : pause[t] THEN NotifyAllPaused ELSE UNCHANGED helper
        /\ UNCHANGED <<selected, script, ionBuilder>>
    BY <1>7, WaitStep DEF callVars, builderVars
  <2>2. InProgress' = InProgress
    BY <2>1 DEF InProgress
  <2>3. InProgress \subseteq Unpaused'
    BY <2>1 DEF InProgress, Unpaused
  <2>4. FlagsUp'
    <3>1. FlagsUp
      BY <1>3, <2>1 DEF Loaded
    <3>2. CASE NotifyAllPaused
      BY <3>2 DEF NotifyAllPaused, FlagsUp
    <3>3. CASE UNCHANGED helper /\ ~\E t \in InProgress : pause[t]
      BY <2>1, <3>1, <3>3 DEF FlagsUp
    <3>4. QED
      BY <2>1, <3>2, <3>3
  <2>5. QED
    BY <1>2, <2>1, <2>2, <2>3, <2>4 DEF SomeRuns, SomeAwake, WaitsForSome
<1>8. CASE CancelOffThreadIonCompile /\ CancelFinished
  <2>1. /\ main \in {"cancel", "cancelWoken"}
        /\ main' = "cancelled"
        /\ LockFree
        /\ ionWorklist' \subseteq ionWorklist
        /\ UNCHANGED <<helper, ionBuilder, pause>>
    BY <1>1, <1>8, CancelledStep DEF threadVars
  <2>2. SomeRuns /\ FlagsUp /\ SomeAwake
    BY <1>3, <2>1 DEF Loaded
  <2>3. Paused' = Paused /\ Unpaused' = Unpaused
    BY <2>1 DEF Paused, Unpaused
  <2>4. QED
    BY <1>2, <2>1, <2>2, <2>3 DEF SomeRuns, FlagsUp, SomeAwake, WaitsForSome, LockFree
<1>9. ASSUME NEW t \in Threads, destroy(t) PROVE WaitersHaveWakers'
  BY <1>9 DEF destroy, WaitersHaveWakers, Loaded
<1>10. ASSUME NEW t \in Threads, ExitLoop(t) PROVE WaitersHaveWakers'
  BY <1>1, <1>10 DEF ExitLoop, TerminateInv, WaitersHaveWakers, Loaded
<1>11. ASSUME NEW t \in Threads, WaitForWork(t) PROVE WaitersHaveWakers'
  <2>1. /\ AtLoop(t)
        /\ ionWorklist # {} => Unpaused # {}
        /\ helper' = [helper EXCEPT ![t] = "idle"]
        /\ UNCHANGED <<main, selected, script, ionWorklist, ionBuilder, pause>>
    BY <1>11 DEF WaitForWork, pendingIonCompileHasSufficientPriority, callVars, builderVars
  <2>2. /\ Paused' = Paused
        /\ Unpaused' = Unpaused
        /\ InProgress' = InProgress
    BY <2>1 DEF Paused, Unpaused, InProgress
  <2>3. ASSUME Loaded PROVE Goal
    BY <1>1, <1>3, <2>1, <2>2, <2>3 DEF SomeRuns, FlagsUp, SomeAwake, WaitsForSome, TypeOK
  <2>4. QED
    BY <1>2, <2>1, <2>3 DEF WaitersHaveWakers, Loaded
<1>12. ASSUME NEW t \in Threads, PauseCurrentHelperThread(t) PROVE WaitersHaveWakers'
  <2>1. /\ LockFree
        /\ helper[t] \in {"compile", "resumed"}
        /\ helper' = [helper EXCEPT ![t] = IF pause[t] THEN "paused" ELSE "compile"]
        /\ UNCHANGED <<main, selected, script, ionWorklist, ionBuilder, pause>>
    BY <1>12 DEF PauseCurrentHelperThread, callVars, builderVars
  <2>2. /\ Paused' = Paused
        /\ Unpaused' = Unpaused
        /\ InProgress' = InProgress
    BY <2>1 DEF Paused, Unpaused, InProgress
  <2>3. ASSUME Loaded PROVE Goal
    <3>1. SomeRuns' /\ WaitsForSome'
      BY <1>3, <2>1, <2>2, <2>3 DEF SomeRuns, WaitsForSome, LockFree
    <3>2. FlagsUp'
      BY <1>1, <1>3, <2>1, <2>3 DEF FlagsUp, TypeOK
    <3>3. SomeAwake'
      BY <1>1, <1>3, <2>1, <2>2, <2>3 DEF SomeAwake, TypeOK
    <3>4. QED
      BY <3>1, <3>2, <3>3
  <2>4. QED
    BY <1>2, <2>1, <2>3 DEF WaitersHaveWakers, Loaded
<1>13. ASSUME NEW t \in Threads, StartWorkload(t) PROVE WaitersHaveWakers'
  <2>1. PICK b \in Builders :
          /\ ionBuilder[t] = None
          /\ ionBuilder' = [ionBuilder EXCEPT ![t] = b]
          /\ helper' = [helper EXCEPT ![t] = "compile"]
          /\ \/ UNCHANGED pause
             \/ \E other \in Unpaused : pause' = [pause EXCEPT ![other] = TRUE]
          /\ UNCHANGED <<main, selected, script>>
    BY <1>1, <1>13, StartStep DEF callVars, builderVars
  <2>2. t \in Unpaused'
    BY <1>1, <2>1, NoneIsNone DEF Unpaused, Paused, TypeOK
  <2>3. InProgress \subseteq InProgress'
    BY <1>1, <2>1 DEF InProgress, TypeOK
  <2>4. \A u \in Threads : /\ helper'[u] = "paused" => helper[u] = "paused"
                           /\ pause[u] => pause'[u]
    BY <1>1, <2>1 DEF TypeOK, Unpaused
  <2>5. ASSUME Loaded PROVE Goal
    <3>1. FlagsUp'
      BY <1>3, <2>4, <2>5 DEF FlagsUp
    <3>2. WaitsForSome'
      BY <1>3, <2>1, <2>3, <2>5 DEF WaitsForSome
    <3>3. QED
      BY <2>2, <3>1, <3>2 DEF SomeRuns, SomeAwake
  <2>6. QED
    BY <1>2, <2>1, <2>5 DEF WaitersHaveWakers, Loaded
<1>14. ASSUME NEW t \in Threads, FinishWorkload(t) PROVE WaitersHaveWakers'
  <2> DEFINE rest == Paused \ {t}
  <2>1. /\ helper[t] = "compile"
        /\ ionBuilder' = [ionBuilder EXCEPT ![t] = None]
        /\ main' = IF main = "cancelWait" THEN "cancelWoken" ELSE main
        /\ UnpauseOther(t)
        /\ UNCHANGED ionWorklist
    BY <1>1, <1>14, FinishStep
  <2>2. helper'[t] = "top"
    BY <1>1, <2>1, UnpauseStep
  <2>3. SomeAwake' /\ WaitsForSome'
    BY <1>1, <2>1, <2>2 DEF SomeAwake, WaitsForSome, TypeOK
  <2>4. CASE /\ \A other \in highestPriorityPausedIonCompile(rest) : ~MayUnpause(other)
             /\ pause' = [pause EXCEPT ![t] = FALSE]
             /\ helper' = [helper EXCEPT ![t] = "top"]
    <3>1. Paused' = rest
      BY <1>1, <2>4 DEF Paused, TypeOK
    <3>2. ASSUME rest # {} PROVE ionWorklist # {}
      <4>1. rest \in SUBSET Paused
        OBVIOUS
      <4>2. PICK other \in highestPriorityPausedIonCompile(rest) : TRUE
        BY <1>1, <3>2, <4>1, HighestExists
      <4>3. ~MayUnpause(other)
        BY <2>4
      <4>4. QED
        BY <4>3 DEF MayUnpause
    <3>3. SomeRuns'
      BY <2>1, <2>2, <3>1, <3>2 DEF SomeRuns
    <3>4. ASSUME FlagsUp PROVE FlagsUp'
      BY <1>1, <2>4, <3>4 DEF FlagsUp, TypeOK
    <3>5. Loaded' => Loaded
      BY <2>1 DEF Loaded
    <3>6. QED
      BY <1>2, <1>3, <2>3, <3>3, <3>4, <3>5 DEF WaitersHaveWakers
  <2>5. CASE \E other \in highestPriorityPausedIonCompile(rest) :
               /\ pause' = [pause EXCEPT ![t] = FALSE, ![other] = FALSE]
               /\ helper' = [u \in Threads |-> CASE u = t -> "top"
                                                 [] helper[u] = "paused" -> "resumed"
                                                 [] OTHER -> helper[u]]
    <3>1. PICK other \in rest :
            /\ pause' = [pause EXCEPT ![t] = FALSE, ![other] = FALSE]
            /\ helper' = [u \in Threads |-> CASE u = t -> "top"
                                              [] helper[u] = "paused" -> "resumed"
                                              [] OTHER -> helper[u]]
      BY <2>5 DEF highestPriorityPausedIonCompile
    <3>2. other \in Unpaused'
      BY <1>1, <2>1, <3>1 DEF Unpaused, Paused, TypeOK
    <3>3. FlagsUp'
      BY <3>1 DEF FlagsUp
    <3>4. SomeRuns'
      BY <3>2 DEF SomeRuns
    <3>5. QED
      BY <1>2, <2>3, <3>3, <3>4
  <2>6. QED
    BY <2>1, <2>4, <2>5 DEF UnpauseOther
<1>15. QED
  BY <1>1, <1>2, <1>4, <1>5, <1>6, <1>7, <1>8, <1>9, <1>10, <1>11, <1>12, <1>13, <1>14, Cases
     DEF CancelOffThreadIonCompile, ThreadStep

-----------------------------------------------------------------------------
(***************************************************************************)
(* The theorems.                                                           *)
(***************************************************************************)
LEMMA InitIInv == Init => IInv
<1> SUFFICES ASSUME Init PROVE IInv
  OBVIOUS
<1>1. TypeOK
  <2>1. MainType /\ ScriptType
    BY DEF Init, MainType, ScriptType
  <2>2. BuilderType
    BY DEF Init, BuilderType
  <2>3. ListType
    BY DEF Init, ListType
  <2>4. ThreadType
    BY DEF Init, ThreadType, Paused
  <2>5. QED
    BY <2>1, <2>2, <2>3, <2>4, TypeParts
<1>2. OffThread = {} /\ Lazy = {} /\ InThreads = {} /\ Paused = {}
  BY DEF Init, OffThread, InThreads, Lazy, Range, Paused
<1>3. ThreadInv /\ LinkInv /\ MarkInv /\ FreshInv /\ TerminateInv
  BY DEF Init, ThreadInv, Compiling, LinkInv, MarkInv, FreshInv, TerminateInv
<1>4. OneBuilderPerScript
  BY <1>2 DEF Init, OneBuilderPerScript, OffThread
<1>5. ScriptStateAgrees
  BY <1>2, NoneIsNone DEF Init, ScriptStateAgrees
<1>6. CancelComplete /\ WaitersHaveWakers /\ FinishedNoticed
  BY <1>2 DEF Init, CancelComplete, WaitersHaveWakers, FinishedNoticed
<1>7. QED
  BY <1>1, <1>3, <1>4, <1>5, <1>6 DEF IInv

LEMMA NextIInv == IInv /\ [Next]_vars => IInv'
<1> SUFFICES ASSUME IInv, [Next]_vars PROVE IInv'
  OBVIOUS
<1>1. TypeOK' /\ ThreadInv' /\ LinkInv' /\ MarkInv' /\ FreshInv' /\ TerminateInv'
  BY TypeNext, ThreadNext, LinkNext, MarkNext, FreshNext, TerminateNext
<1>2. OneBuilderPerScript' /\ ScriptStateAgrees'
  BY PlacesNext, AgreesNext
<1>3. CancelComplete' /\ WaitersHaveWakers' /\ FinishedNoticed'
  BY CompleteNext, WaitersNext, NoticedNext
<1>4. QED
  BY <1>1, <1>2, <1>3 DEF IInv

LEMMA Invariance == Spec => []IInv
BY InitIInv, NextIInv, PTL DEF Spec

\* Every step of the JavaScript thread and of the helper threads keeps the
\* types, and "only threads with IonBuilders can be paused".
THEOREM TypeCorrect == Spec => []TypeOK
<1>1. IInv => TypeOK
  BY DEF IInv
<1>2. QED
  BY <1>1, Invariance, PTL

\* A builder is on the worklist, in one thread, finished, on the lazy link
\* list or being linked, never in two of these places, and no script has two:
\* setPendingIonBuilder never overwrites one.
THEOREM OneBuilderEach == Spec => []OneBuilderPerScript
<1>1. IInv => OneBuilderPerScript
  BY DEF IInv
<1>2. QED
  BY <1>1, Invariance, PTL

\* JSScript::ion, IonScript::recompiling_ and BaselineScript::pendingBuilder_
\* agree with where the script's builder is, whatever compilations, links and
\* cancellations came before.
THEOREM ScriptsAgree == Spec => []ScriptStateAgrees
<1>1. IInv => ScriptStateAgrees
  BY DEF IInv
<1>2. QED
  BY <1>1, Invariance, PTL

\* When CancelOffThreadIonCompile returns, no compilation of the scripts it
\* was called for is left off thread or on the lazy link list.
THEOREM CancelIsComplete == Spec => []CancelComplete
<1>1. IInv => CancelComplete
  BY DEF IInv
<1>2. QED
  BY <1>1, Invariance, PTL

\* Until JNI_OnUnload, no wait on PAUSE, PRODUCER or CONSUMER lacks a thread
\* that will end it, however many helper threads there are: the pausing and
\* unpausing in handleIonWorkload loses no wake-up.
THEOREM WaitersAreWoken == Spec => []WaitersHaveWakers
<1>1. IInv => WaitersHaveWakers
  BY DEF IInv
<1>2. QED
  BY <1>1, Invariance, PTL

\* No finished builder waits for an interrupt that nobody has requested.
THEOREM FinishedAreNoticed == Spec => []FinishedNoticed
<1>1. IInv => FinishedNoticed
  BY DEF IInv
<1>2. QED
  BY <1>1, Invariance, PTL
=============================================================================
