--------------------------- MODULE TokenPoolProofs ---------------------------
(***************************************************************************)
(* Proofs about TokenPool, for every configuration of the pool, any number *)
(* of requests, calls of Start and token identities.                       *)
(***************************************************************************)
EXTENDS TokenPool, FiniteSetTheorems, TLAPS

\* At most one loop ever runs: Start is idempotent.
OneLoop ==
    /\ ~started => \A l \in Loops : pc[l] = "none"
    /\ \A l, m \in Loops : pc[l] # "none" /\ pc[m] # "none" => l = m

\* The counts of a cycle: they are zero outside "gen", and inside it they add
\* up and a cycle without success has left the pool short.
CycleCounts ==
    \A l \in Loops :
        /\ pc[l] # "gen" => attempted[l] = 0 /\ pending[l] = 0 /\ succeeded[l] = 0
        /\ succeeded[l] + pending[l] <= attempted[l]
        /\ pc[l] = "gen" /\ succeeded[l] = 0 => Cardinality(live) < cfg.Size

\* Where a cycle that began after the cancellation can be.
LateCycles ==
    \A l \in Loops :
        /\ late[l] > 0 => cancelled
        /\ pc[l] \in {"none", "begin", "sleep"} => late[l] = 0

\* Stop returns only when every loop is gone.
StopOrder ==
    /\ cancelled => started
    /\ stopped => cancelled /\ \A l \in Loops : pc[l] \in {"none", "exited"}

IInv ==
    /\ TypeOK
    /\ OneLoop
    /\ CycleCounts
    /\ PoolBound
    /\ BackoffOnlyWhenShort
    /\ LateCycles
    /\ OneLateCycle
    /\ StopOrder

-----------------------------------------------------------------------------
(* Facts about the configuration and the pool                              *)

\* withDefaults leaves every field usable, whatever was registered.
LEMMA CfgFacts ==
    /\ cfg.Size \in Nat
    /\ cfg.TTL \in Nat \ {0}
    /\ cfg.UseLimit \in Nat \ {0}
    /\ cfg.MaxThread \in Nat \ {0}
    /\ cfg.Sleep \in Nat \ {0}
    /\ cfg.Sleep <= maxBackoff
    /\ maxBackoff \in Nat
    /\ CycleCap \in Nat \ {0}
    /\ UsageCap \in Nat \ {0}
    /\ AgeCap \in Nat \ {0}
  BY ConfigAssumption, BoundsAssumption
     DEF cfg, withDefaults, UsageCap, AgeCap

\* The number of warm tokens is a number.
LEMMA PoolCount ==
    ASSUME TypeOK
    PROVE  Cardinality(live) \in Nat
  BY FS_CardinalityType DEF TypeOK, PoolType

\* filter and shrink: cutting the pool down to S leaves S, with its tokens.
LEMMA KeepFacts ==
    ASSUME TypeOK, NEW S \in SUBSET live, tokens' = Keep(S)
    PROVE  /\ live' = S
           /\ live' \subseteq TokenIds
           /\ IsFiniteSet(live')
           /\ tokens' \in [live' -> Token]
           /\ Cardinality(live') \in Nat
           /\ Cardinality(live') <= Cardinality(live)
<1>1. live' = S
  BY DEF Keep, live
<1>2. IsFiniteSet(S) /\ Cardinality(S) <= Cardinality(live)
  BY FS_Subset DEF TypeOK, PoolType
<1>3. Cardinality(S) \in Nat
  BY <1>2, FS_CardinalityType
<1>4. tokens' \in [S -> Token]
  BY DEF Keep, TypeOK, PoolType
<1> QED
  BY <1>1, <1>2, <1>3, <1>4 DEF TypeOK, PoolType

\* add: the pool has exactly the minted token more.
LEMMA AddFacts ==
    ASSUME TypeOK, NEW t \in TokenIds, t \notin live,
           tokens' = [u \in live \cup {t} |->
                         IF u = t THEN [usages |-> 0, age |-> 0] ELSE tokens[u]]
    PROVE  /\ live' \subseteq TokenIds
           /\ IsFiniteSet(live')
           /\ tokens' \in [live' -> Token]
           /\ Cardinality(live') = Cardinality(live) + 1
<1>1. live' = live \cup {t}
  BY DEF live
<1>2. IsFiniteSet(live \cup {t}) /\ Cardinality(live \cup {t}) = Cardinality(live) + 1
  BY FS_AddElement DEF TypeOK, PoolType
<1>3. [usages |-> 0, age |-> 0] \in Token
  BY CfgFacts DEF Token
<1>4. tokens' \in [live \cup {t} -> Token]
  BY <1>3 DEF TypeOK, PoolType
<1> QED
  BY <1>1, <1>2, <1>4 DEF TypeOK, PoolType

-----------------------------------------------------------------------------
(* IInv is inductive: the initial states                                   *)

\* A new pool is empty, no loop runs and no request is under way.
LEMMA InitIInv == Init => IInv
<1> SUFFICES ASSUME Init PROVE IInv
  OBVIOUS
<1> USE CfgFacts, BoundsAssumption
<1>1. live = {}
  BY DEF Init, live
<1>2. IsFiniteSet(live) /\ Cardinality(live) = 0
  BY <1>1, FS_EmptySet
<1>3. TypeOK
  <2>1. PoolType
    BY <1>1, <1>2 DEF Init, PoolType
  <2>2. LoopType
    BY DEF Init, LoopType, PC
  <2>3. ManagerType
    BY DEF Init, ManagerType
  <2>4. check \in [Requests -> Checks]
    BY DEF Init, Idle, Checks
  <2> QED
    BY <2>1, <2>2, <2>3, <2>4 DEF TypeOK
<1>4. OneLoop /\ CycleCounts /\ LateCycles /\ OneLateCycle /\ StopOrder
  BY <1>2 DEF Init, OneLoop, CycleCounts, LateCycles, OneLateCycle, StopOrder
<1>5. PoolBound /\ BackoffOnlyWhenShort
  BY <1>2 DEF Init, PoolBound, BackoffOnlyWhenShort
<1> QED
  BY <1>3, <1>4, <1>5 DEF IInv

-----------------------------------------------------------------------------
(* IInv is inductive: the steps                                            *)

\* A step that does not touch the pool keeps its type and its size.
LEMMA PoolUnchanged ==
    ASSUME TypeOK, UNCHANGED tokens
    PROVE  PoolType' /\ live' = live
  BY DEF TypeOK, PoolType, live

\* Start: the first loop.
LEMMA StartStep ==
    ASSUME IInv, NEW l \in Loops, Start(l)
    PROVE  IInv'
<1> USE CfgFacts, BoundsAssumption
<1>0. Cardinality(live) \in Nat
  BY PoolCount DEF IInv
<1>1. live' = live /\ PoolType'
  BY PoolUnchanged DEF IInv, Start
<1>2. LoopType'
  BY <1>0
     DEF IInv, TypeOK, LoopType, PC, CycleCounts, loopVars, cycleVars, Start
<1>3. ManagerType' /\ (check \in [Requests -> Checks])'
  BY DEF IInv, TypeOK, ManagerType, mgrVars, Start
<1>4. OneLoop' /\ StopOrder'
  BY DEF IInv, TypeOK, LoopType, OneLoop, StopOrder, loopVars, mgrVars, Start
<1>5. LateCycles' /\ OneLateCycle'
  BY DEF IInv, TypeOK, LoopType, LateCycles, OneLateCycle, loopVars, mgrVars,
         UpTo, Start
<1>6. CycleCounts'
  BY <1>0, <1>1
     DEF IInv, TypeOK, LoopType, OneLoop, CycleCounts, PoolBound, loopVars,
         cycleVars, Start
<1>7. PoolBound'
  BY <1>0, <1>1
     DEF IInv, TypeOK, LoopType, OneLoop, CycleCounts, PoolBound, loopVars,
         cycleVars, Start
<1>8. BackoffOnlyWhenShort'
  BY <1>0, <1>1
     DEF IInv, TypeOK, LoopType, OneLoop, CycleCounts, BackoffOnlyWhenShort,
         loopVars, cycleVars, Start
<1> QED
  BY <1>1, <1>2, <1>3, <1>4, <1>5, <1>6, <1>7, <1>8 DEF IInv, TypeOK

\* Stop, first half.
LEMMA StopCancelStep ==
    ASSUME IInv, StopCancel
    PROVE  IInv'
<1> USE CfgFacts, BoundsAssumption
<1>0. Cardinality(live) \in Nat
  BY PoolCount DEF IInv
<1>1. live' = live /\ PoolType'
  BY PoolUnchanged DEF IInv, StopCancel
<1>2. LoopType'
  BY <1>0
     DEF IInv, TypeOK, LoopType, PC, CycleCounts, loopVars, cycleVars,
         StopCancel
<1>3. ManagerType' /\ (check \in [Requests -> Checks])'
  BY DEF IInv, TypeOK, ManagerType, mgrVars, StopCancel
<1>4. OneLoop' /\ StopOrder'
  BY DEF IInv, TypeOK, LoopType, OneLoop, StopOrder, loopVars, mgrVars,
         StopCancel
<1>5. LateCycles' /\ OneLateCycle'
  BY DEF IInv, TypeOK, LoopType, LateCycles, OneLateCycle, loopVars, mgrVars,
         UpTo, StopCancel
<1>6. CycleCounts'
  BY <1>0, <1>1
     DEF IInv, TypeOK, LoopType, OneLoop, CycleCounts, PoolBound, loopVars,
         cycleVars, StopCancel
<1>7. PoolBound'
  BY <1>0, <1>1
     DEF IInv, TypeOK, LoopType, OneLoop, CycleCounts, PoolBound, loopVars,
         cycleVars, StopCancel
<1>8. BackoffOnlyWhenShort'
  BY <1>0, <1>1
     DEF IInv, TypeOK, LoopType, OneLoop, CycleCounts, BackoffOnlyWhenShort,
         loopVars, cycleVars, StopCancel
<1> QED
  BY <1>1, <1>2, <1>3, <1>4, <1>5, <1>6, <1>7, <1>8 DEF IInv, TypeOK

\* Stop, second half.
LEMMA StopReturnStep ==
    ASSUME IInv, StopReturn
    PROVE  IInv'
<1> USE CfgFacts, BoundsAssumption
<1>0. Cardinality(live) \in Nat
  BY PoolCount DEF IInv
<1>1. live' = live /\ PoolType'
  BY PoolUnchanged DEF IInv, StopReturn
<1>2. LoopType'
  BY <1>0
     DEF IInv, TypeOK, LoopType, PC, CycleCounts, loopVars, cycleVars,
         StopReturn
<1>3. ManagerType' /\ (check \in [Requests -> Checks])'
  BY DEF IInv, TypeOK, ManagerType, mgrVars, StopReturn
<1>4. OneLoop' /\ StopOrder'
  BY DEF IInv, TypeOK, LoopType, OneLoop, StopOrder, loopVars, mgrVars,
         StopReturn
<1>5. LateCycles' /\ OneLateCycle'
  BY DEF IInv, TypeOK, LoopType, LateCycles, OneLateCycle, loopVars, mgrVars,
         UpTo, StopReturn
<1>6. CycleCounts'
  BY <1>0, <1>1
     DEF IInv, TypeOK, LoopType, OneLoop, CycleCounts, PoolBound, loopVars,
         cycleVars, StopReturn
<1>7. PoolBound'
  BY <1>0, <1>1
     DEF IInv, TypeOK, LoopType, OneLoop, CycleCounts, PoolBound, loopVars,
         cycleVars, StopReturn
<1>8. BackoffOnlyWhenShort'
  BY <1>0, <1>1
     DEF IInv, TypeOK, LoopType, OneLoop, CycleCounts, BackoffOnlyWhenShort,
         loopVars, cycleVars, StopReturn
<1> QED
  BY <1>1, <1>2, <1>3, <1>4, <1>5, <1>6, <1>7, <1>8 DEF IInv, TypeOK

\* A cycle begins; after a cancellation it is the first to do so.
LEMMA FilterNowStep ==
    ASSUME IInv, NEW l \in Loops, FilterNow(l)
    PROVE  IInv'
<1> USE CfgFacts, BoundsAssumption
<1>0. Cardinality(live) \in Nat
  BY PoolCount DEF IInv
<1>1. live' = live /\ PoolType'
  BY PoolUnchanged DEF IInv, FilterNow
<1>2. LoopType'
  BY <1>0
     DEF IInv, TypeOK, LoopType, PC, CycleCounts, loopVars, cycleVars,
         FilterNow, UpTo
<1>3. ManagerType' /\ (check \in [Requests -> Checks])'
  BY DEF IInv, TypeOK, ManagerType, mgrVars, FilterNow
<1>4. OneLoop' /\ StopOrder'
  BY DEF IInv, TypeOK, LoopType, OneLoop, StopOrder, loopVars, mgrVars,
         FilterNow, UpTo
<1>5. LateCycles' /\ OneLateCycle'
  BY DEF IInv, TypeOK, LoopType, LateCycles, OneLateCycle, loopVars, mgrVars,
         UpTo, FilterNow, UpTo
<1>6. CycleCounts'
  BY <1>0, <1>1
     DEF IInv, TypeOK, LoopType, OneLoop, CycleCounts, PoolBound, loopVars,
         cycleVars, FilterNow, UpTo
<1>7. PoolBound'
  BY <1>0, <1>1
     DEF IInv, TypeOK, LoopType, OneLoop, CycleCounts, PoolBound, loopVars,
         cycleVars, FilterNow, UpTo
<1>8. BackoffOnlyWhenShort'
  BY <1>0, <1>1
     DEF IInv, TypeOK, LoopType, OneLoop, CycleCounts, BackoffOnlyWhenShort,
         loopVars, cycleVars, FilterNow, UpTo
<1> QED
  BY <1>1, <1>2, <1>3, <1>4, <1>5, <1>6, <1>7, <1>8 DEF IInv, TypeOK

\* filter only takes tokens away.
LEMMA FilterStep ==
    ASSUME IInv, NEW l \in Loops, filter(l)
    PROVE  IInv'
<1> USE CfgFacts, BoundsAssumption
<1>0. Cardinality(live) \in Nat
  BY PoolCount DEF IInv
<1>1. /\ PoolType'
      /\ Cardinality(live') \in Nat
      /\ Cardinality(live') <= Cardinality(live)
  BY KeepFacts DEF IInv, PoolType, filter, kept
<1>2. LoopType'
  BY <1>0
     DEF IInv, TypeOK, LoopType, PC, CycleCounts, loopVars, cycleVars,
         filter, kept
<1>3. ManagerType' /\ (check \in [Requests -> Checks])'
  BY DEF IInv, TypeOK, ManagerType, mgrVars, filter
<1>4. OneLoop' /\ StopOrder'
  BY DEF IInv, TypeOK, LoopType, OneLoop, StopOrder, loopVars, mgrVars,
         filter, kept
<1>5. LateCycles' /\ OneLateCycle'
  BY DEF IInv, TypeOK, LoopType, LateCycles, OneLateCycle, loopVars, mgrVars,
         UpTo, filter, kept
<1>6. CycleCounts'
  BY <1>0, <1>1
     DEF IInv, TypeOK, LoopType, OneLoop, CycleCounts, PoolBound, loopVars,
         cycleVars, filter, kept
<1>7. PoolBound'
  BY <1>0, <1>1
     DEF IInv, TypeOK, LoopType, OneLoop, CycleCounts, PoolBound, loopVars,
         cycleVars, filter, kept
<1>8. BackoffOnlyWhenShort'
  BY <1>0, <1>1
     DEF IInv, TypeOK, LoopType, OneLoop, CycleCounts, BackoffOnlyWhenShort,
         loopVars, cycleVars, filter, kept
<1> QED
  BY <1>1, <1>2, <1>3, <1>4, <1>5, <1>6, <1>7, <1>8 DEF IInv, TypeOK

\* A cycle sets out to mint no more than the pool lacks.
LEMMA SpawnGensStep ==
    ASSUME IInv, NEW l \in Loops, SpawnGens(l)
    PROVE  IInv'
<1> USE CfgFacts, BoundsAssumption
<1>0. Cardinality(live) \in Nat
  BY PoolCount DEF IInv
<1>1. live' = live /\ PoolType'
  BY PoolUnchanged DEF IInv, SpawnGens
<1>2. LoopType'
  BY <1>0
     DEF IInv, TypeOK, LoopType, PC, CycleCounts, loopVars, cycleVars,
         SpawnGens, need, UpTo
<1>3. ManagerType' /\ (check \in [Requests -> Checks])'
  BY DEF IInv, TypeOK, ManagerType, mgrVars, SpawnGens
<1>4. OneLoop' /\ StopOrder'
  BY DEF IInv, TypeOK, LoopType, OneLoop, StopOrder, loopVars, mgrVars,
         SpawnGens, need, UpTo
<1>5. LateCycles' /\ OneLateCycle'
  BY DEF IInv, TypeOK, LoopType, LateCycles, OneLateCycle, loopVars, mgrVars,
         UpTo, SpawnGens, need
<1>6. CycleCounts'
  BY <1>0, <1>1
     DEF IInv, TypeOK, LoopType, OneLoop, CycleCounts, PoolBound, loopVars,
         cycleVars, SpawnGens, need, UpTo
<1>7. PoolBound'
  BY <1>0, <1>1
     DEF IInv, TypeOK, LoopType, OneLoop, CycleCounts, PoolBound, loopVars,
         cycleVars, SpawnGens, need, UpTo
<1>8. BackoffOnlyWhenShort'
  BY <1>0, <1>1
     DEF IInv, TypeOK, LoopType, OneLoop, CycleCounts, BackoffOnlyWhenShort,
         loopVars, cycleVars, SpawnGens, need, UpTo
<1> QED
  BY <1>1, <1>2, <1>3, <1>4, <1>5, <1>6, <1>7, <1>8 DEF IInv, TypeOK

\* A full pool.
LEMMA NothingNeededStep ==
    ASSUME IInv, NEW l \in Loops, NothingNeeded(l)
    PROVE  IInv'
<1> USE CfgFacts, BoundsAssumption
<1>0. Cardinality(live) \in Nat
  BY PoolCount DEF IInv
<1>1. live' = live /\ PoolType'
  BY PoolUnchanged DEF IInv, NothingNeeded
<1>2. LoopType'
  BY <1>0
     DEF IInv, TypeOK, LoopType, PC, CycleCounts, loopVars, cycleVars,
         NothingNeeded
<1>3. ManagerType' /\ (check \in [Requests -> Checks])'
  BY DEF IInv, TypeOK, ManagerType, mgrVars, NothingNeeded
<1>4. OneLoop' /\ StopOrder'
  BY DEF IInv, TypeOK, LoopType, OneLoop, StopOrder, loopVars, mgrVars,
         NothingNeeded
<1>5. LateCycles' /\ OneLateCycle'
  BY DEF IInv, TypeOK, LoopType, LateCycles, OneLateCycle, loopVars, mgrVars,
         UpTo, NothingNeeded
<1>6. CycleCounts'
  BY <1>0, <1>1
     DEF IInv, TypeOK, LoopType, OneLoop, CycleCounts, PoolBound, loopVars,
         cycleVars, NothingNeeded
<1>7. PoolBound'
  BY <1>0, <1>1
     DEF IInv, TypeOK, LoopType, OneLoop, CycleCounts, PoolBound, loopVars,
         cycleVars, NothingNeeded
<1>8. BackoffOnlyWhenShort'
  BY <1>0, <1>1
     DEF IInv, TypeOK, LoopType, OneLoop, CycleCounts, BackoffOnlyWhenShort,
         loopVars, cycleVars, NothingNeeded
<1> QED
  BY <1>1, <1>2, <1>3, <1>4, <1>5, <1>6, <1>7, <1>8 DEF IInv, TypeOK

\* shrink only takes tokens away and ends the cycle with the normal wait.
LEMMA ShrinkStep ==
    ASSUME IInv, NEW l \in Loops, shrink(l)
    PROVE  IInv'
<1> USE CfgFacts, BoundsAssumption
<1>0. Cardinality(live) \in Nat
  BY PoolCount DEF IInv
<1>1. /\ PoolType'
      /\ Cardinality(live') \in Nat
      /\ Cardinality(live') <= Cardinality(live)
  BY KeepFacts DEF IInv, PoolType, shrink, EnterSelect, nextWait
<1>2. LoopType'
  BY <1>0
     DEF IInv, TypeOK, LoopType, PC, CycleCounts, loopVars, cycleVars,
         shrink, EnterSelect, nextWait
<1>3. ManagerType' /\ (check \in [Requests -> Checks])'
  BY DEF IInv, TypeOK, ManagerType, mgrVars, shrink
<1>4. OneLoop' /\ StopOrder'
  BY DEF IInv, TypeOK, LoopType, OneLoop, StopOrder, loopVars, mgrVars,
         shrink, EnterSelect, nextWait
<1>5. LateCycles' /\ OneLateCycle'
  BY DEF IInv, TypeOK, LoopType, LateCycles, OneLateCycle, loopVars, mgrVars,
         UpTo, shrink, EnterSelect, nextWait
<1>6. CycleCounts'
  BY <1>0, <1>1
     DEF IInv, TypeOK, LoopType, OneLoop, CycleCounts, PoolBound, loopVars,
         cycleVars, shrink, EnterSelect, nextWait
<1>7. PoolBound'
  BY <1>0, <1>1
     DEF IInv, TypeOK, LoopType, OneLoop, CycleCounts, PoolBound, loopVars,
         cycleVars, shrink, EnterSelect, nextWait
<1>8. BackoffOnlyWhenShort'
  BY <1>0, <1>1
     DEF IInv, TypeOK, LoopType, OneLoop, CycleCounts, BackoffOnlyWhenShort,
         loopVars, cycleVars, shrink, EnterSelect, nextWait
<1> QED
  BY <1>1, <1>2, <1>3, <1>4, <1>5, <1>6, <1>7, <1>8 DEF IInv, TypeOK

\* A generator fails.
LEMMA GenFailStep ==
    ASSUME IInv, NEW l \in Loops, GenFail(l)
    PROVE  IInv'
<1> USE CfgFacts, BoundsAssumption
<1>0. Cardinality(live) \in Nat
  BY PoolCount DEF IInv
<1>1. live' = live /\ PoolType'
  BY PoolUnchanged DEF IInv, GenFail
<1>2. LoopType'
  BY <1>0
     DEF IInv, TypeOK, LoopType, PC, CycleCounts, loopVars, cycleVars,
         GenFail
<1>3. ManagerType' /\ (check \in [Requests -> Checks])'
  BY DEF IInv, TypeOK, ManagerType, mgrVars, GenFail
<1>4. OneLoop' /\ StopOrder'
  BY DEF IInv, TypeOK, LoopType, OneLoop, StopOrder, loopVars, mgrVars,
         GenFail
<1>5. LateCycles' /\ OneLateCycle'
  BY DEF IInv, TypeOK, LoopType, LateCycles, OneLateCycle, loopVars, mgrVars,
         UpTo, GenFail
<1>6. CycleCounts'
  BY <1>0, <1>1
     DEF IInv, TypeOK, LoopType, OneLoop, CycleCounts, PoolBound, loopVars,
         cycleVars, GenFail
<1>7. PoolBound'
  BY <1>0, <1>1
     DEF IInv, TypeOK, LoopType, OneLoop, CycleCounts, PoolBound, loopVars,
         cycleVars, GenFail
<1>8. BackoffOnlyWhenShort'
  BY <1>0, <1>1
     DEF IInv, TypeOK, LoopType, OneLoop, CycleCounts, BackoffOnlyWhenShort,
         loopVars, cycleVars, GenFail
<1> QED
  BY <1>1, <1>2, <1>3, <1>4, <1>5, <1>6, <1>7, <1>8 DEF IInv, TypeOK

\* A cycle without success leaves the pool short and backs off.
LEMMA GensDoneStep ==
    ASSUME IInv, NEW l \in Loops, GensDone(l)
    PROVE  IInv'
<1> USE CfgFacts, BoundsAssumption
<1>0. Cardinality(live) \in Nat
  BY PoolCount DEF IInv
<1>1. live' = live /\ PoolType'
  BY PoolUnchanged DEF IInv, GensDone
<1>2. LoopType'
  BY <1>0
     DEF IInv, TypeOK, LoopType, PC, CycleCounts, loopVars, cycleVars,
         GensDone, EnterSelect, nextWait, UpTo
<1>3. ManagerType' /\ (check \in [Requests -> Checks])'
  BY DEF IInv, TypeOK, ManagerType, mgrVars, GensDone
<1>4. OneLoop' /\ StopOrder'
  BY DEF IInv, TypeOK, LoopType, OneLoop, StopOrder, loopVars, mgrVars,
         GensDone, EnterSelect, nextWait, UpTo
<1>5. LateCycles' /\ OneLateCycle'
  BY DEF IInv, TypeOK, LoopType, LateCycles, OneLateCycle, loopVars, mgrVars,
         UpTo, GensDone, EnterSelect, nextWait, UpTo
<1>6. CycleCounts'
  BY <1>0, <1>1
     DEF IInv, TypeOK, LoopType, OneLoop, CycleCounts, PoolBound, loopVars,
         cycleVars, GensDone, EnterSelect, nextWait, UpTo
<1>7. PoolBound'
  BY <1>0, <1>1
     DEF IInv, TypeOK, LoopType, OneLoop, CycleCounts, PoolBound, loopVars,
         cycleVars, GensDone, EnterSelect, nextWait, UpTo
<1>8. BackoffOnlyWhenShort'
  <2>1. nextWait(l) \in cfg.Sleep..maxBackoff
    BY DEF IInv, TypeOK, LoopType, BackoffOnlyWhenShort, nextWait, UpTo
  <2>2. nextWait(l) > cfg.Sleep => Cardinality(live) < cfg.Size
    BY DEF IInv, CycleCounts, GensDone, nextWait
  <2>3. wait' = [wait EXCEPT ![l] = nextWait(l)]
    BY DEF GensDone, EnterSelect
  <2>4. pc' = [pc EXCEPT ![l] = IF cancelled THEN "exited" ELSE "sleep"]
    BY DEF GensDone, EnterSelect
  <2> QED
    BY <1>0, <1>1, <2>1, <2>2, <2>3, <2>4
       DEF IInv, TypeOK, LoopType, BackoffOnlyWhenShort
<1> QED
  BY <1>1, <1>2, <1>3, <1>4, <1>5, <1>6, <1>7, <1>8 DEF IInv, TypeOK

\* The timer fires.
LEMMA WakeStep ==
    ASSUME IInv, NEW l \in Loops, Wake(l)
    PROVE  IInv'
<1> USE CfgFacts, BoundsAssumption
<1>0. Cardinality(live) \in Nat
  BY PoolCount DEF IInv
<1>1. live' = live /\ PoolType'
  BY PoolUnchanged DEF IInv, Wake
<1>2. LoopType'
  BY <1>0
     DEF IInv, TypeOK, LoopType, PC, CycleCounts, loopVars, cycleVars, Wake
<1>3. ManagerType' /\ (check \in [Requests -> Checks])'
  BY DEF IInv, TypeOK, ManagerType, mgrVars, Wake
<1>4. OneLoop' /\ StopOrder'
  BY DEF IInv, TypeOK, LoopType, OneLoop, StopOrder, loopVars, mgrVars, Wake
<1>5. LateCycles' /\ OneLateCycle'
  BY DEF IInv, TypeOK, LoopType, LateCycles, OneLateCycle, loopVars, mgrVars,
         UpTo, Wake
<1>6. CycleCounts'
  BY <1>0, <1>1
     DEF IInv, TypeOK, LoopType, OneLoop, CycleCounts, PoolBound, loopVars,
         cycleVars, Wake
<1>7. PoolBound'
  BY <1>0, <1>1
     DEF IInv, TypeOK, LoopType, OneLoop, CycleCounts, PoolBound, loopVars,
         cycleVars, Wake
<1>8. BackoffOnlyWhenShort'
  BY <1>0, <1>1
     DEF IInv, TypeOK, LoopType, OneLoop, CycleCounts, BackoffOnlyWhenShort,
         loopVars, cycleVars, Wake
<1> QED
  BY <1>1, <1>2, <1>3, <1>4, <1>5, <1>6, <1>7, <1>8 DEF IInv, TypeOK

\* The loop ends.
LEMMA LoopExitStep ==
    ASSUME IInv, NEW l \in Loops, LoopExit(l)
    PROVE  IInv'
<1> USE CfgFacts, BoundsAssumption
<1>0. Cardinality(live) \in Nat
  BY PoolCount DEF IInv
<1>1. live' = live /\ PoolType'
  BY PoolUnchanged DEF IInv, LoopExit
<1>2. LoopType'
  BY <1>0
     DEF IInv, TypeOK, LoopType, PC, CycleCounts, loopVars, cycleVars,
         LoopExit
<1>3. ManagerType' /\ (check \in [Requests -> Checks])'
  BY DEF IInv, TypeOK, ManagerType, mgrVars, LoopExit
<1>4. OneLoop' /\ StopOrder'
  BY DEF IInv, TypeOK, LoopType, OneLoop, StopOrder, loopVars, mgrVars,
         LoopExit
<1>5. LateCycles' /\ OneLateCycle'
  BY DEF IInv, TypeOK, LoopType, LateCycles, OneLateCycle, loopVars, mgrVars,
         UpTo, LoopExit
<1>6. CycleCounts'
  BY <1>0, <1>1
     DEF IInv, TypeOK, LoopType, OneLoop, CycleCounts, PoolBound, loopVars,
         cycleVars, LoopExit
<1>7. PoolBound'
  BY <1>0, <1>1
     DEF IInv, TypeOK, LoopType, OneLoop, CycleCounts, PoolBound, loopVars,
         cycleVars, LoopExit
<1>8. BackoffOnlyWhenShort'
  BY <1>0, <1>1
     DEF IInv, TypeOK, LoopType, OneLoop, CycleCounts, BackoffOnlyWhenShort,
         loopVars, cycleVars, LoopExit
<1> QED
  BY <1>1, <1>2, <1>3, <1>4, <1>5, <1>6, <1>7, <1>8 DEF IInv, TypeOK

\* A generator adds its token: one more in the pool, one fewer pending.
LEMMA AddStep ==
    ASSUME IInv, NEW l \in Loops, NEW t \in TokenIds, add(l, t)
    PROVE  IInv'
<1> USE CfgFacts, BoundsAssumption
<1>0. Cardinality(live) \in Nat
  BY PoolCount DEF IInv
<1>1. PoolType' /\ Cardinality(live') = Cardinality(live) + 1
  BY AddFacts DEF IInv, PoolType, add
<1>2. LoopType'
  BY <1>0
     DEF IInv, TypeOK, LoopType, PC, CycleCounts, loopVars, cycleVars, add
<1>3. ManagerType' /\ (check \in [Requests -> Checks])'
  BY DEF IInv, TypeOK, ManagerType, mgrVars, add
<1>4. OneLoop' /\ StopOrder'
  BY DEF IInv, TypeOK, LoopType, OneLoop, StopOrder, loopVars, mgrVars, add
<1>5. LateCycles' /\ OneLateCycle'
  BY DEF IInv, TypeOK, LoopType, LateCycles, OneLateCycle, loopVars, mgrVars,
         UpTo, add
<1>6. CycleCounts'
  BY <1>0, <1>1
     DEF IInv, TypeOK, LoopType, OneLoop, CycleCounts, PoolBound, loopVars,
         cycleVars, add
<1>7. PoolBound'
  BY <1>0, <1>1
     DEF IInv, TypeOK, LoopType, OneLoop, CycleCounts, PoolBound, loopVars,
         cycleVars, add
<1>8. BackoffOnlyWhenShort'
  BY <1>0, <1>1
     DEF IInv, TypeOK, LoopType, OneLoop, CycleCounts, BackoffOnlyWhenShort,
         loopVars, cycleVars, add
<1> QED
  BY <1>1, <1>2, <1>3, <1>4, <1>5, <1>6, <1>7, <1>8 DEF IInv, TypeOK

\* The request path changes usages and the requests' copies, never which
\* tokens are in the pool.
LEMMA GetFacts ==
    ASSUME IInv, NEW r \in Requests, Get(r)
    PROVE  PoolType' /\ live' = live /\ (check \in [Requests -> Checks])'
<1> USE CfgFacts, BoundsAssumption
<1>1. PICK t \in live :
         /\ tokens' = [tokens EXCEPT ![t].usages = UpTo(@ + 1, UsageCap)]
         /\ check' = [check EXCEPT ![r] =
                         [from |-> "pool",
                          use |-> UpTo(tokens[t].usages + 1, UsageCap),
                          age |-> tokens[t].age]]
  BY DEF Get
<1>2. tokens[t] \in Token /\ tokens \in [live -> Token]
  BY DEF IInv, TypeOK, PoolType
<1>3. live' = live
  BY <1>1 DEF live
<1>4. UpTo(tokens[t].usages + 1, UsageCap) \in 0..UsageCap
  BY <1>2 DEF Token, UpTo
<1>5. tokens' \in [live -> Token]
  BY <1>1, <1>2, <1>4 DEF Token
<1>6. [from |-> "pool", use |-> UpTo(tokens[t].usages + 1, UsageCap),
       age |-> tokens[t].age] \in Checks
  BY <1>2, <1>4 DEF Token, Checks
<1>7. (check \in [Requests -> Checks])'
  BY <1>1, <1>6 DEF IInv, TypeOK
<1> QED
  BY <1>3, <1>5, <1>7 DEF IInv, TypeOK, PoolType

\* The end of a crawler check touches only the request that made it.
LEMMA CheckFacts ==
    ASSUME IInv, NEW r \in Requests, GetMiss(r) \/ InlineGen(r) \/ CheckDone(r)
    PROVE  PoolType' /\ live' = live /\ (check \in [Requests -> Checks])'
<1> USE CfgFacts, BoundsAssumption
<1>1. tokens' = tokens
  BY DEF GetMiss, InlineGen, CheckDone
<1>2. PoolType' /\ live' = live
  BY <1>1, PoolUnchanged DEF IInv
<1>3. Idle \in Checks /\ [from |-> "fresh", use |-> 1, age |-> 0] \in Checks
  BY DEF Idle, Checks
<1>4. (check \in [Requests -> Checks])'
  <2>1. CASE GetMiss(r)
    BY <2>1 DEF GetMiss, IInv, TypeOK, Checks
  <2>2. CASE InlineGen(r)
    BY <2>2, <1>3 DEF InlineGen, IInv, TypeOK, Checks
  <2>3. CASE CheckDone(r)
    BY <2>3, <1>3 DEF CheckDone, IInv, TypeOK
  <2> QED
    BY <2>1, <2>2, <2>3
<1> QED
  BY <1>2, <1>4

\* The steps of the crawlers (Get, inline generation) keep the invariant.
LEMMA RequestStep ==
    ASSUME IInv, NEW r \in Requests, Request(r)
    PROVE  IInv'
<1>1. PoolType' /\ live' = live /\ (check \in [Requests -> Checks])'
  BY GetFacts, CheckFacts DEF Request
<1>2. UNCHANGED <<loopVars, mgrVars>>
  BY DEF Request, Get, GetMiss, InlineGen, CheckDone
<1>3. TypeOK'
  BY <1>1, <1>2
     DEF IInv, TypeOK, LoopType, ManagerType, loopVars, cycleVars, mgrVars
<1>4. OneLoop' /\ StopOrder' /\ LateCycles' /\ OneLateCycle'
  BY <1>2
     DEF IInv, OneLoop, StopOrder, LateCycles, OneLateCycle, loopVars,
         mgrVars
<1>5. CycleCounts' /\ PoolBound' /\ BackoffOnlyWhenShort'
  BY <1>1, <1>2
     DEF IInv, CycleCounts, PoolBound, BackoffOnlyWhenShort, loopVars,
         cycleVars
<1> QED
  BY <1>3, <1>4, <1>5 DEF IInv

\* Time passes: ages, timers and lags move, nothing else does.
LEMMA TickStep ==
    ASSUME IInv, Tick
    PROVE  IInv'
<1> USE CfgFacts, BoundsAssumption
<1>1. live' = live
  BY DEF Tick, live
<1>2. PoolType'
  <2>1. \A t \in live : [tokens[t] EXCEPT !.age = UpTo(@ + 1, AgeCap)] \in Token
    BY DEF IInv, TypeOK, PoolType, Token, UpTo
  <2>2. tokens' \in [live -> Token]
    BY <2>1 DEF Tick
  <2> QED
    BY <1>1, <2>2 DEF IInv, TypeOK, PoolType
<1>3. LoopType'
  BY DEF IInv, TypeOK, LoopType, cycleVars, Tick
<1>4. ManagerType' /\ (check \in [Requests -> Checks])'
  BY DEF IInv, TypeOK, ManagerType, mgrVars, Tick
<1>5. OneLoop' /\ StopOrder' /\ LateCycles' /\ OneLateCycle'
  BY DEF IInv, OneLoop, StopOrder, LateCycles, OneLateCycle, mgrVars, Tick
<1>6. CycleCounts' /\ PoolBound' /\ BackoffOnlyWhenShort'
  BY <1>1
     DEF IInv, CycleCounts, PoolBound, BackoffOnlyWhenShort, cycleVars, Tick
<1> QED
  BY <1>1, <1>2, <1>3, <1>4, <1>5, <1>6 DEF IInv, TypeOK

\* A stuttering step keeps the invariant.
LEMMA StutterStep ==
    ASSUME IInv, UNCHANGED vars
    PROVE  IInv'
<1>1. live' = live /\ PoolType'
  BY PoolUnchanged DEF IInv, vars
<1>2. UNCHANGED <<loopVars, mgrVars, check>>
  BY DEF vars
<1>3. TypeOK'
  BY <1>1, <1>2
     DEF IInv, TypeOK, LoopType, ManagerType, loopVars, cycleVars, mgrVars
<1>4. OneLoop' /\ StopOrder' /\ LateCycles' /\ OneLateCycle'
  BY <1>2
     DEF IInv, OneLoop, StopOrder, LateCycles, OneLateCycle, loopVars,
         mgrVars
<1>5. CycleCounts' /\ PoolBound' /\ BackoffOnlyWhenShort'
  BY <1>1, <1>2
     DEF IInv, CycleCounts, PoolBound, BackoffOnlyWhenShort, loopVars,
         cycleVars
<1> QED
  BY <1>3, <1>4, <1>5 DEF IInv

\* Every step of the manager, the loops, the generators and the crawlers keeps
\* the invariant.
LEMMA NextIInv == IInv /\ [Next]_vars => IInv'
<1> SUFFICES ASSUME IInv, [Next]_vars PROVE IInv'
  OBVIOUS
<1>1. ASSUME NEW l \in Loops, Start(l) \/ LoopStep(l) PROVE IInv'
  BY <1>1, StartStep, FilterNowStep, FilterStep, SpawnGensStep,
     NothingNeededStep, ShrinkStep, GenFailStep, AddStep, GensDoneStep,
     WakeStep, LoopExitStep DEF LoopStep
<1>2. CASE StopCancel
  BY <1>2, StopCancelStep
<1>3. CASE StopReturn
  BY <1>3, StopReturnStep
<1>4. ASSUME NEW r \in Requests, Request(r) PROVE IInv'
  BY <1>4, RequestStep
<1>5. CASE Tick
  BY <1>5, TickStep
<1>6. CASE UNCHANGED vars
  BY <1>6, StutterStep
<1> QED
  BY <1>1, <1>2, <1>3, <1>4, <1>5, <1>6 DEF Next

-----------------------------------------------------------------------------
(* The theorems                                                            *)

\* The inductive invariant holds in every reachable state.
LEMMA Invariance == Spec => []IInv
  BY InitIInv, NextIInv, PTL DEF Spec

\* Every reachable state of the pool, its loops and its requests has the
\* types the code declares, saturated counts included.
THEOREM TypeCorrect == Spec => []TypeOK
<1>1. IInv => TypeOK
  BY DEF IInv
<1> QED
  BY <1>1, Invariance, PTL

\* Pool.refillOnce never fills the pool beyond Size, for every Config, cap and
\* number of Start calls, although it counts and adds in separate sections.
THEOREM PoolNeverOverfull == Spec => []PoolBound
<1>1. IInv => PoolBound
  BY DEF IInv
<1> QED
  BY <1>1, Invariance, PTL

\* Pool.run's back-off stays within [Sleep, maxBackoff] and is in force only
\* while the pool is short of tokens.
THEOREM BackoffSound == Spec => []BackoffOnlyWhenShort
<1>1. IInv => BackoffOnlyWhenShort
  BY DEF IInv
<1> QED
  BY <1>1, Invariance, PTL

\* A cancelled Pool.run begins at most one more refill cycle.
THEOREM CancelBoundsCycles == Spec => []OneLateCycle
<1>1. IInv => OneLateCycle
  BY DEF IInv
<1> QED
  BY <1>1, Invariance, PTL

\* After Manager.Stop has returned the pool never grows again.
THEOREM StopIsFinal == Spec => NoRefillAfterStop
<1>1. IInv /\ [Next]_vars => [stopped => live' \subseteq live]_vars
  <2> SUFFICES ASSUME IInv, Next, stopped PROVE live' \subseteq live
    OBVIOUS
  <2>1. started /\ \A l \in Loops : pc[l] \in {"none", "exited"}
    BY DEF IInv, StopOrder
  <2>2. ASSUME NEW l \in Loops, Start(l) \/ LoopStep(l) PROVE FALSE
    BY <2>1, <2>2 DEF Start, LoopStep, FilterNow, filter, SpawnGens,
       NothingNeeded, shrink, GenFail, add, GensDone, Wake, LoopExit
  <2>3. ASSUME NEW r \in Requests, Request(r) PROVE live' = live
    BY <2>3, GetFacts, CheckFacts DEF Request
  <2>4. CASE StopCancel \/ StopReturn
    BY <2>4 DEF StopCancel, StopReturn, live
  <2>5. CASE Tick
    BY <2>5 DEF Tick, live
  <2> QED
    BY <2>2, <2>3, <2>4, <2>5 DEF Next
<1> QED
  BY <1>1, Invariance, PTL DEF Spec, NoRefillAfterStop
=============================================================================
