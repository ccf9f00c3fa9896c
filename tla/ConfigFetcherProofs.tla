------------------------- MODULE ConfigFetcherProofs -------------------------
(***************************************************************************)
(* Proofs about ConfigFetcher, for any number of keys, values and changes, *)
(* any page size, with or without an override table.                       *)
(***************************************************************************)
EXTENDS ConfigFetcher, FiniteSetTheorems, TLAPS

-----------------------------------------------------------------------------
(* Types                                                                   *)

\* parseValue makes a map entry of every row that has a value.
LEMMA ParseType ==
    ASSUME NEW row \in Row, row # NoRow
    PROVE  parseValue(row) \in Entry
  BY DEF Row, Entry, parseValue

\* NoRow and Absent are a row and an entry.
LEMMA NoneType == NoRow \in Row /\ Absent \in Entry
  BY DEF Row, Entry

\* A latest audit id is -1 or the length of the log.
LEMMA LatestType ==
    ASSUME TypeOK, NEW id \in latestAuditID
    PROVE  id \in {-1, Len(audit)} /\ id \in -1..MaxWrites
  BY FetcherAssumption DEF TypeOK, TableType, latestAuditID

\* A new Fetcher over empty or filled tables is well typed.
LEMMA InitType == Init => TypeOK
<1> SUFFICES ASSUME Init PROVE TypeOK
  OBVIOUS
<1> USE FetcherAssumption
<1>1. TableType
  BY NoneType DEF Init, TableType, Keys
<1>2. configMap \in [Keys -> Entry]
  BY NoneType DEF Init
<1>3. LoopType
  <2>1. 0 \in -1..MaxWrites /\ 0 \in Nat
    OBVIOUS
  <2>2. lpc = "seed" /\ mode = "load" /\ lastPage = FALSE /\ todo = {}
    BY DEF Init
  <2>3. auditID = 0 /\ latest = 0 /\ offset = 0
    BY DEF Init
  <2> QED
    BY <2>1, <2>2, <2>3, Zenon DEF LoopType
<1>4. RefreshType
  BY NoneType DEF Init, RefreshType
<1>5. missed \subseteq Keys /\ harmed \in BOOLEAN
  BY DEF Init
<1> QED
  BY <1>1, <1>2, <1>3, <1>4, <1>5 DEF TypeOK

\* A change of a table and its audit row.
LEMMA WriteType ==
    ASSUME TypeOK, NEW k \in Keys, NEW row \in Row, Write(k, row)
    PROVE  TypeOK'
<1> USE FetcherAssumption
<1>1. TableType'
  <2>1. base' \in [Keys -> Row] /\ over' \in [Keys -> Row]
    BY DEF Write, TypeOK, TableType
  <2>2. audit' \in Seq(Keys) /\ Len(audit') = Len(audit) + 1
    BY DEF Write, TypeOK, TableType
  <2> QED
    BY <2>1, <2>2 DEF Write, TypeOK, TableType
<1>2. LoopType' /\ RefreshType' /\ (configMap \in [Keys -> Entry])' /\ missed' = missed
  BY DEF Write, TypeOK, LoopType, RefreshType, loopVars, refreshVars
<1>3. harmed' \in BOOLEAN
  BY DEF Write, TypeOK
<1> QED
  BY <1>1, <1>2, <1>3 DEF TypeOK

\* The loop's own steps, refreshKey apart.
LEMMA LoopStepType ==
    ASSUME TypeOK,
           \/ Seed \/ allKeys \/ PageFails \/ PageDone \/ fetchUpdates
           \/ deltaQuery \/ DeltaFails \/ RoundDone \/ StopLoop
    PROVE  TypeOK'
<1> USE FetcherAssumption
<1>1. UNCHANGED <<dbVars, configMap, refreshVars>>
  BY DEF Seed, allKeys, PageFails, PageDone, fetchUpdates, deltaQuery,
         DeltaFails, RoundDone, StopLoop
<1>2. TableType' /\ RefreshType' /\ (configMap \in [Keys -> Entry])'
  BY <1>1 DEF TypeOK, TableType, RefreshType, dbVars, refreshVars
<1>3. (missed \subseteq Keys)' /\ harmed' \in BOOLEAN
  BY DEF TypeOK, Seed, allKeys, PageFails, PageDone, fetchUpdates, deltaQuery,
         DeltaFails, RoundDone, StopLoop, histVars
<1>4. LoopType'
  <2>1. CASE Seed
    BY <2>1, LatestType DEF TypeOK, LoopType, Seed
  <2>2. CASE allKeys
    <3>1. page \subseteq Keys
      BY DEF page, rows
    <3>2. IsFiniteSet(Keys)
      BY FS_Interval DEF Keys
    <3>3. Cardinality(page) \in Nat
      BY <3>1, <3>2, FS_Subset, FS_CardinalityType
    <3> QED
      BY <2>2, <3>1, <3>3 DEF TypeOK, LoopType, allKeys
  <2>3. CASE PageFails \/ PageDone
    BY <2>3 DEF TypeOK, LoopType, PageFails, PageDone
  <2>4. CASE fetchUpdates
    BY <2>4, LatestType DEF TypeOK, LoopType, fetchUpdates
  <2>5. CASE deltaQuery \/ DeltaFails
    BY <2>5 DEF TypeOK, LoopType, deltaQuery, DeltaFails, delta
  <2>6. CASE RoundDone \/ StopLoop
    BY <2>6 DEF TypeOK, LoopType, RoundDone, StopLoop
  <2> QED
    BY <2>1, <2>2, <2>3, <2>4, <2>5, <2>6
<1> QED
  BY <1>2, <1>3, <1>4 DEF TypeOK

\* refreshKey, by any thread.
LEMMA RefreshStepType ==
    ASSUME TypeOK, NEW t \in Threads,
           \/ \E k \in Keys : RefreshNext(k) /\ t = TheLoop
           \/ \E k \in Keys : GetMiss(t, k)
           \/ refreshKey(t)
    PROVE  TypeOK'
<1> USE FetcherAssumption, NoneType
<1>1. CASE \E k \in Keys : RefreshNext(k) /\ t = TheLoop
  <2>1. PICK k \in Keys : RefreshNext(k) /\ t = TheLoop
    BY <1>1
  <2>2. RefreshType'
    BY <2>1 DEF RefreshNext, Call, TypeOK, RefreshType, Keys
  <2>3. TableType' /\ LoopType' /\ (configMap \in [Keys -> Entry])'
    BY <2>1 DEF RefreshNext, TypeOK, TableType, LoopType, dbVars
  <2> QED
    BY <2>1, <2>2, <2>3 DEF RefreshNext, TypeOK, histVars
<1>2. CASE \E k \in Keys : GetMiss(t, k)
  <2>1. PICK k \in Keys : GetMiss(t, k)
    BY <1>2
  <2>2. RefreshType'
    BY <2>1 DEF GetMiss, Call, TypeOK, RefreshType, Keys
  <2>3. TableType' /\ LoopType' /\ (configMap \in [Keys -> Entry])'
    BY <2>1 DEF GetMiss, TypeOK, TableType, LoopType, dbVars, loopVars
  <2> QED
    BY <2>1, <2>2, <2>3 DEF GetMiss, TypeOK, histVars
<1>3. CASE refreshKey(t)
  <2>1. UNCHANGED <<dbVars, loopVars, harmed>>
    BY <1>3 DEF refreshKey, ReadBase, BaseFails, ReadOverride, OverrideFails,
                Store, histVars
  <2>2. TableType' /\ LoopType' /\ harmed' \in BOOLEAN
    BY <2>1 DEF TypeOK, TableType, LoopType, dbVars, loopVars
  <2>3. RefreshType'
    <3>1. CASE ReadBase(t)
      BY <3>1 DEF ReadBase, TypeOK, RefreshType, TableType
    <3>2. CASE ReadOverride(t)
      BY <3>2 DEF ReadOverride, TypeOK, RefreshType, TableType
    <3>3. CASE OverrideFails(t)
      BY <3>3 DEF OverrideFails, TypeOK, RefreshType
    <3>4. CASE BaseFails(t) \/ Store(t)
      BY <3>4 DEF BaseFails, Store, Return, TypeOK, RefreshType
    <3> QED
      BY <1>3, <3>1, <3>2, <3>3, <3>4 DEF refreshKey
  <2>4. (missed \subseteq Keys)'
    BY <1>3 DEF refreshKey, ReadBase, BaseFails, ReadOverride, OverrideFails,
                Store, Missed, histVars, TypeOK, RefreshType
  <2>5. (configMap \in [Keys -> Entry])'
    BY <1>3, ParseType
       DEF refreshKey, ReadBase, BaseFails, ReadOverride, OverrideFails,
           Store, TypeOK, RefreshType
  <2> QED
    BY <2>2, <2>3, <2>4, <2>5 DEF TypeOK
<1> QED
  BY <1>1, <1>2, <1>3

\* Every step of the database, the loop and the callers of Get keeps the types.
LEMMA NextType == TypeOK /\ [Next]_vars => TypeOK'
<1> SUFFICES ASSUME TypeOK, [Next]_vars PROVE TypeOK'
  OBVIOUS
<1>1. ASSUME NEW k \in Keys, NEW row \in Row, Write(k, row) PROVE TypeOK'
  BY <1>1, WriteType
<1>2. CASE Loop
  BY <1>2, LoopStepType, RefreshStepType DEF Loop, Threads
<1>3. CASE StopLoop
  BY <1>3, LoopStepType
<1>4. ASSUME NEW g \in Getters, (\E k \in Keys : GetMiss(g, k)) \/ refreshKey(g)
      PROVE  TypeOK'
  BY <1>4, RefreshStepType DEF Threads
<1>5. CASE UNCHANGED vars
  BY <1>5 DEF vars, dbVars, loopVars, refreshVars, histVars, TypeOK, TableType,
              LoopType, RefreshType
<1> QED
  BY <1>1, <1>2, <1>3, <1>4, <1>5 DEF Next

\* Every reachable state of the tables, the map, the loop and the threads in
\* refreshKey is well typed, whatever fails: only parsed values reach the map.
THEOREM TypeCorrect == Spec => []TypeOK
  BY InitType, NextType, PTL DEF Spec

-----------------------------------------------------------------------------
(* No change is lost                                                       *)

\* k was changed after audit id h.
Later(k, h) == \E i \in 1..Len(audit) : i > h /\ audit[i] = k

\* A round of fetchUpdates is under way, and the id auditID is about to get.
InRound == lpc = "delta" \/ (lpc = "refresh" /\ mode = "update")
Horizon == IF InRound THEN latest ELSE auditID

\* refreshKey runs in the loop only for a key of the page or round, and
\* consults an override table only if there is one.
LoopOrder ==
    /\ rpc[TheLoop] # "off" => lpc = "refresh"
    /\ rpc[TheLoop] = "override" => HasOverride
    /\ lpc \in {"seed", "page"} => mode = "load"
    /\ lpc \in {"idle", "delta"} => mode = "update"
    /\ lpc = "seed" => \A k \in Keys : configMap[k] = Absent

\* The stored id and the id of the round are behind the end of the log.
IdOrder ==
    /\ lpc # "seed" => auditID <= Len(audit)
    /\ InRound => auditID < latest /\ latest <= Len(audit)

\* What refreshKey has read is current, or the key changed after the horizon.
ReadCurrent ==
    LET k == rkey[TheLoop]
    IN /\ rpc[TheLoop] = "override" => rval[TheLoop] = base[k] \/ Later(k, Horizon)
       /\ rpc[TheLoop] = "store" => rval[TheLoop] = effective(k) \/ Later(k, Horizon)

\* The key is one this round is yet to refresh or is refreshing.
InWork(k) ==
    /\ lpc = "refresh"
    /\ mode = "update"
    /\ k \in todo \/ (rpc[TheLoop] # "off" /\ rkey[TheLoop] = k)

\* A stale key changed after the horizon, or the round still has to get to it.
StaleAhead ==
    \A k \in Keys : Stale(k) =>
        \/ Later(k, Horizon)
        \/ lpc = "delta" /\ Later(k, auditID)
        \/ InWork(k)

\* The keys of a round come from the log.
WorkAudited == \A k \in Keys : InWork(k) => Later(k, auditID)

Pending == LoopOrder /\ IdOrder /\ ReadCurrent /\ StaleAhead /\ WorkAudited

\* The pending keys are found by the next round: what the runs check.
LEMMA PendingSuffices ==
    ASSUME TypeOK, Pending
    PROVE  StaleIsPending
<1> SUFFICES ASSUME NEW k \in Keys, Stale(k) PROVE Later(k, auditID)
  BY DEF StaleIsPending, Audited, Later
<1>1. CASE Later(k, Horizon)
  BY <1>1 DEF Pending, IdOrder, Horizon, Later, TypeOK, LoopType, TableType
<1>2. CASE InWork(k)
  BY <1>2 DEF Pending, WorkAudited
<1> QED
  BY <1>1, <1>2 DEF Pending, StaleAhead

\* A change is later than every id the log had reached, and changes stay.
LEMMA LaterWrite ==
    ASSUME TypeOK, NEW k \in Keys, audit' = Append(audit, k), NEW h \in Int
    PROVE  /\ \A j \in Keys : Later(j, h) => Later(j, h)'
           /\ h <= Len(audit) => Later(k, h)'
  BY DEF Later, TypeOK, TableType

\* Before the audit id is seeded nothing is promised; the invariant holds.
LEMMA InitPending == Init => Pending
<1> SUFFICES ASSUME Init PROVE Pending
  OBVIOUS
<1>1. TheLoop \in Threads
  BY DEF Threads
<1>2. rpc[TheLoop] = "off" /\ lpc = "seed" /\ mode = "load"
  BY <1>1 DEF Init
<1>3. \A k \in Keys : configMap[k] = Absent
  BY DEF Init
<1>4. LoopOrder /\ IdOrder /\ ReadCurrent
  BY <1>2, <1>3 DEF LoopOrder, IdOrder, InRound, ReadCurrent
<1>5. StaleAhead /\ WorkAudited
  BY <1>2, <1>3 DEF StaleAhead, WorkAudited, Stale, InWork
<1> QED
  BY <1>4, <1>5 DEF Pending

\* A change makes its own key, and no other, stale; its audit row is new.
LEMMA WritePending ==
    ASSUME TypeOK, Pending, NEW k \in Keys, NEW row \in Row, Write(k, row)
    PROVE  Pending'
<1> USE FetcherAssumption
<1>1. /\ audit' = Append(audit, k) /\ audit \in Seq(Keys)
      /\ UNCHANGED <<configMap, loopVars, refreshVars>>
  BY DEF Write, TypeOK, TableType
<1>2. /\ Len(audit') = Len(audit) + 1
      /\ Len(audit) \in Nat
  BY <1>1
<1>3. Horizon' = Horizon /\ auditID' = auditID /\ InRound' = InRound
  BY <1>1 DEF Horizon, InRound, loopVars
<1>4. Horizon \in Int /\ auditID \in Int
  BY DEF Horizon, TypeOK, LoopType
<1>5. \A j \in Keys : /\ Later(j, Horizon) => Later(j, Horizon)'
                      /\ Later(j, auditID) => Later(j, auditID)'
  <2>1. \A h \in Int, j \in Keys : Later(j, h) => \E i \in 1..Len(audit') : i > h /\ audit'[i] = j
    BY <1>1, LaterWrite DEF Later
  <2> QED
    BY <2>1, <1>3, <1>4 DEF Later
<1>6. lpc # "seed" => Later(k, Horizon)'
  <2>1. lpc # "seed" => Horizon <= Len(audit)
    BY DEF Pending, IdOrder, Horizon
  <2>2. \A h \in Int : h <= Len(audit) => \E i \in 1..Len(audit') : i > h /\ audit'[i] = k
    BY <1>1, LaterWrite DEF Later
  <2> QED
    BY <2>1, <2>2, <1>3, <1>4 DEF Later
<1>7. \A j \in Keys : j # k => base'[j] = base[j] /\ effective(j)' = effective(j)
  BY DEF Write, effective, TypeOK, TableType
<1>8. LoopOrder'
  BY <1>1 DEF Pending, LoopOrder, loopVars, refreshVars
<1>9. IdOrder'
  BY <1>1, <1>2, <1>3, <1>4 DEF Pending, IdOrder, loopVars, TypeOK, LoopType
<1>10. ReadCurrent'
  <2>1. rpc[TheLoop] # "off" => rkey[TheLoop] \in Keys /\ lpc # "seed"
    BY DEF TypeOK, RefreshType, Pending, LoopOrder, Threads
  <2>2. rpc' = rpc /\ rkey' = rkey /\ rval' = rval
    BY <1>1 DEF refreshVars
  <2>3. CASE rkey[TheLoop] = k
    BY <2>1, <2>2, <2>3, <1>6 DEF ReadCurrent
  <2>4. CASE rkey[TheLoop] # k
    <3>1. rpc[TheLoop] # "off" =>
             /\ base'[rkey[TheLoop]] = base[rkey[TheLoop]]
             /\ effective(rkey[TheLoop])' = effective(rkey[TheLoop])
             /\ Later(rkey[TheLoop], Horizon) => Later(rkey[TheLoop], Horizon)'
      BY <1>5, <1>7, <2>1, <2>2, <2>4 DEF effective, Later
    <3> QED
      BY <2>2, <3>1 DEF Pending, ReadCurrent, effective, Later
  <2> QED
    BY <2>3, <2>4
<1>11. StaleAhead'
  <2> SUFFICES ASSUME NEW j \in Keys, Stale(j)'
               PROVE  \/ Later(j, Horizon)'
                      \/ lpc' = "delta" /\ Later(j, auditID)'
                      \/ InWork(j)'
    BY DEF StaleAhead
  <2>1. lpc # "seed"
    BY <1>1 DEF Pending, LoopOrder, Stale, loopVars
  <2>2. CASE j = k
    BY <2>1, <2>2, <1>6
  <2>3. CASE j # k
    <3>1. Stale(j)
      BY <2>3, <1>1, <1>7 DEF Stale
    <3>2. InWork(j) => InWork(j)'
      BY <1>1 DEF InWork, loopVars, refreshVars
    <3> QED
      BY <3>1, <3>2, <1>1, <1>5 DEF Pending, StaleAhead, loopVars
  <2> QED
    BY <2>2, <2>3
<1>12. WorkAudited'
  <2> SUFFICES ASSUME NEW j \in Keys, InWork(j)' PROVE Later(j, auditID)'
    BY DEF WorkAudited
  <2>1. InWork(j)
    BY <1>1 DEF InWork, loopVars, refreshVars
  <2> QED
    BY <2>1, <1>5 DEF Pending, WorkAudited
<1> QED
  BY <1>8, <1>9, <1>10, <1>11, <1>12 DEF Pending

\* A loop step outside refreshKey makes no key stale and reads no row.
LEMMA LoopPending ==
    ASSUME TypeOK, Pending,
           \/ Seed \/ allKeys \/ PageFails \/ PageDone \/ fetchUpdates
           \/ deltaQuery \/ DeltaFails \/ RoundDone \/ StopLoop
    PROVE  Pending'
<1> USE FetcherAssumption
<1>1. /\ base' = base /\ over' = over /\ audit' = audit
      /\ configMap' = configMap
      /\ rpc' = rpc /\ rkey' = rkey /\ rval' = rval
  BY DEF Seed, allKeys, PageFails, PageDone, fetchUpdates, deltaQuery,
         DeltaFails, RoundDone, StopLoop, dbVars, refreshVars
<1>2. \A k \in Keys : (Stale(k)' <=> Stale(k))
  BY <1>1 DEF Stale, effective
<1>3. Len(audit) \in Nat /\ auditID \in Int /\ latest \in Int /\ auditID >= -1
  BY DEF TypeOK, TableType, LoopType
<1>4. CASE Seed
  <2>1. /\ lpc = "seed" /\ lpc' = "page" /\ mode' = mode /\ mode = "load"
        /\ auditID' \in {-1, Len(audit)}
    BY <1>4, LatestType DEF Seed, Pending, LoopOrder
  <2>2. LoopOrder' /\ IdOrder' /\ ReadCurrent'
    BY <1>1, <1>3, <2>1 DEF Pending, LoopOrder, IdOrder, InRound, ReadCurrent
  <2>3. \A k \in Keys : ~Stale(k)'
    BY <1>2, <2>1 DEF Pending, LoopOrder, Stale
  <2>4. \A k \in Keys : ~InWork(k)'
    BY <2>1 DEF InWork
  <2> QED
    BY <2>2, <2>3, <2>4 DEF Pending, StaleAhead, WorkAudited
<1>5. CASE allKeys \/ PageFails \/ PageDone \/ StopLoop
  <2>1. /\ ~InRound /\ ~InRound' /\ auditID' = auditID
        /\ lpc \in {"page", "refresh", "idle"}
        /\ lpc' \in {"page", "refresh", "idle", "stopped"}
        /\ (lpc' = "page" \/ lpc' = "refresh" => mode' = "load")
        /\ (lpc = "page" \/ lpc = "refresh" => mode = "load")
        /\ (lpc' = "idle" => mode' = "update")
        /\ (lpc' # "refresh" => rpc[TheLoop] = "off")
    BY <1>5 DEF allKeys, PageFails, PageDone, StopLoop, InRound, Pending, LoopOrder
  <2>2. Horizon' = auditID /\ Horizon = auditID
    BY <2>1 DEF Horizon
  <2>3. LoopOrder' /\ IdOrder'
    BY <1>1, <2>1 DEF Pending, LoopOrder, IdOrder
  <2>4. ReadCurrent'
    BY <1>1, <2>2 DEF Pending, ReadCurrent, Later, effective
  <2>5. \A k \in Keys : ~InWork(k) /\ ~InWork(k)'
    BY <2>1 DEF InWork, InRound
  <2>6. StaleAhead'
    BY <1>1, <1>2, <2>1, <2>2, <2>5 DEF Pending, StaleAhead, Later
  <2> QED
    BY <2>3, <2>4, <2>5, <2>6 DEF Pending, WorkAudited
<1>6. CASE fetchUpdates
  <2>1. /\ lpc = "idle" /\ lpc' = "delta" /\ auditID' = auditID /\ mode' = mode
        /\ latest' > auditID /\ latest' \in {-1, Len(audit)}
        /\ rpc[TheLoop] = "off"
    BY <1>6, LatestType DEF fetchUpdates, Pending, LoopOrder
  <2>2. mode = "update"
    BY <1>6 DEF fetchUpdates, Pending, LoopOrder
  <2>3. LoopOrder' /\ IdOrder' /\ ReadCurrent'
    BY <1>1, <1>3, <2>1, <2>2 DEF Pending, LoopOrder, IdOrder, InRound, ReadCurrent
  <2>4. \A k \in Keys : ~InWork(k) /\ ~InWork(k)'
    BY <2>1 DEF InWork
  <2>5. StaleAhead'
    BY <1>1, <1>2, <2>1, <2>4 DEF Pending, StaleAhead, Later, Horizon, InRound
  <2> QED
    BY <2>3, <2>4, <2>5 DEF Pending, WorkAudited
<1>7. CASE deltaQuery
  <2>1. /\ lpc = "delta" /\ lpc' = "refresh" /\ mode' = mode /\ mode = "update"
        /\ auditID' = auditID /\ latest' = latest /\ todo' = delta
        /\ rpc[TheLoop] = "off"
    BY <1>7 DEF deltaQuery, Pending, LoopOrder
  <2>2. LoopOrder' /\ IdOrder' /\ ReadCurrent'
    BY <1>1, <2>1 DEF Pending, LoopOrder, IdOrder, InRound, ReadCurrent
  <2>3. \A k \in Keys : InWork(k)' <=> Later(k, auditID)
    BY <1>1, <2>1 DEF InWork, delta, Later
  <2>4. StaleAhead'
    BY <1>1, <1>2, <1>3, <2>1, <2>3, PendingSuffices
       DEF StaleIsPending, Audited, Later, StaleAhead
  <2>5. WorkAudited'
    BY <1>1, <2>1, <2>3 DEF WorkAudited, Later
  <2> QED
    BY <2>2, <2>4, <2>5 DEF Pending
<1>8. CASE DeltaFails
  <2>1. /\ lpc = "delta" /\ lpc' = "idle" /\ mode' = mode /\ mode = "update"
        /\ auditID' = auditID /\ rpc[TheLoop] = "off"
    BY <1>8 DEF DeltaFails, Pending, LoopOrder
  <2>2. LoopOrder' /\ IdOrder' /\ ReadCurrent'
    BY <1>1, <1>3, <2>1 DEF Pending, LoopOrder, IdOrder, InRound, ReadCurrent
  <2>3. \A k \in Keys : ~InWork(k)'
    BY <2>1 DEF InWork
  <2>4. StaleAhead'
    BY <1>1, <1>2, <2>1, PendingSuffices
       DEF StaleIsPending, Audited, Later, StaleAhead, Horizon, InRound
  <2> QED
    BY <2>2, <2>3, <2>4 DEF Pending, WorkAudited
<1>9. CASE RoundDone
  <2>1. /\ lpc = "refresh" /\ lpc' = "idle" /\ mode' = mode /\ mode = "update"
        /\ auditID' = latest /\ todo = {} /\ rpc[TheLoop] = "off"
    BY <1>9 DEF RoundDone
  <2>2. Horizon = latest /\ Horizon' = latest
    BY <2>1 DEF Horizon, InRound
  <2>3. LoopOrder' /\ IdOrder' /\ ReadCurrent'
    BY <1>1, <1>3, <2>1 DEF Pending, LoopOrder, IdOrder, InRound, ReadCurrent
  <2>4. \A k \in Keys : ~InWork(k) /\ ~InWork(k)'
    BY <2>1 DEF InWork
  <2>5. StaleAhead'
    BY <1>1, <1>2, <2>1, <2>2, <2>4 DEF Pending, StaleAhead, Later
  <2> QED
    BY <2>3, <2>4, <2>5 DEF Pending, WorkAudited
<1> QED
  BY <1>4, <1>5, <1>6, <1>7, <1>8, <1>9

\* refreshKey in the loop, when its queries do not fail: the two reads stay
\* current until the key changes, and the store makes the key fresh.
LEMMA RefreshPending ==
    ASSUME TypeOK, Pending, Faults \cap {"base", "override"} = {},
           (\E k \in Keys : RefreshNext(k)) \/ refreshKey(TheLoop)
    PROVE  Pending'
<1> USE FetcherAssumption
<1>0. TheLoop \in Threads
  BY DEF Threads
<1>1. /\ base' = base /\ over' = over /\ audit' = audit
      /\ auditID' = auditID /\ latest' = latest /\ lpc' = lpc /\ mode' = mode
  BY DEF RefreshNext, refreshKey, ReadBase, BaseFails, ReadOverride,
         OverrideFails, Store, dbVars, loopVars
<1>2. Horizon' = Horizon /\ (InRound' <=> InRound) /\ IdOrder'
  BY <1>1 DEF Horizon, InRound, Pending, IdOrder
<1>3. \A k \in Keys : effective(k)' = effective(k)
  BY <1>1 DEF effective
<1>4. CASE \E k \in Keys : RefreshNext(k)
  <2>1. PICK k \in Keys : RefreshNext(k)
    BY <1>4
  <2>2. /\ lpc = "refresh" /\ k \in todo /\ todo' = todo \ {k}
        /\ rpc[TheLoop] = "off" /\ rpc'[TheLoop] = "base"
        /\ rkey'[TheLoop] = k /\ configMap' = configMap
    BY <2>1, <1>0 DEF RefreshNext, Call, TypeOK, RefreshType
  <2>3. LoopOrder' /\ ReadCurrent'
    BY <1>1, <2>2 DEF Pending, LoopOrder, ReadCurrent
  <2>4. \A j \in Keys : InWork(j)' <=> InWork(j)
    BY <1>1, <2>2 DEF InWork
  <2>5. StaleAhead'
    BY <1>1, <1>2, <1>3, <2>2, <2>4 DEF Pending, StaleAhead, Stale, Later, effective
  <2>6. WorkAudited'
    BY <1>1, <2>4 DEF Pending, WorkAudited, Later
  <2> QED
    BY <1>2, <2>3, <2>5, <2>6 DEF Pending
<1>5. CASE ReadBase(TheLoop) \/ ReadOverride(TheLoop)
  <2>1. /\ configMap' = configMap /\ todo' = todo /\ rkey' = rkey
        /\ rpc[TheLoop] # "off" /\ rpc'[TheLoop] # "off"
    BY <1>5, <1>0 DEF ReadBase, ReadOverride, loopVars, TypeOK, RefreshType
  <2>2. LoopOrder'
    BY <1>0, <1>1, <1>5, <2>1
       DEF Pending, LoopOrder, ReadBase, ReadOverride, TypeOK, RefreshType
  <2>3. ReadCurrent'
    <3>1. CASE ReadBase(TheLoop)
      <4>1. /\ rval'[TheLoop] = base[rkey[TheLoop]]
            /\ rpc'[TheLoop] = IF HasOverride THEN "override" ELSE "store"
        BY <3>1, <1>0 DEF ReadBase, TypeOK, RefreshType
      <4> QED
        BY <4>1, <2>1, <1>1 DEF ReadCurrent, effective
    <3>2. CASE ReadOverride(TheLoop)
      <4>1. /\ rval'[TheLoop] = IF over[rkey[TheLoop]] = NoRow THEN rval[TheLoop]
                                ELSE over[rkey[TheLoop]]
            /\ rpc[TheLoop] = "override" /\ rpc'[TheLoop] = "store"
        BY <3>2, <1>0 DEF ReadOverride, TypeOK, RefreshType
      <4>2. HasOverride
        BY <4>1 DEF Pending, LoopOrder
      <4> QED
        BY <4>1, <4>2, <2>1, <1>1, <1>2 DEF Pending, ReadCurrent, effective, Later
    <3> QED
      BY <1>5, <3>1, <3>2
  <2>4. \A j \in Keys : InWork(j)' <=> InWork(j)
    BY <1>1, <2>1 DEF InWork
  <2>5. StaleAhead'
    BY <1>1, <1>2, <1>3, <2>1, <2>4 DEF Pending, StaleAhead, Stale, Later, effective
  <2>6. WorkAudited'
    BY <1>1, <2>4 DEF Pending, WorkAudited, Later
  <2> QED
    BY <1>2, <2>2, <2>3, <2>5, <2>6 DEF Pending
<1>6. CASE Store(TheLoop)
  <2>0. PICK k \in Keys : k = rkey[TheLoop]
    BY <1>6, <1>0 DEF Store, TypeOK, RefreshType
  <2>1. /\ rpc[TheLoop] = "store" /\ rpc'[TheLoop] = "off" /\ todo' = todo
        /\ lpc = "refresh"
    BY <1>6, <1>0 DEF Store, Return, loopVars, TypeOK, RefreshType, Pending, LoopOrder
  <2>2. \A j \in Keys : j # k => configMap'[j] = configMap[j]
    BY <1>6, <2>0 DEF Store, TypeOK
  <2>3. rval[TheLoop] = effective(k) => ~Stale(k)'
    <3>1. CASE effective(k) = NoRow
      BY <3>1, <1>1 DEF Stale, effective
    <3>2. CASE rval[TheLoop] = effective(k) /\ effective(k) # NoRow
      <4>1. configMap'[k] = parseValue(effective(k))
        BY <3>2, <1>6, <2>0 DEF Store, TypeOK
      <4> QED
        BY <4>1, <1>1 DEF Stale, effective
    <3> QED
      BY <3>1, <3>2
  <2>4. LoopOrder' /\ ReadCurrent'
    BY <1>1, <2>1 DEF Pending, LoopOrder, ReadCurrent
  <2>5. \A j \in Keys : /\ InWork(j)' => InWork(j)
                        /\ j # k /\ InWork(j) => InWork(j)'
    BY <1>1, <2>0, <2>1 DEF InWork
  <2>6. StaleAhead'
    <3> SUFFICES ASSUME NEW j \in Keys, Stale(j)'
                 PROVE  Later(j, Horizon)' \/ InWork(j)'
      BY DEF StaleAhead
    <3>1. CASE j = k
      BY <3>1, <1>1, <1>2, <2>0, <2>1, <2>3 DEF Pending, ReadCurrent, Later
    <3>2. CASE j # k
      <4>1. Stale(j)
        BY <3>2, <1>1, <2>2 DEF Stale, effective
      <4> QED
        BY <4>1, <3>2, <1>1, <1>2, <2>1, <2>5 DEF Pending, StaleAhead, Later
    <3> QED
      BY <3>1, <3>2
  <2>7. WorkAudited'
    BY <1>1, <2>5 DEF Pending, WorkAudited, Later
  <2> QED
    BY <1>2, <2>4, <2>6, <2>7 DEF Pending
<1> QED
  BY <1>4, <1>5, <1>6 DEF refreshKey, BaseFails, OverrideFails

\* With no Get in flight and no failing refresh query, no step loses a change.
LEMMA NextPending ==
    ASSUME Getters = {}, Faults \cap {"base", "override"} = {}
    PROVE  TypeOK /\ Pending /\ [Next]_vars => Pending'
<1> SUFFICES ASSUME TypeOK, Pending, [Next]_vars PROVE Pending'
  OBVIOUS
<1>1. ASSUME NEW k \in Keys, NEW row \in Row, Write(k, row) PROVE Pending'
  BY <1>1, WritePending
<1>2. CASE Loop
  BY <1>2, LoopPending, RefreshPending DEF Loop
<1>3. CASE StopLoop
  BY <1>3, LoopPending
<1>4. CASE UNCHANGED vars
  <2>1. /\ base' = base /\ over' = over /\ audit' = audit
        /\ configMap' = configMap /\ auditID' = auditID /\ lpc' = lpc
        /\ mode' = mode /\ latest' = latest /\ todo' = todo
        /\ rpc' = rpc /\ rkey' = rkey /\ rval' = rval
    BY <1>4 DEF vars, dbVars, loopVars, refreshVars
  <2>2. LoopOrder' /\ IdOrder' /\ ReadCurrent'
    BY <2>1 DEF Pending, LoopOrder, IdOrder, InRound, ReadCurrent, effective,
                Later, Horizon
  <2>3. StaleAhead' /\ WorkAudited'
    BY <2>1 DEF Pending, StaleAhead, WorkAudited, Stale, effective, Later,
                Horizon, InRound, InWork
  <2> QED
    BY <2>2, <2>3 DEF Pending
<1> QED
  BY <1>1, <1>2, <1>3, <1>4 DEF Next

\* fetchUpdates' audit protocol loses no change, for any tables and any writes
\* interleaved with the load, the rounds and refreshKey, and although the
\* latest-id, page and delta queries may fail: it needs only that refreshKey's
\* own two queries succeed and that no Get loads a key at the same time.
THEOREM NoLostChange ==
    ASSUME Getters = {}, Faults \cap {"base", "override"} = {}
    PROVE  Spec => []StaleIsPending
<1>1. TypeOK /\ Pending => StaleIsPending
  BY PendingSuffices
<1>2. Spec => []Pending
  BY InitPending, NextPending, TypeCorrect, PTL DEF Spec
<1> QED
  BY <1>1, <1>2, TypeCorrect, PTL

-----------------------------------------------------------------------------
(* What a step may not do                                                  *)

\* A round of fetchUpdates ends ahead of where it began; a load is no round.
RoundAhead ==
    /\ lpc \in {"seed", "page"} => mode = "load"
    /\ lpc \in {"idle", "delta"} => mode = "update"
    /\ InRound => auditID < latest

LEMMA RoundInitially == Init => RoundAhead
  BY DEF Init, RoundAhead, InRound

\* The writers, the callers of Get and refreshKey do not move the loop.
LEMMA Bystanders ==
    /\ \A k \in Keys, row \in Row : Write(k, row) => UNCHANGED <<lpc, mode, auditID, latest>>
    /\ \A g \in Getters, k \in Keys : GetMiss(g, k) => UNCHANGED <<lpc, mode, auditID, latest>>
    /\ \A t \in Threads : refreshKey(t) => UNCHANGED <<lpc, mode, auditID, latest>>
    /\ \A k \in Keys : RefreshNext(k) => UNCHANGED <<lpc, mode, auditID, latest>>
  BY DEF Write, GetMiss, refreshKey, ReadBase, BaseFails, ReadOverride, OverrideFails,
         Store, RefreshNext, loopVars

\* The steps that move the loop.
LoopMoves ==
    \/ Seed \/ allKeys \/ PageFails \/ PageDone \/ fetchUpdates
    \/ deltaQuery \/ DeltaFails \/ RoundDone \/ StopLoop

LEMMA MovesOrNot ==
    ASSUME [Next]_vars
    PROVE  LoopMoves \/ UNCHANGED <<lpc, mode, auditID, latest>>
  BY Bystanders DEF Next, Loop, LoopMoves, Threads, vars, loopVars

LEMMA RoundInductive == RoundAhead /\ [Next]_vars => RoundAhead'
<1> SUFFICES ASSUME RoundAhead, [Next]_vars PROVE RoundAhead'
  OBVIOUS
<1>1. CASE UNCHANGED <<lpc, mode, auditID, latest>>
  BY <1>1 DEF RoundAhead, InRound
<1>2. CASE LoopMoves
  BY <1>2 DEF RoundAhead, InRound, LoopMoves, Seed, allKeys, PageFails, PageDone,
              fetchUpdates, deltaQuery, DeltaFails, RoundDone, StopLoop
<1> QED
  BY <1>1, <1>2, MovesOrNot

LEMMA RoundInvariant == Spec => []RoundAhead
  BY RoundInitially, RoundInductive, PTL DEF Spec

\* The stored audit id never goes back once it is seeded, though a failed
\* latestAuditID reads as -1 (fetchUpdates).
THEOREM AuditNeverGoesBack == Spec => AuditMonotone
<1>1. ASSUME TypeOK, RoundAhead, [Next]_vars PROVE [lpc # "seed" => auditID' >= auditID]_vars
  <2>1. auditID \in Int /\ latest \in Int
    BY <1>1 DEF TypeOK, LoopType
  <2>2. CASE UNCHANGED <<lpc, mode, auditID, latest>>
    BY <2>1, <2>2
  <2>3. CASE LoopMoves
    BY <1>1, <2>1, <2>3
       DEF RoundAhead, InRound, LoopMoves, Seed, allKeys, PageFails, PageDone,
           fetchUpdates, deltaQuery, DeltaFails, RoundDone, StopLoop
  <2> QED
    BY <1>1, <2>2, <2>3, MovesOrNot
<1> QED
  BY <1>1, TypeCorrect, RoundInvariant, PTL DEF Spec, AuditMonotone

\* A key that resolves keeps resolving, whichever queries fail and whatever is
\* deleted: only refreshKey writes the map, and only a value (refreshKey).
THEOREM ResolvedStays == Spec => NeverUnresolved
<1>1. ASSUME TypeOK, [Next]_vars,  NEW k \in Keys, configMap[k] # Absent
      PROVE  configMap'[k] # Absent
  <2>1. CASE configMap' = configMap
    BY <1>1, <2>1
  <2>2. ASSUME NEW t \in Threads, Store(t) PROVE configMap'[k] # Absent
    <3>1. rval[t] \in Row /\ configMap \in [Keys -> Entry]
      BY <1>1 DEF TypeOK, RefreshType
    <3>2. rval[t] # NoRow => parseValue(rval[t]) # Absent
      BY <3>1 DEF Row, NoRow, BadJSON, JSON, parseValue, EmptyObject, Absent
    <3>3. CASE rval[t] = NoRow
      BY <1>1, <2>2, <3>3 DEF Store
    <3>4. CASE rval[t] # NoRow
      BY <1>1, <2>2, <3>1, <3>2, <3>4 DEF Store
    <3> QED
      BY <3>3, <3>4
  <2>3. (\E t \in Threads : Store(t)) \/ configMap' = configMap
    BY <1>1 DEF Next, Loop, Threads, Write, Seed, allKeys, PageFails, PageDone,
           fetchUpdates, deltaQuery, DeltaFails, RoundDone, StopLoop, RefreshNext,
           GetMiss, refreshKey, ReadBase, BaseFails, ReadOverride, OverrideFails, vars
  <2> QED
    BY <2>1, <2>2, <2>3
<1>2. ASSUME TypeOK, [Next]_vars
      PROVE  [\A k \in Keys : configMap[k] # Absent => configMap'[k] # Absent]_vars
  BY <1>1, <1>2
<1> QED
  BY <1>2, TypeCorrect, PTL DEF Spec, NeverUnresolved

-----------------------------------------------------------------------------
(* Paging                                                                  *)

LEMMA RowsFinite ==
    ASSUME TypeOK
    PROVE  /\ rows \subseteq 0..NKeys
           /\ IsFiniteSet(rows)
           /\ \A k \in Int : /\ IsFiniteSet({j \in rows : j <= k})
                             /\ rank(k) \in Nat
                             /\ rank(k) <= Cardinality(rows)
<1>1. rows \subseteq 0..NKeys
  BY FetcherAssumption DEF rows, Keys
<1>2. IsFiniteSet(0..NKeys)
  BY FetcherAssumption, FS_Interval
<1>3. IsFiniteSet(rows)
  BY <1>1, <1>2, FS_Subset
<1>4. ASSUME NEW k \in Int
      PROVE  /\ IsFiniteSet({j \in rows : j <= k})
             /\ rank(k) \in Nat /\ rank(k) <= Cardinality(rows)
  BY <1>3, FS_Subset, FS_CardinalityType DEF rank
<1> QED
  BY <1>1, <1>3, <1>4

\* The place of a row in key order: between 1 and the number of rows, higher
\* for a higher key.
LEMMA RankGrows ==
    ASSUME TypeOK
    PROVE  /\ \A k \in rows : rank(k) \in 1..Cardinality(rows)
           /\ \A j, k \in rows : j < k => rank(j) < rank(k)
           /\ \A j, k \in rows : rank(j) = rank(k) => j = k
<1>1. \A k \in rows : k \in Int /\ rank(k) \in Nat /\ rank(k) <= Cardinality(rows)
  <2>1. \A k \in rows : k \in Int
    BY RowsFinite, FetcherAssumption
  <2> QED
    BY <2>1, RowsFinite
<1>2. ASSUME NEW k \in rows PROVE rank(k) \in 1..Cardinality(rows)
  <2>1. k \in {j \in rows : j <= k}
    BY <1>1
  <2>2. rank(k) # 0
    BY <1>1, <2>1, RowsFinite, FS_EmptySet DEF rank
  <2>3. Cardinality(rows) \in Nat
    BY RowsFinite, FS_CardinalityType
  <2> QED
    BY <1>1, <2>2, <2>3, RowsFinite
<1>3. ASSUME NEW j \in rows, NEW k \in rows, j < k PROVE rank(j) < rank(k)
  <2> DEFINE A == {i \in rows : i <= j}
             B == {i \in rows : i <= k}
  <2>1. A \subseteq B /\ k \in B /\ k \notin A
    BY <1>1, <1>3
  <2>2. IsFiniteSet(B)
    BY <1>1, RowsFinite
  <2>3. Cardinality(A) <= Cardinality(B) /\ Cardinality(A) # Cardinality(B)
    BY <2>1, <2>2, FS_Subset
  <2>4. Cardinality(A) \in Nat /\ Cardinality(B) \in Nat
    BY <2>1, <2>2, FS_Subset, FS_CardinalityType
  <2> QED
    BY <2>3, <2>4 DEF rank
<1>4. ASSUME NEW j \in rows, NEW k \in rows, rank(j) = rank(k) PROVE j = k
  <2>1. rank(j) \in Int /\ rank(k) \in Int /\ j \in Int /\ k \in Int
    BY <1>1
  <2>2. ~(j < k) /\ ~(k < j)
    BY <1>3, <1>4, <2>1
  <2> QED
    BY <2>1, <2>2
<1> QED
  BY <1>2, <1>3, <1>4

\* Every place is taken: rank is an injection between two sets of one size.
LEMMA RankCovers ==
    ASSUME TypeOK, NEW n \in 1..Cardinality(rows)
    PROVE  \E k \in rows : rank(k) = n
<1> DEFINE f == [k \in rows |-> rank(k)]
           T == 1..Cardinality(rows)
<1>1. IsFiniteSet(rows) /\ Cardinality(rows) \in Nat
  BY RowsFinite, FS_CardinalityType
<1>2. f \in [rows -> T] /\ \A a, b \in rows : f[a] = f[b] => a = b
  BY RankGrows
<1>3. f \in Injection(rows, T)
  BY <1>2 DEF Injection, IsInjective
<1>4. IsFiniteSet(T) /\ Cardinality(T) = Cardinality(rows)
  <2>1. 1 \in Int /\ Cardinality(rows) \in Int
    BY <1>1
  <2>2. IsFiniteSet(T) /\ Cardinality(T) = IF 1 > Cardinality(rows) THEN 0
                                           ELSE Cardinality(rows) - 1 + 1
    BY <2>1, FS_Interval
  <2> QED
    BY <1>1, <2>2
<1> HIDE DEF f, T
<1>5. f \in Surjection(rows, T)
  BY <1>3, <1>4, FS_Injection
<1>6. n \in T
  BY DEF T
<1>7. PICK k \in rows : f[k] = n
  BY <1>5, <1>6 DEF Surjection
<1> QED
  BY <1>7 DEF f

\* A page has at most keyPageLimit keys, and a shorter one is the last: no row
\* is beyond its end.
LEMMA PageSize ==
    ASSUME TypeOK, ~HasBlankRow
    PROVE  /\ Cardinality(page) \in Nat
           /\ Cardinality(page) <= keyPageLimit
           /\ Cardinality(page) < keyPageLimit =>
                 \A k \in rows : rank(k) <= offset + keyPageLimit
<1> DEFINE S == page
           T == (offset + 1)..(offset + keyPageLimit)
           f == [k \in S |-> rank(k)]
<1>1. offset \in Nat /\ keyPageLimit \in Nat \ {0}
  BY FetcherAssumption DEF TypeOK, LoopType
<1>2. IsFiniteSet(T) /\ Cardinality(T) = keyPageLimit
  <2>1. offset + 1 \in Int /\ offset + keyPageLimit \in Int
    BY <1>1
  <2>2. IsFiniteSet(T) /\ Cardinality(T) = IF offset + 1 > offset + keyPageLimit THEN 0
                                 ELSE (offset + keyPageLimit) - (offset + 1) + 1
    BY <2>1, FS_Interval
  <2> QED
    BY <1>1, <2>2
<1>3. S = {k \in rows : offset < rank(k) /\ rank(k) <= offset + keyPageLimit}
  BY DEF page, rows, Keys
<1>4. /\ \A k \in rows : rank(k) \in Nat /\ rank(k) <= Cardinality(rows)
      /\ Cardinality(rows) \in Nat
  <2>1. Cardinality(rows) \in Nat
    BY RowsFinite, FS_CardinalityType
  <2>2. \A k \in rows : rank(k) \in 1..Cardinality(rows)
    BY RankGrows
  <2> QED
    BY <2>1, <2>2
<1>5. f \in [S -> T]
  <2>1. ASSUME NEW k \in S PROVE rank(k) \in T
    BY <1>1, <1>3, <1>4, <2>1
  <2> QED
    BY <2>1
<1>6. \A a, b \in S : f[a] = f[b] => a = b
  BY <1>3, RankGrows
<1>7. f \in Injection(S, T)
  BY <1>5, <1>6 DEF Injection, IsInjective
<1>8. IsFiniteSet(S) /\ Cardinality(S) <= keyPageLimit
  <2> HIDE DEF f, S, T
  <2> QED
    BY <1>2, <1>7, FS_Injection
<1>9. ASSUME NEW k \in rows, rank(k) > offset + keyPageLimit
      PROVE  Cardinality(S) >= keyPageLimit
  <2>1. ASSUME NEW n \in T PROVE \E j \in S : f[j] = n
    <3>1. n \in 1..Cardinality(rows)
      <4>1. rank(k) <= Cardinality(rows) /\ rank(k) \in Nat
        BY <1>4
      <4> QED
        BY <1>1, <1>4, <1>9, <4>1
    <3>2. PICK j \in rows : rank(j) = n
      BY <3>1, RankCovers
    <3>3. j \in S
      BY <1>1, <1>3, <3>2
    <3> QED
      BY <3>2, <3>3
  <2>2. f \in Surjection(S, T)
    BY <1>5, <2>1 DEF Surjection
  <2>3. Cardinality(T) <= Cardinality(S)
    <3> HIDE DEF f, S, T
    <3> QED
      BY <1>8, <2>2, FS_Surjection
  <2> QED
    BY <1>2, <2>3
<1>10. Cardinality(S) \in Nat
  BY <1>8, FS_CardinalityType
<1> QED
  BY <1>1, <1>4, <1>8, <1>9, <1>10

-----------------------------------------------------------------------------
(* A warm start                                                            *)

\* k has a row and was never changed while the fetcher ran.
Untouched(k) == base[k] # NoRow /\ \A i \in 1..Len(audit) : audit[i] # k

\* The map has its value, or the load is about to put it there.
Loaded(k) == configMap[k] = parseValue(effective(k))
Loading(k) ==
    /\ lpc = "refresh"
    /\ mode = "load"
    /\ k \in todo \/ (rpc[TheLoop] # "off" /\ rkey[TheLoop] = k)

\* The pages have passed k.
Paged(k) == mode = "update" \/ (lpc = "refresh" /\ lastPage) \/ rank(k) <= offset

\* What any thread has read of an untouched key is its value.
Reading ==
    \A t \in Threads : rpc[t] # "off" /\ Untouched(rkey[t]) =>
        /\ rpc[t] = "override" => HasOverride /\ rval[t] = base[rkey[t]]
        /\ rpc[t] = "store" => rval[t] = effective(rkey[t])

\* The load leaves no untouched key behind, while nothing is deleted.
LeavesNone ==
    ~harmed /\ ~HasBlankRow =>
        \A k \in Keys : Untouched(k) /\ Paged(k) => Loaded(k) \/ Loading(k)

Warm == RoundAhead /\ Reading /\ LeavesNone

LEMMA UntouchedHasValue ==
    ASSUME NEW k, Untouched(k)
    PROVE  effective(k) # NoRow
  BY DEF Untouched, effective

LEMMA WarmInitially == Init => Warm
<1> SUFFICES ASSUME Init PROVE Warm
  OBVIOUS
<1>1. TypeOK
  BY InitType
<1>2. Reading
  BY DEF Init, Reading
<1>3. ASSUME NEW k \in Keys, Untouched(k), Paged(k) PROVE FALSE
  <2>1. k \in rows
    BY <1>3 DEF Untouched, rows
  <2>2. rank(k) \in 1..Cardinality(rows) /\ Cardinality(rows) \in Nat
    BY <1>1, <2>1, RankGrows, RowsFinite, FS_CardinalityType
  <2>3. offset = 0 /\ lpc = "seed" /\ mode = "load"
    BY DEF Init
  <2> QED
    BY <1>3, <2>2, <2>3 DEF Paged
<1> QED
  BY <1>2, <1>3, RoundInitially DEF Warm, LeavesNone

\* A change touches its own key, and leaves the others as they are.
LEMMA UntouchedWrite ==
    ASSUME TypeOK, NEW k \in Keys, NEW row \in Row, Write(k, row),
           NEW j \in Keys, Untouched(j)'
    PROVE  Untouched(j) /\ base'[j] = base[j] /\ effective(j)' = effective(j)
<1>1. audit' = Append(audit, k) /\ audit \in Seq(Keys)
  BY DEF Write, TypeOK, TableType
<1>2. /\ Len(audit') = Len(audit) + 1 /\ audit'[Len(audit')] = k /\ Len(audit) \in Nat
      /\ \A i \in 1..Len(audit) : audit'[i] = audit[i]
  BY <1>1
<1>3. j # k /\ \A i \in 1..Len(audit) : audit[i] # j
  BY <1>2 DEF Untouched
<1>4. base'[j] = base[j] /\ over'[j] = over[j]
  BY <1>3 DEF Write, TypeOK, TableType
<1> QED
  BY <1>3, <1>4 DEF Untouched, effective

\* While rows are only added, no row moves to an earlier place.
LEMMA RankWrite ==
    ASSUME TypeOK, NEW k \in Keys, NEW row \in Row, row # NoRow, Write(k, row),
           NEW j \in Keys
    PROVE  rank(j) \in Nat /\ rank(j)' \in Nat /\ rank(j) <= rank(j)'
<1> DEFINE A == {i \in rows : i <= j}
           B == {i \in rows' : i <= j}
<1>1. rows' \subseteq 0..NKeys
  BY FetcherAssumption DEF rows, Keys
<1>2. \A i \in Keys : base[i] # NoRow => base'[i] # NoRow
  BY DEF Write, TypeOK, TableType
<1>3. rows \subseteq rows'
  BY <1>2 DEF rows
<1>4. IsFiniteSet(B)
  <2>1. IsFiniteSet(0..NKeys)
    BY FetcherAssumption, FS_Interval
  <2>2. B \subseteq 0..NKeys
    BY <1>1
  <2> QED
    BY <2>1, <2>2, FS_Subset
<1>5. Cardinality(A) <= Cardinality(B) /\ Cardinality(B) \in Nat /\ Cardinality(A) \in Nat
  <2>1. A \subseteq B
    BY <1>3
  <2> QED
    BY <1>4, <2>1, FS_Subset, FS_CardinalityType
<1> QED
  BY <1>5 DEF rank

LEMMA WriteWarm ==
    ASSUME TypeOK, Warm, NEW k \in Keys, NEW row \in Row, Write(k, row)
    PROVE  Reading' /\ LeavesNone'
<1>1. /\ configMap' = configMap /\ lpc' = lpc /\ mode' = mode /\ offset' = offset
      /\ lastPage' = lastPage /\ todo' = todo /\ rpc' = rpc /\ rkey' = rkey /\ rval' = rval
      /\ harmed' = (harmed \/ (mode = "load" /\ row = NoRow))
  BY DEF Write, loopVars, refreshVars
<1>2. Reading'
  <2> SUFFICES ASSUME NEW t \in Threads, rpc[t] # "off", Untouched(rkey[t])'
               PROVE  /\ rpc[t] = "override" => HasOverride /\ rval[t] = base'[rkey[t]]
                      /\ rpc[t] = "store" => rval[t] = effective(rkey[t])'
    BY <1>1 DEF Reading
  <2>1. PICK j \in Keys : j = rkey[t] /\ j = rkey'[t]
    BY <1>1 DEF TypeOK, RefreshType
  <2>2. Untouched(j)'
    BY <2>1
  <2>3. Untouched(j) /\ base'[j] = base[j] /\ effective(j)' = effective(j)
    BY <2>2, UntouchedWrite
  <2>4. effective(rkey[t])' = effective(j)
    BY <2>1, <2>3
  <2> QED
    BY <2>1, <2>3, <2>4 DEF Warm, Reading
<1>3. LeavesNone'
  <2> SUFFICES ASSUME ~harmed', ~HasBlankRow, NEW j \in Keys, Untouched(j)', Paged(j)'
               PROVE  Loaded(j)' \/ Loading(j)'
    BY DEF LeavesNone
  <2>1. Untouched(j) /\ effective(j)' = effective(j)
    BY UntouchedWrite
  <2>2. Paged(j)
    <3>1. CASE mode = "load"
      <4>1. rank(j) \in Nat /\ rank(j)' \in Nat /\ rank(j) <= rank(j)'
        BY <1>1, <3>1, RankWrite
      <4>2. offset \in Nat
        BY DEF TypeOK, LoopType
      <4> QED
        BY <1>1, <3>1, <4>1, <4>2 DEF Paged
    <3>2. CASE mode = "update"
      BY <3>2 DEF Paged
    <3> QED
      BY <3>1, <3>2 DEF TypeOK, LoopType
  <2>3. Loaded(j) \/ Loading(j)
    BY <1>1, <2>1, <2>2 DEF Warm, LeavesNone
  <2> QED
    BY <1>1, <2>1, <2>3 DEF Loaded, Loading
<1> QED
  BY <1>2, <1>3

\* The steps of the loop other than refreshKey's.
LEMMA LoopWarm ==
    ASSUME TypeOK, Warm, LoopMoves
    PROVE  Reading' /\ LeavesNone'
<1>1. /\ base' = base /\ over' = over /\ audit' = audit /\ configMap' = configMap
      /\ rpc' = rpc /\ rkey' = rkey /\ rval' = rval /\ (harmed => harmed')
  BY DEF LoopMoves, Seed, allKeys, PageFails, PageDone, fetchUpdates, deltaQuery,
         DeltaFails, RoundDone, StopLoop, dbVars, refreshVars, histVars
<1>2. Reading'
  BY <1>1 DEF Warm, Reading, Untouched, effective
<1>3. \A k : Untouched(k)' = Untouched(k) /\ Loaded(k)' = Loaded(k) /\ rank(k)' = rank(k)
  BY <1>1 DEF Untouched, Loaded, effective, rank, rows
<1> SUFFICES ASSUME ~harmed', ~HasBlankRow, NEW k \in Keys, Untouched(k)', Paged(k)'
             PROVE  Loaded(k)' \/ Loading(k)'
  BY <1>2 DEF LeavesNone
<1>4. Untouched(k) /\ (Paged(k) => Loaded(k) \/ Loading(k))
  BY <1>1, <1>3 DEF Warm, LeavesNone
<1>5. CASE allKeys
  <2>1. /\ lpc = "page" /\ mode = "load" /\ mode' = "load" /\ lpc' = "refresh"
        /\ todo' = page /\ offset' = offset + Cardinality(page)
        /\ lastPage' = (Cardinality(page) < keyPageLimit)
    BY <1>5 DEF allKeys, Warm, RoundAhead
  <2>2. CASE rank(k) <= offset
    BY <1>3, <1>4, <2>1, <2>2 DEF Paged, Loading
  <2>3. CASE k \in page
    BY <2>1, <2>3 DEF Loading
  <2>4. ASSUME ~(rank(k) <= offset), k \notin page PROVE FALSE
    <3>1. k \in rows /\ k # 0
      BY <1>4 DEF Untouched, rows, Keys
    <3>2. rank(k) \in Nat /\ offset \in Nat /\ keyPageLimit \in Nat
      <4>1. k \in Int
        BY FetcherAssumption DEF Keys
      <4>2. rank(k) \in Nat
        BY <4>1, RowsFinite
      <4> QED
        BY <4>2, FetcherAssumption DEF TypeOK, LoopType
    <3>3. rank(k) > offset + keyPageLimit
      BY <2>4, <3>1, <3>2 DEF page
    <3>4. Cardinality(page) \in Nat /\ Cardinality(page) <= keyPageLimit
      BY PageSize
    <3>5. ~(Cardinality(page) < keyPageLimit)
      BY <3>1, <3>2, <3>3, PageSize
    <3>6. ~lastPage'
      BY <2>1, <3>5, Zenon
    <3>7. PICK n : n = rank(k)' /\ n = rank(k)
      BY <1>3
    <3>8. ~(n <= offset')
      BY <2>1, <3>2, <3>3, <3>4, <3>7
    <3> QED
      BY <2>1, <3>6, <3>7, <3>8 DEF Paged
  <2> QED
    BY <2>2, <2>3, <2>4
<1>6. CASE PageDone
  <2>1. ~Loading(k) /\ lpc = "refresh" /\ mode = "load" /\ offset' = offset
    BY <1>6 DEF PageDone, Loading
  <2>2. Paged(k)
    BY <1>3, <1>6, <2>1 DEF Paged, PageDone
  <2> QED
    BY <1>3, <1>4, <2>1, <2>2
<1>7. CASE PageFails
  BY <1>7 DEF PageFails
<1>8. CASE Seed
  <2>1. ~Loading(k) /\ Paged(k)
    BY <1>3, <1>8 DEF Seed, Loading, Paged, Warm, RoundAhead
  <2> QED
    BY <1>3, <1>4, <2>1
<1>9. CASE fetchUpdates \/ deltaQuery \/ DeltaFails \/ RoundDone \/ StopLoop
  <2>1. mode = "update"
    BY <1>9 DEF fetchUpdates, deltaQuery, DeltaFails, RoundDone, StopLoop, Warm, RoundAhead
  <2> QED
    BY <1>3, <1>4, <2>1 DEF Loading, Paged
<1> QED
  BY <1>5, <1>6, <1>7, <1>8, <1>9 DEF LoopMoves

\* refreshKey is called, by the loop or by a Get that missed.
LEMMA CallWarm ==
    ASSUME TypeOK, Warm, NEW t \in Threads, NEW k \in Keys,
           (RefreshNext(k) /\ t = TheLoop) \/ GetMiss(t, k)
    PROVE  Reading' /\ LeavesNone'
<1>1. /\ base' = base /\ over' = over /\ audit' = audit /\ configMap' = configMap
      /\ lpc' = lpc /\ mode' = mode /\ offset' = offset /\ lastPage' = lastPage
      /\ harmed' = harmed
      /\ rpc[t] = "off" /\ rpc' = [rpc EXCEPT ![t] = "base"]
      /\ rkey' = [rkey EXCEPT ![t] = k] /\ rval' = [rval EXCEPT ![t] = NoRow]
  BY DEF RefreshNext, GetMiss, Call, dbVars, loopVars, histVars
<1>2. /\ rpc'[t] = "base" /\ rkey'[t] = k
      /\ \A u \in Threads \ {t} : rpc'[u] = rpc[u] /\ rkey'[u] = rkey[u] /\ rval'[u] = rval[u]
  BY <1>1 DEF TypeOK, RefreshType
<1>3. Reading'
  <2> SUFFICES ASSUME NEW u \in Threads, u # t, rpc'[u] # "off", Untouched(rkey[u])
               PROVE  /\ rpc'[u] = "override" => HasOverride /\ rval'[u] = base[rkey[u]]
                      /\ rpc'[u] = "store" => rval'[u] = effective(rkey[u])
    BY <1>1, <1>2 DEF Reading, Untouched, effective
  <2> QED
    BY <1>2 DEF Warm, Reading
<1>4. \A j : Untouched(j)' = Untouched(j) /\ Loaded(j)' = Loaded(j) /\ Paged(j)' = Paged(j)
  BY <1>1 DEF Untouched, Loaded, effective, Paged, rank, rows
<1>5. ASSUME NEW j \in Keys, Loading(j) PROVE Loading(j)'
  <2>1. TheLoop \in Threads
    BY DEF Threads
  <2>2. CASE RefreshNext(k) /\ t = TheLoop
    BY <1>1, <1>2, <1>5, <2>2 DEF RefreshNext, Loading
  <2>3. CASE GetMiss(t, k)
    <3>1. mode = "update"
      BY <2>3 DEF GetMiss
    <3> QED
      BY <1>5, <3>1 DEF Loading
  <2> QED
    BY <2>2, <2>3
<1>6. LeavesNone'
  BY <1>1, <1>4, <1>5 DEF Warm, LeavesNone
<1> QED
  BY <1>3, <1>6

\* refreshKey, by any thread, when its queries do not fail.
LEMMA RefreshWarm ==
    ASSUME TypeOK, Warm, Faults \cap {"base", "override"} = {},
           NEW t \in Threads, refreshKey(t)
    PROVE  Reading' /\ LeavesNone'
<1>1. ReadBase(t) \/ ReadOverride(t) \/ Store(t)
  BY DEF refreshKey, BaseFails, OverrideFails
<1>2. /\ base' = base /\ over' = over /\ audit' = audit
      /\ lpc' = lpc /\ mode' = mode /\ offset' = offset /\ lastPage' = lastPage
      /\ todo' = todo /\ harmed' = harmed
  BY <1>1 DEF ReadBase, ReadOverride, Store, dbVars, loopVars, histVars
<1>3. \A j : Untouched(j)' = Untouched(j) /\ Paged(j)' = Paged(j) /\ effective(j)' = effective(j)
  BY <1>2 DEF Untouched, effective, Paged, rank, rows
<1>4. rpc[t] # "off" /\ rkey[t] \in Keys
  BY <1>1 DEF ReadBase, ReadOverride, Store, TypeOK, RefreshType
<1>5. /\ \A u \in Threads \ {t} : rpc'[u] = rpc[u] /\ rkey'[u] = rkey[u] /\ rval'[u] = rval[u]
      /\ rpc'[t] # "off" => rkey'[t] = rkey[t]
  BY <1>1 DEF ReadBase, ReadOverride, Store, Return, TypeOK, RefreshType
<1>6. ASSUME rpc'[t] # "off", Untouched(rkey[t])
      PROVE  /\ rpc'[t] = "override" => HasOverride /\ rval'[t] = base[rkey[t]]
             /\ rpc'[t] = "store" => rval'[t] = effective(rkey[t])
  <2>1. CASE ReadBase(t)
    <3>1. /\ rval'[t] = base[rkey[t]]
          /\ rpc'[t] = IF HasOverride THEN "override" ELSE "store"
      BY <2>1 DEF ReadBase, TypeOK, RefreshType
    <3> QED
      BY <3>1 DEF effective
  <2>2. CASE ReadOverride(t)
    <3>1. /\ rval'[t] = IF over[rkey[t]] = NoRow THEN rval[t] ELSE over[rkey[t]]
          /\ rpc[t] = "override" /\ rpc'[t] = "store"
      BY <2>2 DEF ReadOverride, TypeOK, RefreshType
    <3>2. HasOverride /\ rval[t] = base[rkey[t]]
      BY <1>6, <3>1 DEF Warm, Reading
    <3> QED
      BY <3>1, <3>2 DEF effective
  <2>3. CASE Store(t)
    BY <1>6, <2>3 DEF Store, Return, TypeOK, RefreshType
  <2> QED
    BY <1>1, <2>1, <2>2, <2>3
<1>7. Reading'
  <2> SUFFICES ASSUME NEW u \in Threads, rpc'[u] # "off", Untouched(rkey[u])
               PROVE  /\ rpc'[u] = "override" => HasOverride /\ rval'[u] = base[rkey[u]]
                      /\ rpc'[u] = "store" => rval'[u] = effective(rkey[u])
    BY <1>2, <1>5 DEF Reading, Untouched, effective
  <2>1. CASE u = t
    BY <1>6, <2>1
  <2>2. CASE u # t
    BY <1>5, <2>2 DEF Warm, Reading
  <2> QED
    BY <2>1, <2>2
<1>8. \A j \in Keys : Untouched(j) /\ Loaded(j) => Loaded(j)'
  <2>1. CASE Store(t)
    <3> SUFFICES ASSUME NEW j \in Keys, Untouched(j), Loaded(j) PROVE Loaded(j)'
      OBVIOUS
    <3>1. CASE j = rkey[t] /\ rval[t] # NoRow
      <4>1. rval[t] = effective(j)
        BY <1>4, <2>1, <3>1 DEF Warm, Reading, Store
      <4>2. configMap'[j] = parseValue(rval[t])
        BY <2>1, <3>1 DEF Store, TypeOK
      <4> QED
        BY <1>3, <4>1, <4>2 DEF Loaded
    <3>2. CASE ~(j = rkey[t] /\ rval[t] # NoRow)
      <4>1. configMap'[j] = configMap[j]
        BY <2>1, <3>2 DEF Store, TypeOK
      <4> QED
        BY <1>3, <4>1 DEF Loaded
    <3> QED
      BY <3>1, <3>2
  <2>2. CASE configMap' = configMap
    BY <1>3, <2>2 DEF Loaded
  <2> QED
    BY <1>1, <2>1, <2>2 DEF ReadBase, ReadOverride
<1>9. \A j \in Keys : Untouched(j) /\ Loading(j) => Loaded(j)' \/ Loading(j)'
  <2> SUFFICES ASSUME NEW j \in Keys, Untouched(j), Loading(j) PROVE Loaded(j)' \/ Loading(j)'
    OBVIOUS
  <2>1. TheLoop \in Threads
    BY DEF Threads
  <2>2. CASE t # TheLoop \/ j \in todo \/ ~Store(t)
    <3>1. CASE t # TheLoop \/ j \in todo
      BY <1>2, <1>5, <2>1, <3>1 DEF Loading
    <3>2. CASE ~Store(t)
      <4>1. rpc'[t] # "off"
        BY <1>1, <3>2 DEF ReadBase, ReadOverride, TypeOK, RefreshType
      <4> QED
        BY <1>2, <1>5, <2>1, <4>1 DEF Loading
    <3> QED
      BY <2>2, <3>1, <3>2
  <2>3. CASE t = TheLoop /\ j \notin todo /\ Store(t)
    <3>1. j = rkey[t] /\ rpc[t] = "store"
      BY <2>3 DEF Loading, Store
    <3>2. rval[t] = effective(j) /\ effective(j) # NoRow
      BY <3>1, UntouchedHasValue DEF Warm, Reading
    <3>3. configMap'[j] = parseValue(rval[t])
      BY <2>3, <3>1, <3>2 DEF Store, TypeOK
    <3> QED
      BY <1>3, <3>2, <3>3 DEF Loaded
  <2> QED
    BY <2>2, <2>3
<1>10. LeavesNone'
  BY <1>2, <1>3, <1>8, <1>9 DEF Warm, LeavesNone
<1> QED
  BY <1>7, <1>10

LEMMA WarmInductive ==
    ASSUME Faults \cap {"base", "override"} = {}
    PROVE  TypeOK /\ Warm /\ [Next]_vars => Warm'
<1> SUFFICES ASSUME TypeOK, Warm, [Next]_vars PROVE Warm'
  OBVIOUS
<1>1. RoundAhead'
  BY RoundInductive DEF Warm
<1>2. CASE \E k \in Keys, row \in Row : Write(k, row)
  BY <1>1, <1>2, WriteWarm DEF Warm
<1>3. CASE LoopMoves
  BY <1>1, <1>3, LoopWarm DEF Warm
<1>4. CASE \E t \in Threads : \/ \E k \in Keys : (RefreshNext(k) /\ t = TheLoop) \/ GetMiss(t, k)
                             \/ refreshKey(t)
  BY <1>1, <1>4, CallWarm, RefreshWarm DEF Warm
<1>5. CASE UNCHANGED vars
  <2>1. /\ base' = base /\ over' = over /\ audit' = audit /\ configMap' = configMap
        /\ lpc' = lpc /\ mode' = mode /\ offset' = offset /\ lastPage' = lastPage
        /\ todo' = todo /\ rpc' = rpc /\ rkey' = rkey /\ rval' = rval /\ harmed' = harmed
    BY <1>5 DEF vars, dbVars, loopVars, refreshVars, histVars
  <2>2. Reading'
    BY <2>1 DEF Warm, Reading, Untouched, effective
  <2>3. \A k : /\ Untouched(k)' = Untouched(k) /\ Loaded(k)' = Loaded(k)
               /\ Loading(k)' = Loading(k) /\ Paged(k)' = Paged(k)
    BY <2>1 DEF Untouched, Loaded, Loading, effective, Paged, rank, rows
  <2>4. LeavesNone'
    BY <2>1, <2>3 DEF Warm, LeavesNone
  <2> QED
    BY <1>1, <2>2, <2>4 DEF Warm
<1> QED
  BY <1>2, <1>3, <1>4, <1>5 DEF Next, Loop, LoopMoves, Threads

\* After Start every key with a row that nobody has changed is in the map with
\* its value, for any number of keys, any page size and whatever is inserted
\* while the pages are read: it needs that refreshKey's queries succeed, that no
\* page is lost and nothing is deleted during the load, and that no key is
\* blank (Start, fetchAllConfigs).
THEOREM StartIsWarm ==
    ASSUME Faults \cap {"base", "override"} = {}
    PROVE  Spec => []WarmStart
<1>1. TypeOK /\ Warm => WarmStart
  <2> SUFFICES ASSUME Warm, mode = "update", ~harmed, ~HasBlankRow,
                      NEW k \in Keys, Untouched(k)
               PROVE  Loaded(k)
    BY DEF WarmStart, Untouched, Loaded
  <2>1. Paged(k) /\ ~Loading(k)
    BY DEF Paged, Loading
  <2> QED
    BY <2>1 DEF Warm, LeavesNone
<1>2. Spec => []Warm
  BY WarmInitially, WarmInductive, TypeCorrect, PTL DEF Spec
<1> QED
  BY <1>1, <1>2, TypeCorrect, PTL
=============================================================================
