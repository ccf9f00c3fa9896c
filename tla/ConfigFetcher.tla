---------------------------- MODULE ConfigFetcher ----------------------------
(***************************************************************************)
(* The runtime configuration of the service: internal/appconfig/fetcher.go.*)
(*                                                                         *)
(* MySQL holds a base table, an optional per-namespace override table and  *)
(* an audit log of changes.  Start loads every key page by page; a loop    *)
(* then polls the audit log and reloads the keys changed since the audit   *)
(* id it last reached; a Get that misses loads its key itself.  Each query *)
(* is a step of its own, so writers and callers of Get interleave with a   *)
(* refresh between its two reads and its store.                            *)
(***************************************************************************)
EXTENDS Integers, Sequences, FiniteSets

CONSTANTS
    NKeys,         \* the configuration keys are 1..NKeys, in ORDER BY order
    Values,        \* row values that are valid JSON
    HasOverride,   \* the namespace has an override table
    HasBlankRow,   \* the base table has a row whose key is the empty string
    keyPageLimit,  \* rows per page of the initial load (30)
    Getters,       \* request goroutines calling Get
    Faults,        \* the queries that may fail
    MaxWrites      \* bound: changes made to the tables

\* The five queries of the fetcher.
Queries == {"latest", "page", "delta", "base", "override"}

ASSUME FetcherAssumption ==
    /\ NKeys \in Nat
    /\ HasOverride \in BOOLEAN
    /\ HasBlankRow \in BOOLEAN
    /\ keyPageLimit \in Nat \ {0}
    /\ Faults \subseteq Queries
    /\ MaxWrites \in Nat

Keys == 1..NKeys

\* A row: a JSON value, text that is not JSON, or no value (no row or NULL).
NoRow == [kind |-> "none"]
BadJSON == [kind |-> "bad"]
JSON(v) == [kind |-> "json", val |-> v]
Row == {NoRow, BadJSON} \cup {JSON(v) : v \in Values}

\* An entry of configMap: nothing, the empty object, or a parsed value.
Absent == [kind |-> "absent"]
EmptyObject == [kind |-> "empty"]
Entry == {Absent, EmptyObject} \cup {JSON(v) : v \in Values}

\* Mutant of parseValue: the text is stored as it is.
parseRaw(row) == row

\* parseValue: text that is not JSON becomes an empty object.
parseValue(row) == IF row = BadJSON THEN EmptyObject ELSE row

\* The refresh loop is a thread, each caller of Get another one.
TheLoop == "loop"
Threads == {TheLoop} \cup Getters

ASSUME LoopIsNoGetter == TheLoop \notin Getters

VARIABLES
    base,       \* the base table
    over,       \* the override table
    audit,      \* the audit log: the changed keys, in audit_id order
    configMap,  \* Fetcher.configMap
    auditID,    \* Fetcher.auditID
    lpc,        \* where the loop's goroutine is
    mode,       \* whether it runs fetchAllConfigs or fetchUpdates
    offset,     \* fetchAllConfigs: rows paged through so far
    lastPage,   \* fetchAllConfigs: the page was short
    latest,     \* fetchUpdates: the audit id this round will reach
    todo,       \* keys of the page or round still to refresh
    rpc,        \* refreshKey, per thread: which query comes next
    rkey,       \* refreshKey: its key
    rval,       \* refreshKey: the value read so far
    missed,     \* history: keys of this round whose refresh met a fault
    harmed      \* history: a page was lost or a row deleted during the load

dbVars == <<base, over, audit>>
loopVars == <<auditID, lpc, mode, offset, lastPage, latest, todo>>
refreshVars == <<rpc, rkey, rval>>
histVars == <<missed, harmed>>
vars == <<dbVars, configMap, loopVars, refreshVars, histVars>>

\* What refreshKey would store for k if nothing changed meanwhile.
effective(k) == IF HasOverride /\ over[k] # NoRow THEN over[k] ELSE base[k]

-----------------------------------------------------------------------------
Init ==
    /\ base \in [Keys -> Row]
    /\ over \in [Keys -> IF HasOverride THEN Row ELSE {NoRow}]
    /\ audit = <<>>
    /\ configMap = [k \in Keys |-> Absent]
    /\ auditID = 0
    /\ lpc = "seed"
    /\ mode = "load"
    /\ offset = 0
    /\ lastPage = FALSE
    /\ latest = 0
    /\ todo = {}
    /\ rpc = [t \in Threads |-> "off"]
    /\ rkey = [t \in Threads |-> 0]
    /\ rval = [t \in Threads |-> NoRow]
    /\ missed = {}
    /\ harmed = FALSE

(* The tables' writers (outside this program): a change and its audit row  *)
(* commit together.                                                        *)

Write(k, row) ==
    /\ Len(audit) < MaxWrites
    /\ \/ /\ row # base[k]
          /\ base' = [base EXCEPT ![k] = row]
          /\ UNCHANGED over
       \/ /\ HasOverride
          /\ row # over[k]
          /\ over' = [over EXCEPT ![k] = row]
          /\ UNCHANGED base
    /\ audit' = Append(audit, k)
    /\ harmed' = (harmed \/ (mode = "load" /\ row = NoRow))
    /\ UNCHANGED <<configMap, loopVars, refreshVars, missed>>

-----------------------------------------------------------------------------
(* latestAuditID                                                           *)

\* The newest audit id, or -1 when there is none or the query fails.
latestAuditID ==
    {IF audit = <<>> THEN -1 ELSE Len(audit)}
        \cup (IF "latest" \in Faults THEN {-1} ELSE {})

-----------------------------------------------------------------------------
(* Start: seed the audit id, then fetchAllConfigs                          *)

Seed ==
    /\ lpc = "seed"
    /\ auditID' \in latestAuditID
    /\ lpc' = "page"
    /\ UNCHANGED <<dbVars, configMap, mode, offset, lastPage, latest, todo,
                   refreshVars, histVars>>

\* The rows of the base table from offset on, at most keyPageLimit of them;
\* the blank key comes first in key order and is dropped after the LIMIT.
rows == {k \in Keys : base[k] # NoRow} \cup (IF HasBlankRow THEN {0} ELSE {})
rank(k) == Cardinality({j \in rows : j <= k})
page == {k \in rows : offset < rank(k) /\ rank(k) <= offset + keyPageLimit} \ {0}

\* Mutant of allKeys: a full page is taken for the last one.
allKeysOnce ==
    /\ lpc = "page"
    /\ todo' = page
    /\ lastPage' = (Cardinality(page) <= keyPageLimit)
    /\ offset' = offset + Cardinality(page)
    /\ lpc' = "refresh"
    /\ UNCHANGED <<dbVars, configMap, auditID, mode, latest, refreshVars,
                   histVars>>

allKeys ==
    /\ lpc = "page"
    /\ todo' = page
    /\ lastPage' = (Cardinality(page) < keyPageLimit)
    /\ offset' = offset + Cardinality(page)
    /\ lpc' = "refresh"
    /\ UNCHANGED <<dbVars, configMap, auditID, mode, latest, refreshVars,
                   histVars>>

\* A failed page ends the load; the loop starts with what it has.
PageFails ==
    /\ lpc = "page"
    /\ "page" \in Faults
    /\ lpc' = "idle"
    /\ mode' = "update"
    /\ harmed' = TRUE
    /\ UNCHANGED <<dbVars, configMap, auditID, offset, lastPage, latest, todo,
                   refreshVars, missed>>

\* The page is done: ask for the next one, or start the refresh loop.
PageDone ==
    /\ lpc = "refresh"
    /\ mode = "load"
    /\ todo = {}
    /\ rpc[TheLoop] = "off"
    /\ lpc' = IF lastPage THEN "idle" ELSE "page"
    /\ mode' = IF lastPage THEN "update" ELSE "load"
    /\ UNCHANGED <<dbVars, configMap, auditID, offset, lastPage, latest, todo,
                   refreshVars, histVars>>

-----------------------------------------------------------------------------
(* refreshLoop and fetchUpdates                                            *)

\* Mutant of fetchUpdates: any other id starts a round, -1 included.
fetchUpdatesOnChange ==
    /\ lpc = "idle"
    /\ \E id \in latestAuditID :
          /\ id # auditID
          /\ latest' = id
    /\ lpc' = "delta"
    /\ UNCHANGED <<dbVars, configMap, auditID, mode, offset, lastPage, todo,
                   refreshVars, histVars>>

\* fetchUpdates goes on only when the log is ahead of the stored id.
fetchUpdates ==
    /\ lpc = "idle"
    /\ \E id \in latestAuditID :
          /\ id > auditID
          /\ latest' = id
    /\ lpc' = "delta"
    /\ UNCHANGED <<dbVars, configMap, auditID, mode, offset, lastPage, todo,
                   refreshVars, histVars>>

\* Mutant of delta: the first change after the stored id is left out.
deltaSkipsFirst ==
    {k \in Keys : \E i \in 1..Len(audit) : i > auditID + 1 /\ audit[i] = k}

\* The keys audited after the stored id; rows newer than latest come along.
delta == {k \in Keys : \E i \in 1..Len(audit) : i > auditID /\ audit[i] = k}

deltaQuery ==
    /\ lpc = "delta"
    /\ todo' = delta
    /\ missed' = {}
    /\ lpc' = "refresh"
    /\ UNCHANGED <<dbVars, configMap, auditID, mode, offset, lastPage, latest,
                   refreshVars, harmed>>

DeltaFails ==
    /\ lpc = "delta"
    /\ "delta" \in Faults
    /\ lpc' = "idle"
    /\ UNCHANGED <<dbVars, configMap, auditID, mode, offset, lastPage, latest,
                   todo, refreshVars, histVars>>

\* Mutant of RoundDone: advance to the log's end as it is now.
RoundDoneAtEnd ==
    /\ lpc = "refresh"
    /\ mode = "update"
    /\ todo = {}
    /\ rpc[TheLoop] = "off"
    /\ auditID' = Len(audit)
    /\ lpc' = "idle"
    /\ UNCHANGED <<dbVars, configMap, mode, offset, lastPage, latest, todo,
                   refreshVars, histVars>>

\* Every key of the round has been through refreshKey: f.auditID = latest.
RoundDone ==
    /\ lpc = "refresh"
    /\ mode = "update"
    /\ todo = {}
    /\ rpc[TheLoop] = "off"
    /\ auditID' = latest
    /\ lpc' = "idle"
    /\ UNCHANGED <<dbVars, configMap, mode, offset, lastPage, latest, todo,
                   refreshVars, histVars>>

\* Stop: the select of refreshLoop sees stopCh.
StopLoop ==
    /\ lpc = "idle"
    /\ lpc' = "stopped"
    /\ UNCHANGED <<dbVars, configMap, auditID, mode, offset, lastPage, latest,
                   todo, refreshVars, histVars>>

-----------------------------------------------------------------------------
(* refreshKey, for the loop and for a Get that missed                      *)

\* Call refreshKey(k).
Call(t, k) ==
    /\ rpc[t] = "off"
    /\ rpc' = [rpc EXCEPT ![t] = "base"]
    /\ rkey' = [rkey EXCEPT ![t] = k]
    /\ rval' = [rval EXCEPT ![t] = NoRow]

\* The loop's next key: in key order while loading, in map order otherwise.
RefreshNext(k) ==
    /\ lpc = "refresh"
    /\ k \in todo
    /\ mode = "load" => \A j \in todo : k <= j
    /\ todo' = todo \ {k}
    /\ Call(TheLoop, k)
    /\ UNCHANGED <<dbVars, configMap, auditID, lpc, mode, offset, lastPage,
                   latest, histVars>>

\* Get(k) on a key that is not in the map.
GetMiss(g, k) ==
    /\ mode = "update"
    /\ configMap[k] = Absent
    /\ Call(g, k)
    /\ UNCHANGED <<dbVars, configMap, loopVars, histVars>>

\* The base row; without an override table the value is complete.
ReadBase(t) ==
    /\ rpc[t] = "base"
    /\ rval' = [rval EXCEPT ![t] = base[rkey[t]]]
    /\ rpc' = [rpc EXCEPT ![t] = IF HasOverride THEN "override" ELSE "store"]
    /\ UNCHANGED <<dbVars, configMap, loopVars, rkey, histVars>>

\* refreshKey returns and forgets its key.
Return(t) ==
    /\ rpc' = [rpc EXCEPT ![t] = "off"]
    /\ rkey' = [rkey EXCEPT ![t] = 0]
    /\ rval' = [rval EXCEPT ![t] = NoRow]

\* The keys of the loop's round that met a fault.
Missed(t) == IF t = TheLoop THEN missed \cup {rkey[t]} ELSE missed

\* The base query fails: log and return.
BaseFails(t) ==
    /\ rpc[t] = "base"
    /\ "base" \in Faults
    /\ Return(t)
    /\ missed' = Missed(t)
    /\ UNCHANGED <<dbVars, configMap, loopVars, harmed>>

\* The override row, when it has a value, replaces the base value.
ReadOverride(t) ==
    /\ rpc[t] = "override"
    /\ rval' = [rval EXCEPT ![t] = IF over[rkey[t]] = NoRow THEN @
                                   ELSE over[rkey[t]]]
    /\ rpc' = [rpc EXCEPT ![t] = "store"]
    /\ UNCHANGED <<dbVars, configMap, loopVars, rkey, histVars>>

\* The override query fails: refreshKey goes on with the base value.
OverrideFails(t) ==
    /\ rpc[t] = "override"
    /\ "override" \in Faults
    /\ rpc' = [rpc EXCEPT ![t] = "store"]
    /\ missed' = Missed(t)
    /\ UNCHANGED <<dbVars, configMap, loopVars, rkey, rval, harmed>>

\* Mutant of Store: a key without a value is removed from the map.
StoreAbsent(t) ==
    /\ rpc[t] = "store"
    /\ configMap' = [configMap EXCEPT ![rkey[t]] =
                        IF rval[t] = NoRow THEN Absent ELSE parseValue(rval[t])]
    /\ Return(t)
    /\ UNCHANGED <<dbVars, loopVars, histVars>>

\* A value is parsed and stored under the lock; without one, nothing changes.
Store(t) ==
    /\ rpc[t] = "store"
    /\ configMap' = IF rval[t] = NoRow THEN configMap
                    ELSE [configMap EXCEPT ![rkey[t]] = parseValue(rval[t])]
    /\ Return(t)
    /\ UNCHANGED <<dbVars, loopVars, histVars>>

refreshKey(t) ==
    ReadBase(t) \/ BaseFails(t) \/ ReadOverride(t) \/ OverrideFails(t) \/ Store(t)

-----------------------------------------------------------------------------
Loop ==
    \/ Seed \/ allKeys \/ PageFails \/ PageDone
    \/ fetchUpdates \/ deltaQuery \/ DeltaFails \/ RoundDone
    \/ \E k \in Keys : RefreshNext(k)
    \/ refreshKey(TheLoop)

Next ==
    \/ \E k \in Keys, row \in Row : Write(k, row)
    \/ Loop
    \/ StopLoop
    \/ \E g \in Getters : (\E k \in Keys : GetMiss(g, k)) \/ refreshKey(g)

Spec == Init /\ [][Next]_vars

\* The loop's goroutine is scheduled and its ticker keeps firing, until Stop.
FairSpec == Spec /\ WF_vars(Loop)

-----------------------------------------------------------------------------
(* Properties                                                              *)

TableType ==
    /\ base \in [Keys -> Row]
    /\ over \in [Keys -> Row]
    /\ audit \in Seq(Keys)
    /\ Len(audit) <= MaxWrites

LoopType ==
    /\ auditID \in -1..MaxWrites
    /\ lpc \in {"seed", "page", "idle", "delta", "refresh", "stopped"}
    /\ mode \in {"load", "update"}
    /\ offset \in Nat
    /\ lastPage \in BOOLEAN
    /\ latest \in -1..MaxWrites
    /\ todo \subseteq Keys

RefreshType ==
    /\ rpc \in [Threads -> {"off", "base", "override", "store"}]
    /\ rkey \in [Threads -> 0..NKeys]
    /\ \A t \in Threads : rpc[t] # "off" => rkey[t] \in Keys
    /\ rval \in [Threads -> Row]

\* The state of the fetcher is well typed: only parsed values reach configMap,
\* and a thread in refreshKey has a key (Fetcher).
TypeOK ==
    /\ TableType
    /\ configMap \in [Keys -> Entry]
    /\ LoopType
    /\ RefreshType
    /\ missed \subseteq Keys
    /\ harmed \in BOOLEAN

\* k has a row, and the map has a value of it that is not the current one.
Stale(k) ==
    /\ effective(k) # NoRow
    /\ configMap[k] \notin {Absent, parseValue(effective(k))}

\* k was changed after the audit id the loop has reached.
Audited(k) == \E i \in 1..Len(audit) : i > auditID /\ audit[i] = k

\* The audit protocol loses no change: a stale value is one the next
\* fetchUpdates will find in the log, whatever writes fall between Start's
\* seeding and its load, between the queries of a round, or between the two
\* reads and the store of refreshKey.
StaleIsPending == \A k \in Keys : Stale(k) => Audited(k)

\* Start "returns after the initial full load so the server starts with a warm
\* config map": a key with a row that has not changed since is in the map with
\* its value, wherever the pages fell, unless a page was lost, a deletion
\* shifted the pages or a blank key shortened one.
WarmStart ==
    mode = "update" /\ ~harmed /\ ~HasBlankRow =>
        \A k \in Keys :
            base[k] # NoRow /\ (\A i \in 1..Len(audit) : audit[i] # k)
                => configMap[k] = parseValue(effective(k))

\* A failed latestAuditID (-1) or a stale one never makes the loop go back.
AuditMonotone == [][lpc # "seed" => auditID' >= auditID]_vars

\* A key that once resolved resolves for ever: failed queries, deleted rows
\* and NULLs leave the last value in the map.
NeverUnresolved ==
    [][\A k \in Keys : configMap[k] # Absent => configMap'[k] # Absent]_vars

\* Once the tables stop changing the map agrees with them, unless the loop
\* was stopped.
Converges == <>[](lpc = "stopped" \/ \A k \in Keys : ~Stale(k))

\* What fetchUpdates says of itself: "advancing the stored audit id only after
\* a successful refresh".
AdvanceAfterRefresh == [][mode = "update" /\ auditID' # auditID => missed = {}]_vars
=============================================================================
