----------------------------- MODULE MetaProofs -----------------------------
(***************************************************************************)
(* The meta lanes with their cache implement a lookup without one: proofs  *)
(* about Lookups, for any number of requests and any tenants.              *)
(***************************************************************************)
EXTENDS LookupProofs

Metas == {NoMeta} \cup UNION {metaFetch(l) : l \in Lanes}

MetaTyped ==
    /\ rq \in LookupCases
    /\ clock \in Nat
    /\ mdoc \in [Identifiers -> [meta : Metas, ttl : Nat]]
    /\ ml \in [Lanes -> [phase : {"start", "fetch", "fetched", "done"}, meta : Metas,
                         put : {"none", "pending", "done"}]]

\* A lane that is not done is on; it has no meta before its lookups, and after
\* them its own; only that is written.
LaneOrder ==
    \A l \in Lanes :
        /\ ml[l].phase # "done" => metaOn(l) /\ ml[l].put = "none"
        /\ ml[l].phase \in {"start", "fetch"} => ml[l].meta = NoMeta
        /\ ml[l].phase = "fetched" => ml[l].meta.by = l
        /\ ml[l].put # "none" => ml[l].meta.by = l /\ metaOn(l)

\* A cached meta is the answer to a lookup of the identifier it is stored under.
Filed ==
    \A i \in Identifiers : \A q \in Lanes :
        mdoc[i].meta.by = q => metaOn(q) /\ identifier(q) = i /\ ml[q].meta.by = q

MetaInv == MetaTyped /\ LaneOrder /\ Filed

-----------------------------------------------------------------------------
LEMMA LaneShape == \A l \in Lanes : l[1] \in Requests /\ l[2] \in {"phone", "email"}
                                    /\ l = <<l[1], l[2]>>
  BY DEF Lanes, MetaKinds

LEMMA FetchedBy == \A l : \A m \in metaFetch(l) : m.by = l
  BY DEF metaFetch, phoneMeta, emailMeta

LEMMA MetaBy ==
    ASSUME NEW m \in Metas
    PROVE  /\ m = NoMeta \/ m.by \in Lanes
           /\ m = NoMeta => m.by \notin Lanes
<1>1. NoMeta.by = None /\ None \notin Lanes
  BY LanesAssumption DEF NoMeta, Lanes, MetaKinds
<1> QED
  BY <1>1, FetchedBy DEF Metas

\* A number is never an address, so one cache serves both kinds.
LEMMA IdentifierKinds ==
    ASSUME rq \in LookupCases
    PROVE  /\ \A l \in Lanes : identifier(l) \in Identifiers
           /\ \A l, q \in Lanes : metaOn(l) /\ identifier(l) = identifier(q) => l[2] = q[2]
<1>1. \A p : parsePhone(p) \in {"", "+9198", "+9177"}
  BY DEF parsePhone, International
<1>2. \A r \in Requests : rq[r].email \in Addresses
  BY AddressesAssumption
<1>3. \A l \in Lanes : /\ l[2] = "phone" => identifier(l) \in {"", "+9198", "+9177"}
                       /\ l[2] = "email" => identifier(l) \in Addresses
  BY <1>1, <1>2, LaneShape DEF identifier
<1>4. \A l \in Lanes : metaOn(l) => identifier(l) # ""
  BY DEF metaOn
<1> QED
  BY <1>3, <1>4, LaneShape DEF Identifiers, Addresses

\* The gates and identifiers depend on the requests alone.
LEMMA SameRequests ==
    ASSUME UNCHANGED rq
    PROVE  /\ Metas' = Metas /\ metaAsked' = metaAsked
           /\ \A l : metaOn(l)' = metaOn(l) /\ identifier(l)' = identifier(l)
<1>1. \A l : identifier(l)' = identifier(l)
  BY DEF identifier
<1>2. \A l : metaOn(l)' = metaOn(l)
  BY <1>1 DEF metaOn
<1>3. \A l : metaFetch(l)' = metaFetch(l)
  BY DEF metaFetch, phoneMeta, emailMeta
<1>4. Metas' = Metas
  BY <1>3 DEF Metas
<1>5. metaAsked' = metaAsked
  BY <1>1, <1>2 DEF metaAsked
<1> QED
  BY <1>1, <1>2, <1>4, <1>5

-----------------------------------------------------------------------------
LEMMA MetaInitially == Init => MetaInv /\ Shared!PromiseInit
<1> SUFFICES ASSUME Init PROVE MetaInv /\ Shared!PromiseInit
  OBVIOUS
<1>1. /\ \A l \in Lanes : /\ ml[l].meta = NoMeta /\ ml[l].put = "none"
                          /\ ml[l].phase = IF metaOn(l) THEN "start" ELSE "done"
      /\ \A i \in Identifiers : mdoc[i].meta = NoMeta
  BY DEF Init, MetaInit
<1>2. MetaTyped
  BY DEF Init, MetaInit, MetaTyped, Metas
<1>3. NoMeta \in Metas /\ NoMeta.by \notin Lanes
  BY MetaBy DEF Metas
<1>4. LaneOrder /\ Filed
  BY <1>1, <1>3 DEF LaneOrder, Filed
<1>5. metaFacts = {}
  BY <1>1, <1>3 DEF metaFacts
<1>6. metaAnswered = {l \in Lanes : metaAsked[l].items = {}}
  BY <1>1 DEF metaAnswered, metaAsked
<1> QED
  BY <1>2, <1>4, <1>5, <1>6 DEF MetaInv, Shared!PromiseInit

LEMMA MetaIdle ==
    ASSUME MetaInv, UNCHANGED <<rq, mdoc, ml>>, clock' \in Nat
    PROVE  MetaInv' /\ UNCHANGED Shared!promiseVars
<1>1. MetaInv'
  BY SameRequests DEF MetaInv, MetaTyped, LaneOrder, Filed
<1>2. metaAnswered' = metaAnswered /\ metaFacts' = metaFacts /\ metaAnswer' = metaAnswer
  BY SameRequests DEF metaAnswered, metaFacts, metaAnswer
<1> QED
  BY <1>1, <1>2, SameRequests DEF Shared!promiseVars

LEMMA FactsOfLookups ==
    ASSUME UNCHANGED rq, \A k \in Lanes : ml'[k].meta.by = k <=> ml[k].meta.by = k
    PROVE  metaFacts' = metaFacts
<1>1. {k \in Lanes : ml'[k].meta.by = k} = {k \in Lanes : ml[k].meta.by = k}
  OBVIOUS
<1>2. \A k : identifier(k)' = identifier(k)
  BY SameRequests
<1> QED
  BY <1>1, <1>2 DEF metaFacts

\* The cache misses, or is off, or cannot be read.
LEMMA MissKeeps ==
    ASSUME MetaInv, NEW l \in Lanes, ml[l].phase = "start",
           ml' = [ml EXCEPT ![l].phase = "fetch"], UNCHANGED <<rq, clock, mdoc>>
    PROVE  MetaInv' /\ UNCHANGED Shared!promiseVars
<1>1. /\ \A q \in Lanes \ {l} : ml'[q] = ml[q]
      /\ ml'[l].phase = "fetch" /\ ml'[l].meta = ml[l].meta /\ ml'[l].put = ml[l].put
      /\ MetaTyped'
  BY SameRequests DEF MetaInv, MetaTyped
<1>2. LaneOrder' /\ Filed'
  BY <1>1, SameRequests DEF MetaInv, LaneOrder, Filed
<1>3. metaAnswered' = metaAnswered /\ metaFacts' = metaFacts /\ metaAnswer' = metaAnswer
  BY <1>1, SameRequests DEF metaAnswered, metaFacts, metaAnswer
<1> QED
  BY <1>1, <1>2, <1>3, SameRequests DEF MetaInv, Shared!promiseVars

\* A hit: the lane answers with what a lane of its own kind has looked up.
LEMMA HitKeeps ==
    ASSUME MetaInv, NEW l \in Lanes, ml[l].phase = "start", stored(l) # NoMeta,
           ml' = [ml EXCEPT ![l].phase = "done", ![l].meta = stored(l)],
           UNCHANGED <<rq, clock, mdoc>>
    PROVE  MetaInv' /\ Shared!PromiseNext
<1>0. /\ MetaTyped /\ LaneOrder /\ Filed /\ metaOn(l) /\ ml[l].meta = NoMeta
      /\ ml[l].put = "none" /\ identifier(l) \in Identifiers
  BY IdentifierKinds DEF MetaInv, MetaTyped, LaneOrder
<1>1. stored(l) = mdoc[identifier(l)].meta /\ stored(l) \in Metas
  BY <1>0 DEF stored, metaKey, MetaTyped
<1>2. PICK q \in Lanes : stored(l).by = q
  BY <1>1, MetaBy
<1>3. metaOn(q) /\ identifier(q) = identifier(l) /\ ml[q].meta.by = q /\ q # l
  BY <1>0, <1>1, <1>2, MetaBy DEF Filed, Metas
<1>4. q[2] = l[2]
  BY <1>0, <1>3, IdentifierKinds DEF MetaTyped
<1>5. /\ \A k \in Lanes \ {l} : ml'[k] = ml[k]
      /\ ml'[l].phase = "done" /\ ml'[l].meta = stored(l) /\ ml'[l].put = "none"
      /\ MetaTyped'
  BY <1>0, <1>1, SameRequests DEF MetaTyped
<1>6. ml[l].meta.by # l
  BY <1>0, MetaBy DEF Metas
<1>7. LaneOrder' /\ Filed'
  <2>1. LaneOrder'
    <3> SUFFICES ASSUME NEW k \in Lanes
                 PROVE  /\ ml'[k].phase # "done" => metaOn(k) /\ ml'[k].put = "none"
                        /\ ml'[k].phase \in {"start", "fetch"} => ml'[k].meta = NoMeta
                        /\ ml'[k].phase = "fetched" => ml'[k].meta.by = k
                        /\ ml'[k].put # "none" => ml'[k].meta.by = k /\ metaOn(k)
      BY SameRequests DEF LaneOrder
    <3>1. CASE k = l
      BY <1>5, <3>1
    <3>2. CASE k # l
      <4>1. ml'[k] = ml[k]
        BY <1>5, <3>2
      <4> QED
        BY <1>0, <4>1 DEF LaneOrder
    <3> QED
      BY <3>1, <3>2
  <2>2. \A k \in Lanes : ml[k].meta.by = k => ml'[k].meta.by = k
    BY <1>5, <1>6
  <2>3. Filed'
    BY <1>0, <2>2, SameRequests DEF Filed
  <2> QED
    BY <2>1, <2>3
<1>8. metaFacts' = metaFacts
  <2>1. \A k \in Lanes : ml'[k].meta.by = k <=> ml[k].meta.by = k
    BY <1>2, <1>3, <1>5, <1>6
  <2> QED
    BY <2>1, FactsOfLookups
<1>9. /\ l \notin metaAnswered /\ metaAnswered' = metaAnswered \cup {l}
  BY <1>5 DEF metaAnswered
<1>10. /\ metaAsked' = metaAsked
       /\ metaAsked[l].items = {"meta"} /\ metaAsked[l].subject = <<l[2], identifier(l)>>
       /\ DOMAIN metaAnswer'[l] = {"meta"} /\ metaAnswer'[l]["meta"] = q
  BY <1>0, <1>2, <1>5, SameRequests DEF metaAsked, metaAnswer
<1>11. q # Err
  BY LanesAssumption DEF Lanes, MetaKinds
<1>12. <<metaAsked[l].subject, "meta", q>> \in metaFacts
  BY <1>3, <1>4, <1>10 DEF metaFacts
<1>13. Shared!Reply(l)
  BY <1>8, <1>9, <1>10, <1>11, <1>12 DEF Shared!Reply
<1>14. Shared!Settled
  BY <1>5, <1>9, SameRequests DEF Shared!Settled, metaAnswer, metaAnswered
<1> QED
  BY <1>5, <1>7, <1>13, <1>14 DEF MetaInv, Shared!PromiseNext

LEMMA MetaFetchKeeps ==
    ASSUME MetaInv, NEW l \in Lanes, MetaFetch(l), UNCHANGED <<rq, clock>>
    PROVE  MetaInv' /\ Shared!PromiseNext
<1>0. /\ MetaTyped /\ LaneOrder /\ Filed /\ metaOn(l) /\ ml[l].meta = NoMeta
      /\ ml[l].put = "none" /\ ml[l].phase = "fetch" /\ UNCHANGED mdoc
  BY DEF MetaInv, LaneOrder, MetaFetch
<1>1. PICK m \in metaFetch(l) : ml' = [ml EXCEPT ![l].phase = "fetched", ![l].meta = m]
  BY DEF MetaFetch
<1>2. m.by = l /\ m \in Metas
  BY FetchedBy DEF Metas
<1>3. /\ \A k \in Lanes \ {l} : ml'[k] = ml[k]
      /\ ml'[l].phase = "fetched" /\ ml'[l].meta = m /\ ml'[l].put = "none"
      /\ MetaTyped'
  <2>1. ml[l] \in [phase : {"start", "fetch", "fetched", "done"}, meta : Metas,
                   put : {"none", "pending", "done"}]
    BY <1>0 DEF MetaTyped
  <2>2. ml' = [ml EXCEPT ![l] = [@ EXCEPT !.phase = "fetched", !.meta = m]]
    BY <1>1
  <2>3. ml'[l] = [ml[l] EXCEPT !.phase = "fetched", !.meta = m]
    BY <2>2, <1>0 DEF MetaTyped
  <2>4. \A k \in Lanes \ {l} : ml'[k] = ml[k]
    BY <2>2, <1>0 DEF MetaTyped
  <2>5. ml'[l].phase = "fetched" /\ ml'[l].meta = m /\ ml'[l].put = "none"
    BY <1>0, <2>1, <2>3
  <2>6. ml' \in [Lanes -> [phase : {"start", "fetch", "fetched", "done"}, meta : Metas,
                           put : {"none", "pending", "done"}]]
    BY <1>0, <1>2, <2>1, <2>2 DEF MetaTyped
  <2> QED
    BY <1>0, <2>4, <2>5, <2>6, SameRequests DEF MetaTyped
<1>4. LaneOrder' /\ Filed'
  BY <1>0, <1>2, <1>3, SameRequests DEF LaneOrder, Filed
<1>5. /\ metaAsked' = metaAsked /\ "meta" \in metaAsked[l].items
      /\ metaAsked[l].subject = <<l[2], identifier(l)>>
  BY <1>0, SameRequests DEF metaAsked
<1>6. metaFacts' = metaFacts \cup {<<metaAsked[l].subject, "meta", l>>}
  <2>1. \A k \in Lanes : ml'[k].meta.by = k <=> ml[k].meta.by = k \/ k = l
    BY <1>2, <1>3
  <2> QED
    BY <1>5, <2>1, SameRequests DEF metaFacts
<1>7. l \notin metaAnswered /\ metaAnswered' = metaAnswered
  BY <1>0, <1>3 DEF metaAnswered
<1>8. Shared!Learn(l)
  BY <1>5, <1>6, <1>7 DEF Shared!Learn
<1>9. Shared!Settled
  BY <1>3, <1>7, SameRequests DEF Shared!Settled, metaAnswer, metaAnswered
<1> QED
  BY <1>3, <1>4, <1>8, <1>9 DEF MetaInv, Shared!PromiseNext

LEMMA MetaDoneKeeps ==
    ASSUME MetaInv, NEW l \in Lanes, MetaDone(l), UNCHANGED <<rq, clock>>
    PROVE  MetaInv' /\ Shared!PromiseNext
<1>0. /\ MetaTyped /\ LaneOrder /\ Filed /\ metaOn(l) /\ ml[l].meta.by = l
      /\ ml[l].phase = "fetched" /\ UNCHANGED mdoc
  BY DEF MetaInv, LaneOrder, MetaDone
<1>1. /\ \A k \in Lanes \ {l} : ml'[k] = ml[k]
      /\ ml'[l].phase = "done" /\ ml'[l].meta = ml[l].meta
      /\ MetaTyped'
  BY <1>0, SameRequests DEF MetaTyped, MetaDone
<1>2. LaneOrder' /\ Filed'
  BY <1>0, <1>1, SameRequests DEF LaneOrder, Filed
<1>3. metaFacts' = metaFacts
  <2>1. \A k \in Lanes : ml'[k].meta = ml[k].meta
    BY <1>1
  <2> QED
    BY <2>1, SameRequests DEF metaFacts
<1>4. l \notin metaAnswered /\ metaAnswered' = metaAnswered \cup {l}
  BY <1>0, <1>1 DEF metaAnswered
<1>5. /\ metaAsked' = metaAsked
      /\ metaAsked[l].items = {"meta"} /\ metaAsked[l].subject = <<l[2], identifier(l)>>
      /\ DOMAIN metaAnswer'[l] = {"meta"} /\ metaAnswer'[l]["meta"] = l
  BY <1>0, <1>1, SameRequests DEF metaAsked, metaAnswer
<1>6. l # Err /\ <<metaAsked[l].subject, "meta", l>> \in metaFacts
  BY <1>0, <1>5, LanesAssumption DEF Lanes, MetaKinds, metaFacts
<1>7. Shared!Reply(l)
  BY <1>3, <1>4, <1>5, <1>6 DEF Shared!Reply
<1>8. Shared!Settled
  BY <1>1, <1>4, SameRequests DEF Shared!Settled, metaAnswer, metaAnswered
<1> QED
  BY <1>1, <1>2, <1>7, <1>8 DEF MetaInv, Shared!PromiseNext

LEMMA MetaPutKeeps ==
    ASSUME MetaInv, NEW l \in Lanes, MetaPut(l), UNCHANGED <<rq, clock>>
    PROVE  MetaInv' /\ UNCHANGED Shared!promiseVars
<1>0. /\ MetaTyped /\ LaneOrder /\ Filed /\ metaOn(l) /\ ml[l].meta.by = l
      /\ ml[l].phase = "done" /\ identifier(l) \in Identifiers /\ ml[l].meta \in Metas
      /\ clock + MetaTTL \in Nat
  BY IdentifierKinds, MetaTTLAssumption DEF MetaInv, MetaTyped, LaneOrder, MetaPut
<1>1. /\ \A k \in Lanes \ {l} : ml'[k] = ml[k]
      /\ ml'[l].phase = "done" /\ ml'[l].meta = ml[l].meta /\ ml'[l].put = "done"
      /\ \A i \in Identifiers : mdoc'[i].meta = mdoc[i].meta
                                \/ (i = identifier(l) /\ mdoc'[i].meta = ml[l].meta)
      /\ MetaTyped'
  <2>1. /\ \A k \in Lanes \ {l} : ml'[k] = ml[k]
        /\ ml'[l].phase = "done" /\ ml'[l].meta = ml[l].meta /\ ml'[l].put = "done"
        /\ ml' \in [Lanes -> [phase : {"start", "fetch", "fetched", "done"}, meta : Metas,
                              put : {"none", "pending", "done"}]]
    BY <1>0 DEF MetaTyped, MetaPut
  <2>2. \/ mdoc' = mdoc
        \/ mdoc' = [mdoc EXCEPT ![identifier(l)] = [meta |-> ml[l].meta, ttl |-> clock + MetaTTL]]
    BY DEF MetaPut, metaKey
  <2>3. /\ mdoc' \in [Identifiers -> [meta : Metas, ttl : Nat]]
        /\ \A i \in Identifiers : mdoc'[i].meta = mdoc[i].meta
                                  \/ (i = identifier(l) /\ mdoc'[i].meta = ml[l].meta)
    <3> DEFINE new == [meta |-> ml[l].meta, ttl |-> clock + MetaTTL]
    <3>1. new \in [meta : Metas, ttl : Nat] /\ new.meta = ml[l].meta
      BY <1>0
    <3>2. mdoc \in [Identifiers -> [meta : Metas, ttl : Nat]]
      BY <1>0 DEF MetaTyped
    <3> HIDE DEF new
    <3>3. mdoc' = mdoc \/ mdoc' = [mdoc EXCEPT ![identifier(l)] = new]
      BY <2>2 DEF new
    <3>4. mdoc' \in [Identifiers -> [meta : Metas, ttl : Nat]]
      BY <3>1, <3>2, <3>3
    <3>5. ASSUME NEW i \in Identifiers
          PROVE  mdoc'[i] = mdoc[i] \/ (i = identifier(l) /\ mdoc'[i] = new)
      BY <3>2, <3>3
    <3> QED
      BY <3>1, <3>4, <3>5
  <2> QED
    BY <1>0, <2>1, <2>3, SameRequests DEF MetaTyped
<1>2. LaneOrder'
  BY <1>0, <1>1, SameRequests DEF LaneOrder
<1>3. Filed'
  BY <1>0, <1>1, SameRequests DEF Filed
<1>4. metaAnswered' = metaAnswered /\ metaFacts' = metaFacts /\ metaAnswer' = metaAnswer
  <2>1. \A k \in Lanes : ml'[k].meta = ml[k].meta /\ ml'[k].phase = ml[k].phase
    BY <1>0, <1>1
  <2>2. metaFacts' = metaFacts
    BY <2>1, FactsOfLookups
  <2> QED
    BY <2>1, <2>2, SameRequests DEF metaAnswered, metaAnswer
<1> QED
  BY <1>1, <1>2, <1>3, <1>4, SameRequests DEF MetaInv, Shared!promiseVars

LEMMA MetaInductive ==
    MetaInv /\ [Next]_vars => MetaInv' /\ [Shared!PromiseNext]_Shared!promiseVars
<1> SUFFICES ASSUME MetaInv, [Next]_vars
             PROVE  MetaInv' /\ [Shared!PromiseNext]_Shared!promiseVars
  OBVIOUS
<1>1. ASSUME NEW l \in Lanes, Meta(l)
      PROVE  MetaInv' /\ [Shared!PromiseNext]_Shared!promiseVars
  <2>1. MetaStep(l) /\ UNCHANGED <<rq, clock>>
    BY <1>1 DEF Meta
  <2>2. CASE MetaRead(l)
    BY <2>1, <2>2, MissKeeps, HitKeeps DEF MetaRead
  <2>3. CASE MetaFetch(l)
    BY <2>1, <2>3, MetaFetchKeeps
  <2>4. CASE MetaDone(l)
    BY <2>1, <2>4, MetaDoneKeeps
  <2>5. CASE MetaPut(l)
    BY <2>1, <2>5, MetaPutKeeps
  <2> QED
    BY <2>1, <2>2, <2>3, <2>4, <2>5 DEF MetaStep
<1>2. ASSUME Tick \/ (\E r \in Requests : Enrich(r)) \/ UNCHANGED vars
      PROVE  MetaInv' /\ [Shared!PromiseNext]_Shared!promiseVars
  <2>1. UNCHANGED <<rq, mdoc, ml>> /\ clock' \in {clock, clock + 1}
    BY <1>2 DEF Tick, Enrich, vars, metaVars
  <2>2. clock' \in Nat
    BY <2>1 DEF MetaInv, MetaTyped
  <2> QED
    BY <2>1, <2>2, MetaIdle
<1> QED
  BY <1>1, <1>2 DEF Next

\* Whatever the tenants' gates, the forms in which a number is given and the
\* order of reads and writes, a meta lane answers with a meta that was looked up
\* for its own identifier and kind, and never changes its answer.
THEOREM MetaKeepsItsPromise == Spec => MetaPromise
  BY MetaInitially, MetaInductive, PTL DEF Spec, MetaPromise, Shared!PromiseSpec

-----------------------------------------------------------------------------
(* Types                                                                   *)

\* Of finitely many months, one is the latest: among the sets of the months from
\* k on, one is the smallest.
LEMMA LatestMonth ==
    ASSUME NEW M, IsFiniteSet(M), M # {}, \A o \in M : o.y \in Nat /\ o.m \in Nat
    PROVE  \E k \in M : \A o \in M : o.y < k.y \/ (o.y = k.y /\ o.m <= k.m)
<1> DEFINE Upto(o, k) == o.y < k.y \/ (o.y = k.y /\ o.m <= k.m)
           From(k) == {o \in M : Upto(k, o)}
           T == {From(k) : k \in M}
<1>1. T \subseteq FiniteSubsetsOf(M) /\ T # {}
  <2>1. ASSUME NEW k \in M PROVE From(k) \in FiniteSubsetsOf(M)
    <3>1. From(k) \subseteq M
      OBVIOUS
    <3>2. IsFiniteSet(From(k))
      BY <3>1, FS_Subset
    <3> QED
      BY <3>1, <3>2 DEF FiniteSubsetsOf
  <2> HIDE DEF From
  <2> QED
    BY <2>1
<1>2. PICK x \in T : \A y \in T : ~(<<y, x>> \in StrictSubsetOrdering(M))
  BY <1>1, FS_StrictSubsetOrderingWellFounded, WFMin
<1>3. PICK k \in M : x = From(k)
  OBVIOUS
<1>4. ASSUME NEW o \in M, ~Upto(o, k) PROVE FALSE
  <2>1. /\ o.y \in Nat /\ o.m \in Nat /\ k.y \in Nat /\ k.m \in Nat
        /\ \A i \in M : i.y \in Nat /\ i.m \in Nat
    OBVIOUS
  <2>2. From(o) \subseteq From(k)
    BY <1>4, <2>1
  <2>3. k \in From(k) /\ k \notin From(o)
    BY <1>4, <2>1
  <2>4. <<From(o), From(k)>> \in StrictSubsetOrdering(M)
    BY <2>2, <2>3 DEF StrictSubsetOrdering
  <2> QED
    BY <1>2, <1>3, <2>4
<1> QED
  BY <1>4

LEMMA RevocationsType ==
    ASSUME NEW a \in Disconnections
    PROVE  revocations(a) \in [total : Nat, year : Nat, month : Nat]
<1> DEFINE S == {x \in a.dates : x.parses}
           months == {[y |-> d.y, m |-> d.m] : d \in S}
           f == [d \in S |-> [y |-> d.y, m |-> d.m]]
           latest == CHOOSE k \in months :
                         \A o \in months : o.y < k.y \/ (o.y = k.y /\ o.m <= k.m)
<1>1. IsFiniteSet(S) /\ \A d \in S : d.y \in Nat /\ d.m \in Nat
  BY AnswersAssumption, FS_Subset
<1>2. f \in Surjection(S, months)
  BY DEF Surjection
<1>3. IsFiniteSet(months)
  <2> HIDE DEF S, months, f
  <2> QED
    BY <1>1, <1>2, FS_Surjection
<1>4. \A o \in months : o.y \in Nat /\ o.m \in Nat
  BY <1>1
<1>5. Cardinality(months) \in Nat
  BY <1>3, FS_CardinalityType
<1>6. months # {} => latest.y \in Nat /\ latest.m \in Nat
  <2> HIDE DEF months
  <2>1. SUFFICES ASSUME months # {} PROVE latest \in months
    BY <1>4
  <2> QED
    BY <1>3, <1>4, <2>1, LatestMonth
<1> QED
  BY <1>5, <1>6 DEF revocations

LEMMA PhoneMetaType ==
    ASSUME NEW l \in Lanes
    PROVE  phoneMeta(l) \subseteq PhoneMeta
<1>1. ASSUME NEW o \in Operators
      PROVE  freecharge(o) \in [operator : OperatorNames, circle : CircleNames]
  <2>1. "" \in OperatorNames /\ "" \in CircleNames /\ "Unknown" \in CircleNames
    BY Zenon DEF OperatorNames, CircleNames
  <2>2. CASE ~o.ok
    BY <2>1, <2>2, Zenon DEF freecharge
  <2>3. CASE o.ok
    <3>1. o.operatorId \in OperatorNames /\ o.circleId \in CircleNames
      BY <2>3, Zenon DEF OperatorNames, CircleNames, Freecharged
    <3> QED
      BY <2>1, <2>3, <3>1, Zenon DEF freecharge
  <2> QED
    BY <2>2, <2>3, Zenon
<1>2. \A a, j, v : postpaid(a, j, v) \in {"true", "false", "nil"}
  BY DEF postpaid
<1> QED
  BY <1>1, <1>2, RevocationsType DEF phoneMeta, PhoneMeta

LEMMA EmailMetaType ==
    ASSUME NEW l \in Lanes
    PROVE  emailMeta(l) \subseteq EmailMeta
<1>1. \A a : isDisposable(a) \in {"true", "false", "nil"}
  BY DEF isDisposable
<1>2. \A a : whois(a) \in BOOLEAN /\ websiteExists(a) \in BOOLEAN
  BY DEF whois, websiteExists
<1>3. \A r, m : ynFromTXT(r, m) \in {"Yes", "No"}
  BY DEF ynFromTXT
<1>4. \A a : validMX(a) \in {"Yes", "No"}
  BY DEF validMX
<1>5. CASE rq[l[1]].email \notin WithDomain
  <2>1. emailMeta(l) = {[by |-> l, disposable |-> "nil", error |-> TRUE]}
    BY <1>5, Zenon DEF emailMeta
  <2>2. [by |-> l, disposable |-> "nil", error |-> TRUE]
           \in [by : Lanes, disposable : {"nil"}, error : {TRUE}]
    OBVIOUS
  <2> QED
    BY <2>1, <2>2, Zenon DEF EmailMeta
<1>6. CASE rq[l[1]].email \in WithDomain
  <2> DEFINE m(a) == [by |-> l, disposable |-> isDisposable(a), registered |-> whois(a),
                      spf |-> IF whois(a) THEN ynFromTXT(a.txt, "v=spf1") ELSE "No",
                      dmarc |-> IF whois(a) THEN ynFromTXT(a.dmarc, "v=DMARC1") ELSE "No",
                      mx |-> IF whois(a) THEN validMX(a) ELSE "No",
                      website |-> websiteExists(a)]
  <2>1. \A a : m(a) \in [by : Lanes, disposable : {"true", "false", "nil"}, registered : BOOLEAN,
                         spf : {"Yes", "No"}, dmarc : {"Yes", "No"}, mx : {"Yes", "No"},
                         website : BOOLEAN]
    BY <1>1, <1>2, <1>3, <1>4
  <2>2. emailMeta(l) = {m(a) : a \in Domains}
    BY <1>6, Zenon DEF emailMeta
  <2> HIDE DEF m
  <2>3. \A a : m(a) \in EmailMeta
    BY <2>1, Zenon DEF EmailMeta
  <2> QED
    BY <2>2, <2>3
<1> QED
  BY <1>5, <1>6

\* The documents, the metas and the lanes of every request have their types, in
\* every interleaving of the two kinds of lane (orchestrator.go).
THEOREM LookupsTyped == Spec => []LookupTypeOK
<1>1. EnrichInv /\ MetaInv /\ alive \in BOOLEAN => LookupTypeOK
  <2>1. Metas \subseteq {NoMeta} \cup PhoneMeta \cup EmailMeta
    BY PhoneMetaType, EmailMetaType DEF Metas, metaFetch
  <2> QED
    BY <2>1 DEF EnrichInv, EnrichTyped, Phases, PhaseOf, MetaInv, MetaTyped, LookupTypeOK
<1>2. Spec => []MetaInv
  BY MetaInitially, MetaInductive, PTL DEF Spec
<1>3. Init => alive \in BOOLEAN
  BY DEF Init, EnrichInit
<1>4. alive \in BOOLEAN /\ [Next]_vars => (alive \in BOOLEAN)'
  <2>1. [Next]_vars => UNCHANGED alive \/ alive' = FALSE
    BY DEF Next, Tick, Meta, Enrich, EnrichStep, FetchStep, Fetch, ReadDoc, Serve, Spawn, Lock,
           Check, Join, PutDoc, ConcurrentWrite, enrichVars, vars
  <2> QED
    BY <2>1, Zenon
<1>5. Spec => [](alive \in BOOLEAN)
  BY <1>3, <1>4, PTL DEF Spec
<1> QED
  BY <1>1, <1>2, <1>5, EnrichInvariant, PTL
=============================================================================
