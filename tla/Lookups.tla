------------------------------ MODULE Lookups ------------------------------
(***************************************************************************)
(* The common_data lane and the meta lanes of several requests in flight,  *)
(* side by side (handler/lane.go runs them concurrently): they share a     *)
(* clock and nothing else but their caches.                                *)
(***************************************************************************)
EXTENDS MetaLane

CONSTANT MaxTime  \* the clock stops here
ASSUME MaxTimeAssumption == MaxTime \in Nat

vars == <<rq, clock, doc, e, alive, mdoc, ml>>

Init == rq \in LookupCases /\ clock = 0 /\ EnrichInit /\ MetaInit

Tick == /\ alive /\ clock < MaxTime /\ clock' = clock + 1
        /\ UNCHANGED <<rq, enrichVars, metaVars>>

Enrich(r) == alive /\ EnrichStep(r) /\ UNCHANGED <<rq, clock, metaVars>>
Meta(l) == alive /\ MetaStep(l) /\ UNCHANGED <<rq, clock, enrichVars>>

Next == Tick \/ (\E r \in Requests : Enrich(r)) \/ (\E l \in Lanes : Meta(l))

\* The steps that are sure to be taken: those of a Fetch, whose reads and calls
\* end by the request's deadline, and those of a meta lane, except that nothing
\* ends the DNS lookups of an email. The background writes have no deadline.
FetchGoesOn(r) == alive /\ FetchStep(r) /\ UNCHANGED <<rq, clock, metaVars>>
LaneGoesOn(l) == /\ alive /\ UNCHANGED <<rq, clock, enrichVars>>
                 /\ MetaRead(l) \/ (l[2] = "phone" /\ MetaFetch(l)) \/ MetaDone(l)

Spec == /\ Init /\ [][Next]_vars
        /\ \A r \in Requests : WF_vars(FetchGoesOn(r))
        /\ \A l \in Lanes : WF_vars(LaneGoesOn(l))

-----------------------------------------------------------------------------
(* Properties                                                              *)

\* The variables have their types; a request writes its document only once the
\* lane is done.
LookupTypeOK ==
    /\ rq \in LookupCases
    /\ clock \in Nat
    /\ doc \in [Keys -> Doc]
    /\ e \in [Requests -> FetchState]
    /\ alive \in BOOLEAN
    /\ mdoc \in [Identifiers -> [meta : {NoMeta} \cup PhoneMeta \cup EmailMeta, ttl : Nat]]
    /\ ml \in [Lanes -> [phase : {"start", "fetch", "fetched", "done"},
                         meta : {NoMeta} \cup PhoneMeta \cup EmailMeta,
                         put : {"none", "pending", "done"}]]
    /\ \A r \in Requests : e[r].put # "none" => e[r].phase = "done"

\* A request exposes the process to the race if its loop may have something to
\* write after it has started a goroutine.
exposed(r) ==
    \E c, d \in enabled(rq[r]) :
        /\ place[c] < place[d] /\ c \in rq[r].enrich.serviceIDs
        /\ cacheOn(rq[r]) \/ d \notin rq[r].enrich.serviceIDs

\* Every common_data lane and every phone lane is answered for good, whether or
\* not any background write ever lands, unless a request that exposes it to the
\* race has ended the process; an email lane may wait for its DNS lookups for
\* ever, but for nothing else.
LookupsEnd ==
    LET raced == ~alive /\ \E r \in Requests : exposed(r) IN
    /\ \A r \in Requests : <>[](e[r].phase = "done" \/ raced)
    /\ \A l \in Lanes :
          <>[](ml[l].phase = "done" \/ raced \/ (l[2] = "email" /\ ml[l].phase = "fetch"))
=============================================================================
