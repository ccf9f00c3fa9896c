---------------------------- MODULE PersonaProofs ----------------------------
(***************************************************************************)
(* Proofs about the persona pipeline, for any number of requests, tenants  *)
(* and identifiers, any lifetime of a cached section and any number of     *)
(* deaths of the process.                                                  *)
(***************************************************************************)
EXTENDS PersonaPipeline, TLAPS

-----------------------------------------------------------------------------
(* The inductive invariant                                                 *)

\* A section as the crawl leaves it and merges keep it: a success, in which the
\* fields static_data provided, and no others, still are static.
Sound(sec) ==
    /\ sec \in Section
    /\ sec.code = 2000
    /\ sec.static \subseteq {"age", "linked"}
    /\ \A f \in Fields : f \in sec.static <=> sec.intel[f] = "static"

\* It was crawled for what lane k of request r asks for.
Own(r, k, sec) ==
    /\ sec.kind = k
    /\ sec.id = loginID(k, req[r])
    /\ sec.tenant = req[r].tenant

\* Where a lane of a request stands, and what it may have: a key and a clock
\* from its gate, a section from its run or its hit.
LaneInv(r, k) ==
    /\ lane[r][k] = "waiting" => dec[r][k] = NewDecorator /\ putter[r][k] = "none"
    /\ lane[r][k] = "skipped" => ~innerGate(k, req[r])
    /\ lane[r][k] \in {"reading", "running", "hit", "done"} => innerGate(k, req[r])
    /\ lane[r][k] = "reading" => dec[r][k].key # NoKey
    /\ dec[r][k].hit => lane[r][k] = "hit"
    /\ dec[r][k].key # NoKey => dec[r][k].key = Key(k, loginID(k, req[r]), req[r].tenant)
    /\ dec[r][k].now <= now
    /\ lane[r][k] = "running" => dec[r][k].now <= start[r][k]
    /\ lane[r][k] \in {"hit", "done"} => Sound(resp[r][k]) /\ Own(r, k, resp[r][k])
    /\ lane[r][k] \notin {"hit", "done"} => resp[r][k] = NoSection
    /\ lane[r][k] = "hit" => dec[r][k].now < resp[r][k].asof + TTLSeconds
    /\ lane[r][k] = "done" => dec[r][k].now <= resp[r][k].asof

\* A write-back belongs to a lane that ran after a miss, and what it has
\* marshalled is a section of that lane no older than the gate's clock.
PutInv(r, k) ==
    /\ putter[r][k] = "spawned" => lane[r][k] = "done"
    /\ putter[r][k] \in {"spawned", "encoded"} => dec[r][k].key # NoKey
    /\ putter[r][k] = "encoded" => /\ Sound(doc[r][k]) /\ Own(r, k, doc[r][k])
                                   /\ dec[r][k].now <= doc[r][k].asof

\* A request goes on only when its lanes have ended; common_data has no gate
\* that reads the persona cache.
RequestInv(r) ==
    /\ pc[r] = "idle" => \A k \in Kinds : lane[r][k] = "waiting"
    /\ pc[r] \in {"calling", "merging", "done"} => joined(r)
    /\ pc[r] = "done" => status[r] = 2000
    /\ lane[r]["common"] # "reading"

\* An item is filed under what its section was crawled for, and expires a
\* lifetime after that crawl began at the latest.
ItemInv(key) ==
    cache[key] # NoItem =>
        /\ Sound(cache[key].sec)
        /\ key = Key(cache[key].sec.kind, cache[key].sec.id, cache[key].sec.tenant)
        /\ cache[key].ttl <= cache[key].sec.asof + TTLSeconds

PersonaInv ==
    /\ TypeOK
    /\ \A r \in Requests : RequestInv(r)
    /\ \A r \in Requests, k \in Kinds : LaneInv(r, k) /\ PutInv(r, k)
    /\ \A key \in Keys : ItemInv(key)

-----------------------------------------------------------------------------
(* Facts about the operators                                               *)

LEMMA SectionIsSome == \A sec \in Section : sec # NoSection /\ sec.asof \in 0..MaxTime
<1>1. \A sec \in Section : sec.kind \in Kinds /\ sec.asof \in 0..MaxTime
  BY DEF Section
<1>2. NoSection.kind = "none" /\ "none" \notin Kinds
  BY DEF NoSection, Kinds
<1> QED
  BY <1>1, <1>2

LEMMA ItemIsSome == \A item \in Item : item # NoItem /\ item.sec \in Section /\ item.ttl \in Nat
<1>1. \A item \in Item : DOMAIN item = {"sec", "ttl"} /\ item.sec \in Section /\ item.ttl \in Nat
  BY DEF Item
<1>2. DOMAIN NoItem = {"ttl"}
  BY DEF NoItem
<1> QED
  BY <1>1, <1>2

\* A lane whose gate is open has a key of the table.
LEMMA KeyOfLane ==
    ASSUME NEW k \in Kinds, NEW rq \in Inputs, innerGate(k, rq)
    PROVE  /\ Key(k, loginID(k, rq), rq.tenant) \in Keys
           /\ Key(k, loginID(k, rq), rq.tenant) # NoKey
           /\ loginID(k, rq) \in STRING
           /\ rq.tenant \in Tenants
<1>1. loginID(k, rq) # Blank
  BY DEF innerGate, Kinds
<1>2. /\ rq.tenant \in Tenants /\ rq.phone \in RawPhones /\ rq.email \in Emails
      /\ ParsePhone \in [RawPhones -> STRING] /\ Emails \subseteq STRING
  BY PipelineAssumption DEF PersonaRequest
<1>3. /\ loginID(k, rq) \in Emails \cup {ParsePhone[p] : p \in RawPhones}
      /\ loginID(k, rq) \in STRING
  BY <1>2 DEF loginID
<1>4. Key(k, loginID(k, rq), rq.tenant) # NoKey
  BY DEF Key, NoKey
<1> QED
  BY <1>1, <1>2, <1>3, <1>4 DEF Keys

\* Sections of one key were crawled for the same lane.
LEMMA KeysTellApart ==
    \A k, id, t, j, jd, u : Key(k, id, t) = Key(j, jd, u) => k = j /\ id = jd /\ t = u
  BY DEF Key

\* Nothing but a step of its own disturbs a lane; time passes.
LEMMA LaneFrame ==
    ASSUME NEW r, NEW k, LaneInv(r, k), now \in Int, now' \in Int, now <= now',
           dec[r][k] \in Decorator, req'[r] = req[r], lane'[r][k] = lane[r][k],
           dec'[r][k] = dec[r][k], start'[r][k] = start[r][k], resp'[r][k] = resp[r][k],
           putter'[r][k] = putter[r][k]
    PROVE  LaneInv(r, k)'
<1>1. dec[r][k].now <= now' /\ (dec[r][k].now \in Int)
  BY DEF LaneInv, Decorator
<1> QED
  BY <1>1 DEF LaneInv, Own

LEMMA PutFrame ==
    ASSUME NEW r, NEW k, PutInv(r, k), req'[r] = req[r],
           putter[r][k] = "spawned" => lane'[r][k] = "done",
           dec'[r][k] = dec[r][k], putter'[r][k] = putter[r][k], doc'[r][k] = doc[r][k]
    PROVE  PutInv(r, k)'
  BY DEF PutInv, Own

LEMMA RequestFrame ==
    ASSUME NEW r, RequestInv(r), pc'[r] = pc[r], status'[r] = status[r],
           \A k \in LaneNames : lane'[r][k] = lane[r][k]
    PROVE  RequestInv(r)'
  BY DEF RequestInv, joined, LaneNames

\* The section of a run: the caller's, as old as the run.
LEMMA BuiltSection ==
    ASSUME TypeOK, NEW r \in Requests, NEW k \in Kinds, NEW in \in StaticIntel,
           innerGate(k, req[r]),
           NEW sec, sec = IF k = "phone" THEN buildPhoneSection(r, in)
                          ELSE buildEmailSection(r, in)
    PROVE  Sound(sec) /\ Own(r, k, sec) /\ sec.asof = start[r][k]
<1>1. req[r] \in Inputs /\ start[r][k] \in 0..MaxTime
  BY DEF TypeOK
<1>2. loginID(k, req[r]) \in STRING /\ req[r].tenant \in Tenants
  BY <1>1, KeyOfLane
<1> DEFINE static == {f \in Fields : in[f] = "static"}
           bare == buildSection(r, k)
<1>3. in \in Intel
  BY DEF StaticIntel, Intel, Values
<1>4. static \subseteq {"age", "linked"} /\ static \in SUBSET Fields
  BY PipelineAssumption DEF StaticIntel
<1>5. [f \in Fields |-> "none"] \in Intel
  BY DEF Intel, Values
<1>6. bare \in Section
  BY <1>1, <1>2, <1>5 DEF buildSection, Section
<1>7. /\ bare.kind = k /\ bare.id = loginID(k, req[r]) /\ bare.tenant = req[r].tenant
      /\ bare.asof = start[r][k] /\ bare.code = 2000
  BY DEF buildSection
<1>8. sec = [bare EXCEPT !.intel = in, !.static = static]
  BY DEF buildPhoneSection, buildEmailSection, Kinds
<1> HIDE DEF bare, static
<1>9. /\ sec.kind = bare.kind /\ sec.id = bare.id /\ sec.tenant = bare.tenant
      /\ sec.asof = bare.asof /\ sec.code = bare.code
      /\ sec.intel = in /\ sec.static = static /\ sec \in Section
  <2>1. PICK mid : mid = [bare EXCEPT !.intel = in]
    OBVIOUS
  <2>2. /\ mid.kind = bare.kind /\ mid.id = bare.id /\ mid.tenant = bare.tenant
        /\ mid.asof = bare.asof /\ mid.code = bare.code /\ mid.intel = in /\ mid \in Section
    BY <1>3, <1>6, <2>1 DEF Section
  <2>3. sec = [mid EXCEPT !.static = static]
    BY <1>8, <2>1
  <2> QED
    BY <1>4, <2>2, <2>3 DEF Section
<1> QED
  BY <1>4, <1>7, <1>9 DEF Sound, Own, static

\* Merging ml_service's answer into a sound section leaves the static fields.
LEMMA MergeKeepsStatic ==
    ASSUME NEW r \in Requests, NEW sec, Sound(sec), NEW out \in MLOutput(r) \ {NoOutput}
    PROVE  /\ mergeIntelligenceData(sec.intel, out) \in Intel
           /\ \A f \in Fields :
                 mergeIntelligenceData(sec.intel, out)[f] = "static" <=> sec.intel[f] = "static"
<1> DEFINE m == mergeIntelligenceData(sec.intel, out)
<1>1. /\ sec.intel \in [Fields -> Values] /\ Fields \subseteq {"score", "name", "age", "linked"}
      /\ out \in [Fields -> {"none", "error", r}] /\ r \in Values /\ r # "static"
      /\ "none" \in Values /\ "error" \in Values
  BY PipelineAssumption DEF Sound, Section, Intel, MLOutput, Values
<1>2. \A f \in Fields : f \in {"score", "name"} => sec.intel[f] # "static"
  BY DEF Sound
<1>3. ASSUME NEW f \in Fields
      PROVE  m[f] \in Values /\ (m[f] = "static" <=> sec.intel[f] = "static")
  <2>1. sec.intel[f] \in Values /\ out[f] \in {"none", "error", r}
    BY <1>1
  <2>2. CASE f \in {"score", "name"}
    BY <1>1, <1>2, <2>1, <2>2 DEF mergeIntelligenceData, mergedField
  <2>3. CASE f \in {"age", "linked"}
    BY <1>1, <2>1, <2>3 DEF mergeIntelligenceData, mergedField, usable
  <2> QED
    BY <1>1, <2>2, <2>3
<1> QED
  BY <1>3 DEF Intel, mergeIntelligenceData

LEMMA MergedIntelKeepsStatic ==
    ASSUME NEW r \in Requests, NEW k, Sound(resp[r][k]), ml[r][k] \in MLOutput(r)
    PROVE  /\ mergedIntel(r, k) \in Intel
           /\ \A f \in Fields :
                 mergedIntel(r, k)[f] = "static" <=> resp[r][k].intel[f] = "static"
<1>1. CASE ml[r][k] = NoOutput
  BY <1>1 DEF mergedIntel, Sound, Section
<1>2. CASE ml[r][k] # NoOutput
  BY <1>2, MergeKeepsStatic DEF mergedIntel
<1> QED
  BY <1>1, <1>2

\* A sound section is sound with any intelligence_data that is as static.
LEMMA SoundUpdate ==
    ASSUME NEW sec, Sound(sec), NEW in \in Intel,
           \A f \in Fields : in[f] = "static" <=> sec.intel[f] = "static",
           NEW new, new = [sec EXCEPT !.intel = in]
    PROVE  /\ Sound(new)
           /\ new.kind = sec.kind /\ new.id = sec.id /\ new.tenant = sec.tenant
           /\ new.asof = sec.asof
<1>1. sec \in Section
  BY DEF Sound
<1>2. /\ new.kind = sec.kind /\ new.id = sec.id /\ new.tenant = sec.tenant
      /\ new.asof = sec.asof /\ new.code = sec.code /\ new.static = sec.static
      /\ new.intel = in /\ new \in Section
  BY <1>1 DEF Section
<1> QED
  BY <1>2 DEF Sound

-----------------------------------------------------------------------------
(* PersonaInv holds initially                                              *)

LEMMA PersonaInitially == Init => PersonaInv
<1> SUFFICES ASSUME Init PROVE PersonaInv
  OBVIOUS
<1>1. TypeOK
  <2>1. now \in 0..MaxTime /\ crashes \in 0..MaxCrashes
    BY PipelineAssumption DEF Init
  <2>2. (CHOOSE q \in Inputs : TRUE) \in Inputs
    BY PipelineAssumption
  <2>3. req \in [Requests -> Inputs]
    BY <2>2 DEF Init
  <2>4. NewDecorator \in Decorator
    BY PipelineAssumption DEF NewDecorator, Decorator
  <2>5. dec \in [Requests -> [Kinds -> Decorator]] /\ start \in [Requests -> [Kinds -> 0..MaxTime]]
    BY <2>4, PipelineAssumption DEF Init
  <2>6. \A r \in Requests : ml[r] \in [Kinds -> MLOutput(r)]
    BY DEF Init, MLOutput
  <2> QED
    BY <2>1, <2>3, <2>5, <2>6 DEF Init, TypeOK
<1>2. ASSUME NEW r \in Requests PROVE RequestInv(r)
  BY DEF Init, RequestInv, LaneNames
<1>3. ASSUME NEW r \in Requests, NEW k \in Kinds PROVE LaneInv(r, k) /\ PutInv(r, k)
  <2>1. /\ lane[r][k] = "waiting" /\ dec[r][k] = NewDecorator /\ putter[r][k] = "none"
        /\ resp[r][k] = NoSection /\ now = 0
    BY DEF Init, LaneNames
  <2>2. NewDecorator.key = NoKey /\ NewDecorator.hit = FALSE /\ NewDecorator.now = 0
    BY DEF NewDecorator
  <2> QED
    BY <2>1, <2>2 DEF LaneInv, PutInv
<1>4. ASSUME NEW key \in Keys PROVE ItemInv(key)
  BY DEF Init, ItemInv
<1> QED
  BY <1>1, <1>2, <1>3, <1>4 DEF PersonaInv

-----------------------------------------------------------------------------
(* Steps of one lane                                                       *)

\* A step in which only lane k of request r moves keeps the invariant if it
\* keeps what concerns that lane.
LEMMA LaneStep ==
    ASSUME PersonaInv, TypeOK', NEW r \in Requests, NEW k \in LaneNames,
           UNCHANGED <<now, pc, req, cache, status>>,
           pc[r] = "lanes" \/ lane' = lane, lane'[r]["common"] # "reading",
           \A q \in Requests, j \in LaneNames : q # r \/ j # k => lane'[q][j] = lane[q][j],
           \A q \in Requests, j \in Kinds : q # r \/ j # k =>
               /\ dec'[q][j] = dec[q][j] /\ start'[q][j] = start[q][j]
               /\ resp'[q][j] = resp[q][j] /\ putter'[q][j] = putter[q][j]
               /\ doc'[q][j] = doc[q][j],
           k \in Kinds => LaneInv(r, k)' /\ PutInv(r, k)'
    PROVE  PersonaInv'
<1>1. ASSUME NEW q \in Requests PROVE RequestInv(q)'
  <2>1. RequestInv(q)
    BY DEF PersonaInv
  <2>2. CASE q # r \/ lane' = lane
    <3>1. \A j \in LaneNames : lane'[q][j] = lane[q][j]
      BY <2>2
    <3> QED
      BY <2>1, <3>1, RequestFrame
  <2>3. CASE q = r /\ pc[r] = "lanes"
    BY <2>3 DEF RequestInv
  <2> QED
    BY <2>2, <2>3
<1>2. ASSUME NEW q \in Requests, NEW j \in Kinds PROVE LaneInv(q, j)' /\ PutInv(q, j)'
  <2>1. CASE q = r /\ j = k
    BY <2>1
  <2>2. CASE q # r \/ j # k
    <3>1. LaneInv(q, j) /\ PutInv(q, j)
      BY DEF PersonaInv
    <3>2. lane'[q][j] = lane[q][j] /\ now \in Int /\ dec[q][j] \in Decorator
      BY <2>2 DEF LaneNames, PersonaInv, TypeOK
    <3>3. LaneInv(q, j)'
      BY <2>2, <3>1, <3>2, LaneFrame
    <3>4. PutInv(q, j)'
      BY <2>2, <3>1, <3>2, PutFrame DEF PutInv
    <3> QED
      BY <3>3, <3>4
  <2> QED
    BY <2>1, <2>2
<1>3. ASSUME NEW key \in Keys PROVE ItemInv(key)'
  BY DEF PersonaInv, ItemInv
<1> QED
  BY <1>1, <1>2, <1>3 DEF PersonaInv

\* SetLane changes one lane.
LEMMA SetLaneFacts ==
    ASSUME PersonaInv, NEW r \in Requests, NEW k \in LaneNames,
           NEW st \in {"waiting", "reading", "running", "skipped", "hit", "done"},
           SetLane(r, k, st), st # "reading" \/ k # "common"
    PROVE  /\ lane' \in [Requests -> [LaneNames -> {"waiting", "reading", "running",
                                                   "skipped", "hit", "done"}]]
           /\ lane'[r][k] = st
           /\ \A q \in Requests, j \in LaneNames : q # r \/ j # k => lane'[q][j] = lane[q][j]
           /\ lane'[r]["common"] # "reading"
<1>1. lane \in [Requests -> [LaneNames -> {"waiting", "reading", "running",
                                          "skipped", "hit", "done"}]]
  BY DEF PersonaInv, TypeOK
<1>2. lane[r]["common"] # "reading" /\ "common" \in LaneNames
  BY DEF PersonaInv, RequestInv, LaneNames
<1> QED
  BY <1>1, <1>2 DEF SetLane

LEMMA GateClosedKeeps ==
    ASSUME PersonaInv, NEW r \in Requests, NEW k \in LaneNames, GateClosed(r, k)
    PROVE  PersonaInv'
<1>1. TypeOK
  BY DEF PersonaInv
<1>2. /\ SetLane(r, k, "skipped") /\ ~innerGate(k, req[r]) /\ pc[r] = "lanes"
      /\ UNCHANGED <<now, pc, req, dec, start, resp, common, ml, putter, doc,
                     cache, status, crashes>>
      /\ lane[r][k] \in {"waiting", "reading"}
  BY DEF GateClosed, GateTurn
<1>3. TypeOK'
  BY <1>1, <1>2, SetLaneFacts DEF TypeOK
<1>4. ASSUME k \in Kinds PROVE LaneInv(r, k)' /\ PutInv(r, k)'
  <2>1. LaneInv(r, k) /\ PutInv(r, k) /\ lane'[r][k] = "skipped"
    BY <1>1, <1>2, <1>4, SetLaneFacts DEF PersonaInv
  <2> QED
    BY <1>2, <2>1 DEF LaneInv, PutInv, Own
<1> QED
  BY <1>1, <1>2, <1>3, <1>4, SetLaneFacts, LaneStep

LEMMA GateUncachedKeeps ==
    ASSUME PersonaInv, NEW r \in Requests, NEW k \in LaneNames, GateUncached(r, k)
    PROVE  PersonaInv'
<1>1. TypeOK
  BY DEF PersonaInv
<1>2. /\ SetLane(r, k, "running") /\ innerGate(k, req[r]) /\ pc[r] = "lanes"
      /\ UNCHANGED <<now, pc, req, dec, resp, common, ml, putter, doc,
                     cache, status, crashes>>
      /\ lane[r][k] \in {"waiting", "reading"}
      /\ start' = IF k \in Kinds THEN [start EXCEPT ![r][k] = now] ELSE start
  BY DEF GateUncached, GateTurn
<1>3. /\ start' \in [Requests -> [Kinds -> 0..MaxTime]]
      /\ k \in Kinds => start'[r][k] = now
      /\ \A q \in Requests, j \in Kinds : q # r \/ j # k => start'[q][j] = start[q][j]
  BY <1>1, <1>2 DEF TypeOK
<1>4. TypeOK'
  BY <1>1, <1>2, <1>3, SetLaneFacts DEF TypeOK
<1>5. ASSUME k \in Kinds PROVE LaneInv(r, k)' /\ PutInv(r, k)'
  <2>1. LaneInv(r, k) /\ PutInv(r, k) /\ lane'[r][k] = "running"
    BY <1>1, <1>2, <1>5, SetLaneFacts DEF PersonaInv
  <2> QED
    BY <1>2, <1>3, <1>5, <2>1 DEF LaneInv, PutInv, Own
<1> QED
  BY <1>1, <1>2, <1>3, <1>4, <1>5, SetLaneFacts, LaneStep

LEMMA GateMissKeeps ==
    ASSUME PersonaInv, NEW r \in Requests, NEW k \in Kinds, GateMiss(r, k)
    PROVE  PersonaInv'
<1>1. TypeOK /\ k \in LaneNames
  BY DEF PersonaInv, LaneNames
<1>2. /\ SetLane(r, k, "running") /\ pc[r] = "lanes" /\ lane[r][k] = "reading"
      /\ UNCHANGED <<now, pc, req, dec, resp, common, ml, putter, doc,
                     cache, status, crashes>>
      /\ start' = [start EXCEPT ![r][k] = now]
  BY DEF GateMiss, GateTurn
<1>3. /\ start' \in [Requests -> [Kinds -> 0..MaxTime]]
      /\ start'[r][k] = now
      /\ \A q \in Requests, j \in Kinds : q # r \/ j # k => start'[q][j] = start[q][j]
  BY <1>1, <1>2 DEF TypeOK
<1>4. TypeOK'
  BY <1>1, <1>2, <1>3, SetLaneFacts DEF TypeOK
<1>5. LaneInv(r, k)' /\ PutInv(r, k)'
  <2>1. LaneInv(r, k) /\ PutInv(r, k) /\ lane'[r][k] = "running"
    BY <1>1, <1>2, SetLaneFacts DEF PersonaInv
  <2> QED
    BY <1>2, <1>3, <2>1 DEF LaneInv, PutInv, Own
<1> QED
  BY <1>1, <1>2, <1>3, <1>4, <1>5, SetLaneFacts, LaneStep

LEMMA GateReadKeeps ==
    ASSUME PersonaInv, NEW r \in Requests, NEW k \in Kinds, GateRead(r, k)
    PROVE  PersonaInv'
<1> DEFINE d == Key(k, loginID(k, req[r]), req[r].tenant)
<1>1. TypeOK /\ k \in LaneNames /\ k # "common"
  BY DEF PersonaInv, LaneNames, Kinds
<1>2. /\ SetLane(r, k, "reading") /\ pc[r] = "lanes" /\ lane[r][k] = "waiting"
      /\ innerGate(k, req[r])
      /\ UNCHANGED <<now, pc, req, start, resp, common, ml, putter, doc,
                     cache, status, crashes>>
      /\ dec' = [dec EXCEPT ![r][k].now = now, ![r][k].key = d]
  BY DEF GateRead, GateTurn
<1>3. d \in Keys /\ d # NoKey /\ now \in 0..MaxTime
  BY <1>1, <1>2, KeyOfLane DEF TypeOK
<1> HIDE DEF d
<1>4. dec[r][k] = NewDecorator /\ LaneInv(r, k) /\ PutInv(r, k)
  BY <1>2 DEF PersonaInv, LaneInv
<1>5. dec \in [Requests -> [Kinds -> Decorator]]
  BY <1>1 DEF TypeOK
<1>6. dec'[r][k] \in Decorator /\ dec'[r][k].now = now /\ dec'[r][k].key = d /\ ~dec'[r][k].hit
  BY <1>2, <1>3, <1>4, <1>5 DEF Decorator, NewDecorator
<1>7. \A q \in Requests, j \in Kinds : q # r \/ j # k => dec'[q][j] = dec[q][j]
  BY <1>2, <1>5
<1>8. dec' \in [Requests -> [Kinds -> Decorator]]
  BY <1>2, <1>5, <1>6
<1>9. TypeOK'
  BY <1>1, <1>2, <1>8, SetLaneFacts DEF TypeOK
<1>10. LaneInv(r, k)' /\ PutInv(r, k)'
  <2>1. lane'[r][k] = "reading"
    BY <1>1, <1>2, SetLaneFacts
  <2>2. resp'[r][k] = NoSection /\ putter'[r][k] = "none" /\ innerGate(k, req'[r])
    BY <1>2, <1>4 DEF LaneInv
  <2>3. d = Key(k, loginID(k, req'[r]), req'[r].tenant) /\ now <= now'
    BY <1>2, <1>3 DEF d
  <2> QED
    BY <1>3, <1>6, <2>1, <2>2, <2>3 DEF LaneInv, PutInv
<1>11. \A q \in Requests, j \in Kinds : q # r \/ j # k =>
          /\ dec'[q][j] = dec[q][j] /\ start'[q][j] = start[q][j]
          /\ resp'[q][j] = resp[q][j] /\ putter'[q][j] = putter[q][j]
          /\ doc'[q][j] = doc[q][j]
  BY <1>2, <1>7
<1>12. lane'[r]["common"] # "reading" /\ \A q \in Requests, j \in LaneNames :
          q # r \/ j # k => lane'[q][j] = lane[q][j]
  BY <1>1, <1>2, SetLaneFacts
<1> QED
  BY <1>1, <1>2, <1>9, <1>10, <1>11, <1>12, LaneStep

\* A hit replays a section of the caller's own, not a lifetime old.
LEMMA GateHitKeeps ==
    ASSUME PersonaInv, NEW r \in Requests, NEW k \in Kinds, GateHit(r, k)
    PROVE  PersonaInv'
<1>0. PICK key, sec : key = dec[r][k].key /\ sec = sectionFromCache(cache[key], k)
  OBVIOUS
<1>1. TypeOK /\ k \in LaneNames
  BY DEF PersonaInv, LaneNames
<1>2. /\ SetLane(r, k, "hit") /\ pc[r] = "lanes" /\ lane[r][k] = "reading"
      /\ live(cache[key], dec[r][k].now)
      /\ UNCHANGED <<now, pc, req, start, common, ml, putter, doc,
                     cache, status, crashes>>
      /\ resp' = [resp EXCEPT ![r][k] = sec]
      /\ dec' = [dec EXCEPT ![r][k].hit = TRUE]
  BY <1>0 DEF GateHit, GateTurn
<1>3. LaneInv(r, k) /\ PutInv(r, k)
  BY DEF PersonaInv
<1>4. dec \in [Requests -> [Kinds -> Decorator]] /\ dec[r][k] \in Decorator
  BY <1>1 DEF TypeOK
<1>5. key = Key(k, loginID(k, req[r]), req[r].tenant) /\ key \in Keys /\ innerGate(k, req[r])
  BY <1>0, <1>2, <1>3, <1>4 DEF LaneInv, Decorator
<1>6. cache[key] # NoItem /\ cache[key] \in Item /\ ItemInv(key) /\ dec[r][k].now < cache[key].ttl
  BY <1>1, <1>2, <1>5 DEF live, TypeOK, PersonaInv
<1>7. /\ Sound(cache[key].sec) /\ cache[key].ttl <= cache[key].sec.asof + TTLSeconds
      /\ cache[key].sec.kind = k /\ cache[key].sec.id = loginID(k, req[r])
      /\ cache[key].sec.tenant = req[r].tenant
  BY <1>5, <1>6, KeysTellApart DEF ItemInv
<1>8. Sound(sec) /\ Own(r, k, sec) /\ sec \in Section /\ dec[r][k].now < sec.asof + TTLSeconds
  <2>1. sec = cache[key].sec
    BY <1>0, <1>7 DEF sectionFromCache
  <2>2. sec \in Section /\ sec.asof \in Nat /\ TTLSeconds \in Nat /\ cache[key].ttl \in Nat
    BY <1>6, <1>7, <2>1, SectionIsSome, ItemIsSome, PipelineAssumption DEF Sound
  <2>3. dec[r][k].now \in Nat
    BY <1>4 DEF Decorator
  <2> QED
    BY <1>6, <1>7, <2>1, <2>2, <2>3 DEF Own
<1>9. /\ dec'[r][k] \in Decorator /\ dec'[r][k].now = dec[r][k].now
      /\ dec'[r][k].key = dec[r][k].key
  BY <1>2, <1>4 DEF Decorator
<1>10. /\ resp' \in [Requests -> [Kinds -> Section \cup {NoSection}]] /\ resp'[r][k] = sec
       /\ dec' \in [Requests -> [Kinds -> Decorator]]
       /\ \A q \in Requests, j \in Kinds : q # r \/ j # k =>
             resp'[q][j] = resp[q][j] /\ dec'[q][j] = dec[q][j]
  <2>1. /\ resp' \in [Requests -> [Kinds -> Section \cup {NoSection}]] /\ resp'[r][k] = sec
        /\ \A q \in Requests, j \in Kinds : q # r \/ j # k => resp'[q][j] = resp[q][j]
    BY <1>1, <1>2, <1>8 DEF TypeOK
  <2>2. \A q \in Requests, j \in Kinds : q # r \/ j # k => dec'[q][j] = dec[q][j]
    BY <1>2, <1>4
  <2>3. dec' \in [Requests -> [Kinds -> Decorator]]
    BY <1>2, <1>4, <1>9
  <2> QED
    BY <2>1, <2>2, <2>3
<1>11. TypeOK'
  BY <1>1, <1>2, <1>10, SetLaneFacts DEF TypeOK
<1>12. LaneInv(r, k)' /\ PutInv(r, k)'
  <2>1. lane'[r][k] = "hit" /\ now' = now /\ req' = req
    BY <1>1, <1>2, SetLaneFacts
  <2>2. putter'[r][k] # "spawned" /\ doc'[r][k] = doc[r][k] /\ putter'[r][k] = putter[r][k]
    BY <1>2, <1>3 DEF PutInv
  <2>3. Own(r, k, sec)'
    BY <1>8, <2>1 DEF Own
  <2> QED
    BY <1>0, <1>3, <1>5, <1>8, <1>9, <1>10, <2>1, <2>2, <2>3 DEF LaneInv, PutInv, Own
<1> QED
  BY <1>1, <1>2, <1>10, <1>11, <1>12, SetLaneFacts, LaneStep

\* The section of a run is new; a lane that missed starts its write-back.
LEMMA RunSectionKeeps ==
    ASSUME PersonaInv, NEW r \in Requests, NEW k \in Kinds, RunSection(r, k)
    PROVE  PersonaInv'
<1>1. TypeOK /\ k \in LaneNames
  BY DEF PersonaInv, LaneNames
<1>2. /\ SetLane(r, k, "done") /\ pc[r] = "lanes" /\ lane[r][k] = "running"
      /\ UNCHANGED <<now, pc, req, dec, start, common, ml, doc,
                     cache, status, crashes>>
      /\ putter' = IF dec[r][k].hit \/ dec[r][k].key = NoKey THEN putter
                   ELSE [putter EXCEPT ![r][k] = "spawned"]
  BY DEF RunSection
<1>3. PICK in \in StaticIntel :
         resp' = [resp EXCEPT ![r][k] = IF k = "phone" THEN buildPhoneSection(r, in)
                                        ELSE buildEmailSection(r, in)]
  BY DEF RunSection
<1>4. LaneInv(r, k) /\ PutInv(r, k) /\ innerGate(k, req[r])
  BY <1>2 DEF PersonaInv, LaneInv
<1>5. PICK sec : sec = IF k = "phone" THEN buildPhoneSection(r, in) ELSE buildEmailSection(r, in)
  OBVIOUS
<1>6. Sound(sec) /\ Own(r, k, sec) /\ sec.asof = start[r][k] /\ sec \in Section
  BY <1>1, <1>4, <1>5, BuiltSection DEF Sound
<1>7. /\ resp' \in [Requests -> [Kinds -> Section \cup {NoSection}]] /\ resp'[r][k] = sec
      /\ \A q \in Requests, j \in Kinds : q # r \/ j # k => resp'[q][j] = resp[q][j]
  BY <1>1, <1>3, <1>5, <1>6 DEF TypeOK
<1>8. /\ putter' \in [Requests -> [Kinds -> {"none", "spawned", "encoded", "done"}]]
      /\ putter'[r][k] = putter[r][k] \/ (putter'[r][k] = "spawned" /\ dec[r][k].key # NoKey)
      /\ \A q \in Requests, j \in Kinds : q # r \/ j # k => putter'[q][j] = putter[q][j]
  BY <1>1, <1>2 DEF TypeOK
<1>9. TypeOK'
  BY <1>1, <1>2, <1>7, <1>8, SetLaneFacts DEF TypeOK
<1>10. LaneInv(r, k)' /\ PutInv(r, k)'
  <2>1. lane'[r][k] = "done" /\ now' = now /\ req' = req /\ dec' = dec /\ doc' = doc
    BY <1>1, <1>2, SetLaneFacts
  <2>2. Own(r, k, sec)'
    BY <1>6, <2>1 DEF Own
  <2>3. dec[r][k].now <= sec.asof
    BY <1>2, <1>4, <1>6 DEF LaneInv
  <2> QED
    BY <1>2, <1>4, <1>6, <1>7, <1>8, <2>1, <2>2, <2>3 DEF LaneInv, PutInv, Own
<1> QED
  BY <1>1, <1>2, <1>7, <1>8, <1>9, <1>10, SetLaneFacts, LaneStep

LEMMA RunCommonKeeps ==
    ASSUME PersonaInv, NEW r \in Requests, RunCommon(r)
    PROVE  PersonaInv'
<1>1. TypeOK /\ "common" \in LaneNames /\ "common" \notin Kinds
  BY DEF PersonaInv, LaneNames, Kinds
<1>2. /\ SetLane(r, "common", "done") /\ pc[r] = "lanes"
      /\ UNCHANGED <<now, pc, req, dec, start, resp, ml, putter, doc,
                     cache, status, crashes>>
      /\ \E found \in BOOLEAN : common' = [common EXCEPT ![r] = found]
  BY DEF RunCommon
<1>3. common' \in [Requests -> BOOLEAN]
  BY <1>1, <1>2 DEF TypeOK
<1>4. TypeOK'
  BY <1>1, <1>2, <1>3, SetLaneFacts DEF TypeOK
<1> QED
  BY <1>1, <1>2, <1>4, SetLaneFacts, LaneStep

-----------------------------------------------------------------------------
(* Steps of a request                                                      *)

\* A step of request r that leaves its lanes alone, but for what it makes of
\* their sections.
LEMMA RequestStep ==
    ASSUME PersonaInv, TypeOK', NEW r \in Requests,
           UNCHANGED <<now, lane, dec, start, putter, doc, cache>>,
           \A q \in Requests \ {r} : /\ pc'[q] = pc[q] /\ req'[q] = req[q]
                                     /\ resp'[q] = resp[q] /\ status'[q] = status[q],
           RequestInv(r)', \A k \in Kinds : LaneInv(r, k)' /\ PutInv(r, k)'
    PROVE  PersonaInv'
<1>1. ASSUME NEW q \in Requests PROVE RequestInv(q)'
  BY RequestFrame DEF PersonaInv
<1>2. ASSUME NEW q \in Requests, NEW k \in Kinds PROVE LaneInv(q, k)' /\ PutInv(q, k)'
  <2>1. CASE q = r
    BY <2>1
  <2>2. CASE q # r
    <3>1. LaneInv(q, k) /\ PutInv(q, k) /\ now \in Int /\ dec[q][k] \in Decorator
      BY DEF PersonaInv, TypeOK
    <3>2. LaneInv(q, k)'
      BY <2>2, <3>1, LaneFrame
    <3>3. PutInv(q, k)'
      BY <2>2, <3>1, PutFrame DEF PutInv
    <3> QED
      BY <3>2, <3>3
  <2> QED
    BY <2>1, <2>2
<1>3. ASSUME NEW key \in Keys PROVE ItemInv(key)'
  BY DEF PersonaInv, ItemInv
<1> QED
  BY <1>1, <1>2, <1>3 DEF PersonaInv

\* The lanes of a request that keeps its decoded request and its sections.
LEMMA SameLanes ==
    ASSUME PersonaInv, NEW r \in Requests, NEW k \in Kinds,
           UNCHANGED <<now, lane, dec, start, resp, putter, doc>>, req'[r] = req[r]
    PROVE  LaneInv(r, k)' /\ PutInv(r, k)'
<1>1. LaneInv(r, k) /\ PutInv(r, k) /\ now \in Int /\ dec[r][k] \in Decorator
  BY DEF PersonaInv, TypeOK
<1> QED
  BY <1>1, LaneFrame, PutFrame DEF PutInv

\* The decoded request of an idle one is not used yet.
LEMMA ArriveKeeps ==
    ASSUME PersonaInv, NEW r \in Requests, Arrive(r)
    PROVE  PersonaInv'
<1>1. TypeOK
  BY DEF PersonaInv
<1>2. PICK rq \in Inputs :
         /\ req' = [req EXCEPT ![r] = rq]
         /\ pc' = [pc EXCEPT ![r] = IF rq.phone = Blank /\ rq.email = Blank
                                    THEN "rejected" ELSE "lanes"]
  BY DEF Arrive
<1>3. pc[r] = "idle" /\ UNCHANGED <<now, lane, dec, start, resp, common, ml, putter, doc,
                                    cache, status, crashes>>
  BY DEF Arrive
<1>4. /\ req' \in [Requests -> Inputs]
      /\ pc'[r] \in {"rejected", "lanes"}
      /\ pc' \in [Requests -> {"idle", "rejected", "lanes", "calling", "merging",
                               "done", "lost"}]
      /\ \A q \in Requests \ {r} : pc'[q] = pc[q] /\ req'[q] = req[q]
  BY <1>1, <1>2 DEF TypeOK
<1>5. TypeOK'
  BY <1>1, <1>3, <1>4 DEF TypeOK
<1>6. RequestInv(r) /\ RequestInv(r)'
  BY <1>3, <1>4 DEF PersonaInv, RequestInv
<1>7. ASSUME NEW k \in Kinds PROVE LaneInv(r, k)' /\ PutInv(r, k)'
  <2>1. /\ LaneInv(r, k) /\ lane[r][k] = "waiting" /\ dec[r][k] = NewDecorator
        /\ putter[r][k] = "none" /\ resp[r][k] = NoSection
    BY <1>3, <1>6 DEF PersonaInv, RequestInv, LaneInv
  <2>2. NewDecorator.key = NoKey /\ NewDecorator.hit = FALSE
    BY DEF NewDecorator
  <2> QED
    BY <1>3, <2>1, <2>2 DEF LaneInv, PutInv
<1> QED
  BY <1>3, <1>4, <1>5, <1>6, <1>7, RequestStep

\* Sections that are all successes make a success.
LEMMA TopLevelSuccess ==
    ASSUME NEW sections, \A k \in Kinds : sections[k] # NoSection => sections[k].code = 2000
    PROVE  computeTopLevelStatus(sections) = 2000
<1>1. {k \in Kinds : sections[k] # NoSection /\ sections[k].code # 2000} = {}
  OBVIOUS
<1>2. Kinds # {}
  BY DEF Kinds
<1> QED
  BY <1>1, <1>2 DEF computeTopLevelStatus

LEMMA FinishKeeps ==
    ASSUME PersonaInv, NEW r \in Requests, Finish(r)
    PROVE  PersonaInv'
<1>1. TypeOK
  BY DEF PersonaInv
<1>2. /\ pc[r] = "lanes" /\ joined(r)
      /\ status' = [status EXCEPT ![r] = computeTopLevelStatus(resp[r])]
      /\ pc' = [pc EXCEPT ![r] = "done"]
      /\ UNCHANGED <<now, req, lane, dec, start, resp, common, ml, putter, doc,
                     cache, crashes>>
  BY DEF Finish
<1>3. \A k \in Kinds : resp[r][k] # NoSection => resp[r][k].code = 2000
  BY DEF PersonaInv, LaneInv, Sound
<1>4. computeTopLevelStatus(resp[r]) = 2000
  BY <1>3, TopLevelSuccess
<1>5. /\ pc' \in [Requests -> {"idle", "rejected", "lanes", "calling", "merging",
                               "done", "lost"}]
      /\ status' \in [Requests -> {0, 2000, 2101, 2102, 2201, 2202, 2500}]
      /\ pc'[r] = "done" /\ status'[r] = 2000
      /\ \A q \in Requests \ {r} : pc'[q] = pc[q] /\ status'[q] = status[q]
  BY <1>1, <1>2, <1>4 DEF TypeOK
<1>6. TypeOK'
  BY <1>1, <1>2, <1>5 DEF TypeOK
<1>7. RequestInv(r)'
  BY <1>2, <1>5 DEF PersonaInv, RequestInv, joined
<1>8. \A k \in Kinds : LaneInv(r, k)' /\ PutInv(r, k)'
  BY <1>2, SameLanes
<1> QED
  BY <1>2, <1>5, <1>6, <1>7, <1>8, RequestStep

LEMMA CallMLKeeps ==
    ASSUME PersonaInv, NEW r \in Requests, CallML(r)
    PROVE  PersonaInv'
<1>1. TypeOK
  BY DEF PersonaInv
<1>2. /\ joined(r) /\ pc' = [pc EXCEPT ![r] = "calling"]
      /\ UNCHANGED <<now, req, lane, dec, start, resp, common, ml, putter, doc,
                     cache, status, crashes>>
  BY DEF CallML
<1>3. /\ pc' \in [Requests -> {"idle", "rejected", "lanes", "calling", "merging",
                               "done", "lost"}]
      /\ pc'[r] = "calling"
      /\ \A q \in Requests \ {r} : pc'[q] = pc[q]
  BY <1>1, <1>2 DEF TypeOK
<1>4. TypeOK'
  BY <1>1, <1>2, <1>3 DEF TypeOK
<1>5. RequestInv(r)'
  BY <1>2, <1>3 DEF PersonaInv, RequestInv, joined
<1>6. \A k \in Kinds : LaneInv(r, k)' /\ PutInv(r, k)'
  BY <1>2, SameLanes
<1> QED
  BY <1>2, <1>3, <1>4, <1>5, <1>6, RequestStep

LEMMA MLReturnsKeeps ==
    ASSUME PersonaInv, NEW r \in Requests, MLReturns(r)
    PROVE  PersonaInv'
<1>1. TypeOK
  BY DEF PersonaInv
<1>2. /\ pc[r] = "calling" /\ pc' = [pc EXCEPT ![r] = "merging"]
      /\ UNCHANGED <<now, req, lane, dec, start, resp, common, putter, doc,
                     cache, status, crashes>>
  BY DEF MLReturns
<1>3. PICK out \in [Kinds -> MLOutput(r)] : ml' = [ml EXCEPT ![r] = out]
  BY DEF MLReturns
<1>4. /\ pc' \in [Requests -> {"idle", "rejected", "lanes", "calling", "merging",
                               "done", "lost"}]
      /\ pc'[r] = "merging"
      /\ \A q \in Requests \ {r} : pc'[q] = pc[q]
  BY <1>1, <1>2 DEF TypeOK
<1>5. \A q \in Requests : ml'[q] \in [Kinds -> MLOutput(q)]
  BY <1>1, <1>3 DEF TypeOK
<1>6. TypeOK'
  BY <1>1, <1>2, <1>4, <1>5 DEF TypeOK
<1>7. RequestInv(r)'
  BY <1>2, <1>4 DEF PersonaInv, RequestInv, joined
<1>8. \A k \in Kinds : LaneInv(r, k)' /\ PutInv(r, k)'
  BY <1>2, SameLanes
<1> QED
  BY <1>2, <1>4, <1>6, <1>7, <1>8, RequestStep

\* Merging keeps a section the caller's own, as old and as static as it was.
LEMMA MergeKeeps ==
    ASSUME PersonaInv, NEW r \in Requests, Merge(r)
    PROVE  PersonaInv'
<1>1. TypeOK
  BY DEF PersonaInv
<1>2. /\ pc[r] = "merging"
      /\ resp' = [resp EXCEPT ![r] = [k \in Kinds |-> merged(r, k)]]
      /\ ml' = [ml EXCEPT ![r] = [k \in Kinds |-> NoOutput]]
      /\ status' = [status EXCEPT ![r] =
                       computeTopLevelStatus([k \in Kinds |-> merged(r, k)])]
      /\ pc' = [pc EXCEPT ![r] = "done"]
      /\ UNCHANGED <<now, req, lane, dec, start, common, putter, doc, cache, crashes>>
  BY DEF Merge
<1>3. ASSUME NEW k \in Kinds
      PROVE  /\ lane[r][k] \in {"hit", "done"} =>
                   /\ Sound(merged(r, k)) /\ Own(r, k, merged(r, k))
                   /\ merged(r, k).asof = resp[r][k].asof
             /\ lane[r][k] \notin {"hit", "done"} => merged(r, k) = NoSection
  <2>1. LaneInv(r, k)
    BY DEF PersonaInv
  <2>2. CASE lane[r][k] \in {"hit", "done"}
    <3>1. Sound(resp[r][k]) /\ Own(r, k, resp[r][k]) /\ ml[r][k] \in MLOutput(r)
      BY <1>1, <2>1, <2>2 DEF LaneInv, TypeOK
    <3>2. merged(r, k) = [resp[r][k] EXCEPT !.intel = mergedIntel(r, k)]
      BY <3>1, SectionIsSome DEF merged, Sound
    <3>3. /\ mergedIntel(r, k) \in Intel
          /\ \A f \in Fields :
                mergedIntel(r, k)[f] = "static" <=> resp[r][k].intel[f] = "static"
      BY <3>1, MergedIntelKeepsStatic
    <3> QED
      BY <2>2, <3>1, <3>2, <3>3, SoundUpdate DEF Own
  <2>3. CASE lane[r][k] \notin {"hit", "done"}
    BY <2>1, <2>3 DEF LaneInv, merged
  <2> QED
    BY <2>2, <2>3
<1>4. \A k \in Kinds : merged(r, k) # NoSection => merged(r, k).code = 2000
  BY <1>3 DEF Sound
<1>5. computeTopLevelStatus([k \in Kinds |-> merged(r, k)]) = 2000
  <2>1. PICK sections : sections = [k \in Kinds |-> merged(r, k)]
    OBVIOUS
  <2>2. \A k \in Kinds : sections[k] # NoSection => sections[k].code = 2000
    BY <1>4, <2>1
  <2> QED
    BY <2>1, <2>2, TopLevelSuccess
<1>6. \A k \in Kinds : merged(r, k) \in Section \cup {NoSection}
  BY <1>3 DEF Sound
<1>7. /\ pc' \in [Requests -> {"idle", "rejected", "lanes", "calling", "merging",
                               "done", "lost"}]
      /\ status' \in [Requests -> {0, 2000, 2101, 2102, 2201, 2202, 2500}]
      /\ pc'[r] = "done" /\ status'[r] = 2000
      /\ \A q \in Requests \ {r} : pc'[q] = pc[q] /\ status'[q] = status[q]
  BY <1>1, <1>2, <1>5 DEF TypeOK
<1>8. /\ resp' \in [Requests -> [Kinds -> Section \cup {NoSection}]]
      /\ \A q \in Requests \ {r} : resp'[q] = resp[q]
      /\ \A k \in Kinds : resp'[r][k] = merged(r, k)
  BY <1>1, <1>2, <1>6 DEF TypeOK
<1>9. \A q \in Requests : ml'[q] \in [Kinds -> MLOutput(q)]
  BY <1>1, <1>2 DEF TypeOK, MLOutput
<1>10. TypeOK'
  BY <1>1, <1>2, <1>7, <1>8, <1>9 DEF TypeOK
<1>11. RequestInv(r)'
  BY <1>2, <1>7 DEF PersonaInv, RequestInv, joined
<1>12. ASSUME NEW k \in Kinds PROVE LaneInv(r, k)' /\ PutInv(r, k)'
  <2>1. PICK sec : sec = merged(r, k)
    OBVIOUS
  <2>2. LaneInv(r, k) /\ PutInv(r, k)
    BY DEF PersonaInv
  <2>3. LaneInv(r, k)'
    BY <1>2, <1>3, <1>8, <2>1, <2>2 DEF LaneInv, Own
  <2>4. PutInv(r, k)'
    BY <1>2, <2>2, PutFrame DEF PutInv
  <2> QED
    BY <2>3, <2>4
<1> QED
  BY <1>2, <1>7, <1>8, <1>10, <1>11, <1>12, RequestStep

-----------------------------------------------------------------------------
(* Steps of a write-back                                                   *)

\* Whatever the race lets the write-back see is a section of its lane.
LEMMA SeenIsSound ==
    ASSUME PersonaInv, NEW r \in Requests, NEW k \in Kinds, lane[r][k] = "done",
           NEW sec \in seen(r, k)
    PROVE  Sound(sec) /\ Own(r, k, sec) /\ dec[r][k].now <= sec.asof
<1>1. /\ Sound(resp[r][k]) /\ Own(r, k, resp[r][k]) /\ dec[r][k].now <= resp[r][k].asof
      /\ ml[r][k] \in MLOutput(r)
  BY DEF PersonaInv, LaneInv, TypeOK
<1>2. CASE pc[r] # "merging"
  BY <1>1, <1>2 DEF seen
<1>3. CASE pc[r] = "merging"
  <2>1. PICK in \in Intel :
           /\ sec = [resp[r][k] EXCEPT !.intel = in]
           /\ \A f \in Fields : in[f] \in {resp[r][k].intel[f], mergedIntel(r, k)[f]}
    BY <1>3 DEF seen
  <2>2. \A f \in Fields : in[f] = "static" <=> resp[r][k].intel[f] = "static"
    BY <1>1, <2>1, MergedIntelKeepsStatic
  <2>3. /\ Sound(sec) /\ sec.kind = resp[r][k].kind /\ sec.id = resp[r][k].id
        /\ sec.tenant = resp[r][k].tenant /\ sec.asof = resp[r][k].asof
    BY <1>1, <2>1, <2>2, SoundUpdate
  <2> QED
    BY <1>1, <2>3 DEF Own
<1> QED
  BY <1>2, <1>3

LEMMA PutEncodeKeeps ==
    ASSUME PersonaInv, NEW r \in Requests, NEW k \in Kinds, PutEncode(r, k)
    PROVE  PersonaInv'
<1>1. TypeOK /\ k \in LaneNames /\ LaneInv(r, k) /\ PutInv(r, k)
  BY DEF PersonaInv, LaneNames
<1>2. /\ putter[r][k] = "spawned"
      /\ putter' = [putter EXCEPT ![r][k] = "encoded"]
      /\ UNCHANGED <<now, pc, req, lane, dec, start, resp, common, ml, cache,
                     status, crashes>>
  BY DEF PutEncode
<1>3. PICK sec \in seen(r, k) : doc' = [doc EXCEPT ![r][k] = sec]
  BY DEF PutEncode
<1>4. lane[r][k] = "done" /\ dec[r][k].key # NoKey
  BY <1>1, <1>2 DEF PutInv
<1>5. Sound(sec) /\ Own(r, k, sec) /\ dec[r][k].now <= sec.asof /\ sec \in Section
  BY <1>4, SeenIsSound DEF Sound
<1>6. /\ doc' \in [Requests -> [Kinds -> Section \cup {NoSection}]] /\ doc'[r][k] = sec
      /\ \A q \in Requests, j \in Kinds : q # r \/ j # k => doc'[q][j] = doc[q][j]
  BY <1>1, <1>3, <1>5 DEF TypeOK
<1>7. /\ putter' \in [Requests -> [Kinds -> {"none", "spawned", "encoded", "done"}]]
      /\ putter'[r][k] = "encoded"
      /\ \A q \in Requests, j \in Kinds : q # r \/ j # k => putter'[q][j] = putter[q][j]
  BY <1>1, <1>2 DEF TypeOK
<1>8. TypeOK'
  BY <1>1, <1>2, <1>6, <1>7 DEF TypeOK
<1>9. LaneInv(r, k)'
  BY <1>1, <1>2, <1>4 DEF LaneInv, Own
<1>10. PutInv(r, k)'
  BY <1>2, <1>4, <1>5, <1>6, <1>7 DEF PutInv, Own
<1>11. lane'[r]["common"] # "reading"
  BY <1>2 DEF PersonaInv, RequestInv
<1> QED
  BY <1>1, <1>2, <1>6, <1>7, <1>8, <1>9, <1>10, <1>11, LaneStep

\* A write-back ends, whatever it leaves in the table.
LEMMA PutEnds ==
    ASSUME PersonaInv, NEW r \in Requests, NEW k \in Kinds, putter[r][k] = "encoded",
           putter' = [putter EXCEPT ![r][k] = "done"],
           doc' = [doc EXCEPT ![r][k] = NoSection],
           UNCHANGED <<now, pc, req, lane, dec, start, resp, common, ml, status, crashes>>,
           cache' \in [Keys -> Item \cup {NoItem}], \A key \in Keys : ItemInv(key)'
    PROVE  PersonaInv'
<1>1. TypeOK
  BY DEF PersonaInv
<1>2. /\ doc' \in [Requests -> [Kinds -> Section \cup {NoSection}]]
      /\ \A q \in Requests, j \in Kinds : q # r \/ j # k => doc'[q][j] = doc[q][j]
  BY <1>1 DEF TypeOK
<1>3. /\ putter' \in [Requests -> [Kinds -> {"none", "spawned", "encoded", "done"}]]
      /\ putter'[r][k] = "done"
      /\ \A q \in Requests, j \in Kinds : q # r \/ j # k => putter'[q][j] = putter[q][j]
  BY <1>1 DEF TypeOK
<1>4. TypeOK'
  BY <1>1, <1>2, <1>3 DEF TypeOK
<1>5. ASSUME NEW q \in Requests, NEW j \in Kinds PROVE LaneInv(q, j)' /\ PutInv(q, j)'
  <2>1. LaneInv(q, j) /\ PutInv(q, j)
    BY DEF PersonaInv
  <2>2. CASE q = r /\ j = k
    <3>1. lane[r][k] # "waiting"
      BY <2>1, <2>2 DEF LaneInv
    <3> QED
      BY <1>3, <2>1, <2>2, <3>1 DEF LaneInv, PutInv, Own
  <2>3. CASE q # r \/ j # k
    BY <1>2, <1>3, <2>1, <2>3 DEF LaneInv, PutInv, Own
  <2> QED
    BY <2>2, <2>3
<1>6. ASSUME NEW q \in Requests PROVE RequestInv(q)'
  BY RequestFrame DEF PersonaInv
<1> QED
  BY <1>4, <1>5, <1>6 DEF PersonaInv

\* The item is filed under the caller's key, and its lifetime is counted from a
\* clock the gate read before the crawl began.
LEMMA PutLandsKeeps ==
    ASSUME PersonaInv, NEW r \in Requests, NEW k \in Kinds, PutLands(r, k)
    PROVE  PersonaInv'
<1>1. TypeOK /\ LaneInv(r, k) /\ PutInv(r, k)
  BY DEF PersonaInv
<1>2. /\ putter[r][k] = "encoded"
      /\ cache' = [cache EXCEPT ![dec[r][k].key] = [sec |-> doc[r][k], ttl |-> expiry(r, k)]]
      /\ putter' = [putter EXCEPT ![r][k] = "done"]
      /\ doc' = [doc EXCEPT ![r][k] = NoSection]
      /\ UNCHANGED <<now, pc, req, lane, dec, start, resp, common, ml, status, crashes>>
  BY DEF PutLands
<1>3. PICK item : item = [sec |-> doc[r][k], ttl |-> expiry(r, k)]
  OBVIOUS
<1>4. PICK own : own = dec[r][k].key
  OBVIOUS
<1>5. /\ Sound(doc[r][k]) /\ Own(r, k, doc[r][k]) /\ dec[r][k].now <= doc[r][k].asof
      /\ own # NoKey /\ own = Key(k, loginID(k, req[r]), req[r].tenant)
  BY <1>1, <1>2, <1>4 DEF PutInv, LaneInv
<1>6. own \in Keys /\ dec[r][k].now \in Nat
  <2>1. dec[r][k] \in Decorator
    BY <1>1 DEF TypeOK
  <2>2. dec[r][k].key \in Keys \cup {NoKey} /\ dec[r][k].now \in 0..MaxTime
    BY <2>1 DEF Decorator
  <2> QED
    BY <1>4, <1>5, <2>2, PipelineAssumption
<1>7. doc[r][k] \in Section /\ doc[r][k].asof \in Nat /\ TTLSeconds \in Nat
  BY <1>5, SectionIsSome, PipelineAssumption DEF Sound
<1>8. item.sec = doc[r][k] /\ item.ttl = dec[r][k].now + TTLSeconds
  BY <1>3 DEF expiry
<1>9. item \in Item
  BY <1>3, <1>6, <1>7 DEF Item, expiry
<1>10. /\ cache' \in [Keys -> Item \cup {NoItem}] /\ cache'[own] = item
       /\ \A key \in Keys \ {own} : cache'[key] = cache[key]
  BY <1>1, <1>2, <1>3, <1>4, <1>6, <1>9 DEF TypeOK
<1>11. ASSUME NEW key \in Keys PROVE ItemInv(key)'
  <2>1. CASE key = own
    <3>1. item.ttl <= item.sec.asof + TTLSeconds
      BY <1>5, <1>6, <1>7, <1>8
    <3>2. key = Key(item.sec.kind, item.sec.id, item.sec.tenant) /\ Sound(item.sec)
      BY <1>5, <1>8, <2>1 DEF Own
    <3> QED
      BY <1>10, <2>1, <3>1, <3>2 DEF ItemInv
  <2>2. CASE key # own
    BY <1>10, <2>2 DEF PersonaInv, ItemInv
  <2> QED
    BY <2>1, <2>2
<1> QED
  BY <1>2, <1>10, <1>11, PutEnds

LEMMA PutFailsKeeps ==
    ASSUME PersonaInv, NEW r \in Requests, NEW k \in Kinds, PutFails(r, k)
    PROVE  PersonaInv'
<1>1. cache' = cache /\ cache \in [Keys -> Item \cup {NoItem}]
  BY DEF PutFails, PersonaInv, TypeOK
<1>2. \A key \in Keys : ItemInv(key)'
  BY <1>1 DEF PersonaInv, ItemInv
<1> QED
  BY <1>1, <1>2, PutEnds DEF PutFails

-----------------------------------------------------------------------------
(* Time and crashes                                                        *)

LEMMA TickKeeps ==
    ASSUME PersonaInv, Tick \/ UNCHANGED vars
    PROVE  PersonaInv'
<1>1. /\ UNCHANGED <<pc, req, lane, dec, start, resp, common, ml, putter, doc,
                     cache, status, crashes>>
      /\ now' \in {now, now + 1} /\ now' \in 0..MaxTime /\ now \in 0..MaxTime
  BY PipelineAssumption DEF Tick, vars, PersonaInv, TypeOK
<1>2. TypeOK'
  BY <1>1 DEF PersonaInv, TypeOK
<1>3. ASSUME NEW r \in Requests PROVE RequestInv(r)'
  BY <1>1, RequestFrame DEF PersonaInv
<1>4. ASSUME NEW r \in Requests, NEW k \in Kinds PROVE LaneInv(r, k)' /\ PutInv(r, k)'
  <2>1. LaneInv(r, k) /\ PutInv(r, k) /\ dec[r][k] \in Decorator
    BY DEF PersonaInv, TypeOK
  <2>2. now \in Int /\ now' \in Int /\ now <= now'
    BY <1>1
  <2> QED
    BY <1>1, <2>1, <2>2, LaneFrame, PutFrame DEF PutInv
<1>5. ASSUME NEW key \in Keys PROVE ItemInv(key)'
  BY <1>1 DEF PersonaInv, ItemInv
<1> QED
  BY <1>2, <1>3, <1>4, <1>5 DEF PersonaInv

\* What a crash leaves behind is the table.
LEMMA CrashKeeps ==
    ASSUME PersonaInv, Crash
    PROVE  PersonaInv'
<1>1. TypeOK
  BY DEF PersonaInv
<1>2. /\ crashes < MaxCrashes /\ crashes' = crashes + 1
      /\ pc' = [r \in Requests |->
                  IF pc[r] \in {"lanes", "calling", "merging"} THEN "lost" ELSE pc[r]]
      /\ putter' = [r \in Requests |-> [k \in Kinds |->
                  IF putter[r][k] = "none" THEN "none" ELSE "done"]]
      /\ doc' = [r \in Requests |-> [k \in Kinds |-> NoSection]]
      /\ UNCHANGED <<now, req, lane, dec, start, resp, common, ml, cache, status>>
  BY DEF Crash
<1>3. TypeOK'
  <2>1. crashes' \in 0..MaxCrashes
    BY <1>1, <1>2, PipelineAssumption DEF TypeOK
  <2>2. pc' \in [Requests -> {"idle", "rejected", "lanes", "calling", "merging",
                              "done", "lost"}]
    BY <1>1, <1>2 DEF TypeOK
  <2>3. /\ putter' \in [Requests -> [Kinds -> {"none", "spawned", "encoded", "done"}]]
        /\ doc' \in [Requests -> [Kinds -> Section \cup {NoSection}]]
    BY <1>2
  <2> QED
    BY <1>1, <1>2, <2>1, <2>2, <2>3 DEF TypeOK
<1>4. ASSUME NEW r \in Requests PROVE RequestInv(r)'
  <2>1. pc'[r] = pc[r] \/ pc'[r] = "lost"
    BY <1>2
  <2> QED
    BY <1>2, <2>1 DEF PersonaInv, RequestInv, joined
<1>5. ASSUME NEW r \in Requests, NEW k \in Kinds PROVE LaneInv(r, k)' /\ PutInv(r, k)'
  <2>1. putter'[r][k] = IF putter[r][k] = "none" THEN "none" ELSE "done"
    BY <1>2
  <2>2. LaneInv(r, k)
    BY DEF PersonaInv
  <2> QED
    BY <1>2, <2>1, <2>2 DEF LaneInv, PutInv, Own
<1>6. ASSUME NEW key \in Keys PROVE ItemInv(key)'
  BY <1>2 DEF PersonaInv, ItemInv
<1> QED
  BY <1>3, <1>4, <1>5, <1>6 DEF PersonaInv

-----------------------------------------------------------------------------
LEMMA PersonaInductive == PersonaInv /\ [Next]_vars => PersonaInv'
<1> SUFFICES ASSUME PersonaInv, [Next]_vars PROVE PersonaInv'
  OBVIOUS
<1>1. ASSUME NEW r \in Requests, Arrive(r) PROVE PersonaInv'
  BY <1>1, ArriveKeeps
<1>2. ASSUME NEW r \in Requests, NEW k \in LaneNames, Gate(r, k) PROVE PersonaInv'
  <2>1. CASE GateClosed(r, k) \/ GateUncached(r, k)
    BY <2>1, GateClosedKeeps, GateUncachedKeeps
  <2>2. CASE GateRead(r, k)
    BY <2>2, GateReadKeeps DEF GateRead, cached
  <2>3. CASE GateHit(r, k) \/ GateMiss(r, k)
    <3>1. lane[r][k] = "reading"
      BY <2>3 DEF GateHit, GateMiss
    <3>2. k \in Kinds
      BY <3>1 DEF PersonaInv, RequestInv, LaneNames
    <3> QED
      BY <2>3, <3>2, GateHitKeeps, GateMissKeeps
  <2> QED
    BY <1>2, <2>1, <2>2, <2>3 DEF Gate
<1>3. ASSUME NEW r \in Requests, Serve(r) PROVE PersonaInv'
  BY <1>2, <1>3, RunSectionKeeps, RunCommonKeeps, FinishKeeps, CallMLKeeps, MLReturnsKeeps,
     MergeKeeps DEF Serve
<1>4. ASSUME NEW r \in Requests, NEW k \in Kinds, Put(r, k) PROVE PersonaInv'
  BY <1>4, PutEncodeKeeps, PutLandsKeeps, PutFailsKeeps DEF Put
<1> QED
  BY <1>1, <1>3, <1>4, TickKeeps, CrashKeeps DEF Next

LEMMA PersonaInvariant == Spec => []PersonaInv
  BY PersonaInitially, PersonaInductive, PTL DEF Spec

-----------------------------------------------------------------------------
(* Theorems                                                                *)

\* Types: a decorator's key is a key of the table, and only whole sections are
\* stored (PersonaResponse, personacache).
THEOREM PersonaTyped == Spec => []TypeOK
<1>1. PersonaInv => TypeOK
  BY DEF PersonaInv
<1> QED
  BY <1>1, PersonaInvariant, PTL

\* Every response has its caller's own sections, all and only those it asked
\* for, however many requests fill and read the cache (Gate, Run, Key).
THEOREM SectionsGoToTheirOwner == Spec => []ServedToOwner
<1>1. ASSUME PersonaInv PROVE ServedToOwner
  <2> SUFFICES ASSUME NEW r \in Requests, pc[r] = "done"
               PROVE  /\ status[r] = 2000
                      /\ \A k \in Kinds :
                            IF innerGate(k, req[r])
                            THEN resp[r][k] # NoSection /\ Own(r, k, resp[r][k])
                            ELSE resp[r][k] = NoSection
    BY DEF ServedToOwner, Own
  <2>1. status[r] = 2000 /\ joined(r)
    BY <1>1 DEF PersonaInv, RequestInv
  <2>2. ASSUME NEW k \in Kinds
        PROVE  IF innerGate(k, req[r]) THEN resp[r][k] # NoSection /\ Own(r, k, resp[r][k])
               ELSE resp[r][k] = NoSection
    <3>1. LaneInv(r, k) /\ lane[r][k] \in {"skipped", "hit", "done"}
      BY <1>1, <2>1 DEF PersonaInv, joined, LaneNames
    <3>2. CASE lane[r][k] = "skipped"
      BY <3>1, <3>2 DEF LaneInv
    <3>3. CASE lane[r][k] \in {"hit", "done"}
      BY <3>1, <3>3, SectionIsSome DEF LaneInv, Sound
    <3> QED
      BY <3>1, <3>2, <3>3
  <2> QED
    BY <2>1, <2>2
<1> QED
  BY <1>1, PersonaInvariant, PTL

\* However late a write-back lands, a section that is replayed is from a crawl
\* that began less than a lifetime before the reader's clock (Gate, Put).
THEOREM ReplaysAreFresh == Spec => []FreshEnough
<1>1. PersonaInv => FreshEnough
  BY DEF PersonaInv, LaneInv, FreshEnough
<1> QED
  BY <1>1, PersonaInvariant, PTL

\* No number of merges, races between merge and marshalling, and replays puts
\* an ml_service value in place of a static one (mergeIntelligenceData).
THEOREM StaticDataWins == Spec => []StaticWins
<1>1. ASSUME PersonaInv PROVE StaticWins
  <2>1. ASSUME NEW r \in Requests, NEW k \in Kinds, resp[r][k] # NoSection
        PROVE  Sound(resp[r][k])
    BY <1>1, <2>1 DEF PersonaInv, LaneInv
  <2>2. ASSUME NEW key \in Keys, cache[key] # NoItem PROVE Sound(cache[key].sec)
    BY <1>1, <2>2 DEF PersonaInv, ItemInv
  <2> QED
    BY <2>1, <2>2 DEF StaticWins, Sound
<1> QED
  BY <1>1, PersonaInvariant, PTL
=============================================================================
