--------------------------- MODULE PersonaPipeline ---------------------------
(***************************************************************************)
(* One POST /v1/persona request, from decoding to the assembled response:  *)
(* internal/handler/persona.go (Handle), orchestrator.go (Build), lane.go  *)
(* (runLanes), cache_decorator.go and internal/personacache.               *)
(*                                                                         *)
(* Build evaluates the gates of the phone, email and common_data lanes one *)
(* after the other; the gate of a section lane reads the persona cache, and*)
(* a hit replays the cached section.  The lanes that must run do so        *)
(* concurrently.  A section crawled on a miss is written back by a         *)
(* goroutine nobody waits for, which marshals the very Section that        *)
(* applyIntelligence goes on to modify.  Requests share only the cache.    *)
(***************************************************************************)
EXTENDS Integers, FiniteSets

CONSTANTS
    Requests,    \* the requests served
    Tenants,     \* the tenants they come from
    RawPhones,   \* the phone strings of requests; "" when the field is blank
    ParsePhone,  \* what parsePhone returns for each of them; "" when invalid
    Emails,      \* the email strings of requests; "" when the field is absent
    Inputs,      \* the decoded requests that may arrive
    Fields,      \* the intelligence_data fields that are followed
    HasCommon,   \* deps.Common is configured
    TTLSeconds,  \* lifetime of a cached section, in ticks (15 days)
    MaxTime,     \* bound: the clock
    MaxCrashes   \* bound: deaths of the process

Kinds == {"phone", "email"}

\* The order in which lanes() lists the lanes, hence of the gates.
LaneOrder == <<"phone", "email", "common">>
LaneNames == Kinds \cup {"common"}

\* The decoded request, with the tenant and the two flags of its youConfig
\* that steer the pipeline (both off when there is no youConfig).
PersonaRequest == [tenant  : Tenants,
                   phone   : RawPhones,
                   email   : Emails,
                   caching : BOOLEAN,
                   intel   : BOOLEAN]

\* The value of an intelligence_data field: nothing, {error: true}, derived
\* from static_data, or taken from the ml_service answer to a request.
Values == {"none", "error", "static"} \cup Requests

ASSUME PipelineAssumption ==
    /\ ParsePhone \in [RawPhones -> STRING]
    /\ Emails \subseteq STRING
    /\ Inputs \subseteq PersonaRequest
    /\ Inputs # {}
    /\ Fields \subseteq {"score", "name", "age", "linked"}
    /\ HasCommon \in BOOLEAN
    /\ TTLSeconds \in Nat
    /\ MaxTime \in Nat
    /\ MaxCrashes \in Nat
    /\ \A r \in Requests : r \notin {"none", "error", "static"}

\* An identifier that is not given, or does not parse.
Blank == ""

\* The identifier of a section lane: the normalised phone, or the raw email.
loginID(k, rq) == IF k = "phone" THEN ParsePhone[rq.phone] ELSE rq.email

\* The gate of a lane before caching is considered.
innerGate(k, rq) == IF k = "common" THEN HasCommon ELSE loginID(k, rq) # Blank

\* Mutant of Key: the tenant is left out.
KeyNoTenant(k, id, tenant) == <<k, id>>

\* The partition key of a section.
Key(k, id, tenant) == <<k, id, tenant>>

Intel == [Fields -> Values]

\* A section: whom it was crawled for, when the crawl began, its status code
\* and intelligence_data, and (history) the fields static_data provided.
Section == [tenant : Tenants, kind : Kinds, id : STRING, asof : 0..MaxTime,
            code : {2000, 2100, 2200}, intel : Intel, static : SUBSET Fields]
NoSection == [kind |-> "none"]

NoKey == <<>>
Keys == {Key(k, id, t) : k \in Kinds, t \in Tenants,
                         id \in (Emails \cup {ParsePhone[p] : p \in RawPhones}) \ {Blank}}

\* A stored item; ttl is the second at which it expires.
Item == [sec : Section, ttl : Nat]
NoItem == [ttl |-> 0]

\* The cacheDecorator of one lane of one request.
Decorator == [key : Keys \cup {NoKey}, now : 0..MaxTime, hit : BOOLEAN]
NewDecorator == [key |-> NoKey, now |-> 0, hit |-> FALSE]

\* What ml_service returned for one section: nothing, or some fields.
NoOutput == <<>>
MLOutput(r) == {NoOutput} \cup
    {out \in [Fields -> {"none", "error", r}] :
        \A f \in Fields \cap {"name", "linked"} : out[f] # "error"}

VARIABLES
    now,      \* unix time
    pc,       \* where each request is
    req,      \* the decoded request
    lane,     \* the state of each lane of each request
    dec,      \* the cache decorators
    start,    \* when the crawl of a lane began
    resp,     \* the sections of the response being assembled
    common,   \* whether the response has common_data
    ml,       \* the ml_service output, between the call and the merge
    putter,   \* the write-back goroutine of each lane
    doc,      \* what it has marshalled
    cache,    \* the DynamoDB table
    status,   \* top-level status code of a finished response
    crashes   \* deaths of the process so far

vars == <<now, pc, req, lane, dec, start, resp, common, ml, putter, doc,
          cache, status, crashes>>

Init ==
    /\ now = 0
    /\ pc = [r \in Requests |-> "idle"]
    /\ req = [r \in Requests |-> CHOOSE q \in Inputs : TRUE]
    /\ lane = [r \in Requests |-> [k \in LaneNames |-> "waiting"]]
    /\ dec = [r \in Requests |-> [k \in Kinds |-> NewDecorator]]
    /\ start = [r \in Requests |-> [k \in Kinds |-> 0]]
    /\ resp = [r \in Requests |-> [k \in Kinds |-> NoSection]]
    /\ common = [r \in Requests |-> FALSE]
    /\ ml = [r \in Requests |-> [k \in Kinds |-> NoOutput]]
    /\ putter = [r \in Requests |-> [k \in Kinds |-> "none"]]
    /\ doc = [r \in Requests |-> [k \in Kinds |-> NoSection]]
    /\ cache = [key \in Keys |-> NoItem]
    /\ status = [r \in Requests |-> 0]
    /\ crashes = 0

-----------------------------------------------------------------------------
(***************************************************************************)
(* Handle: decoding and validation.                                        *)
(***************************************************************************)

\* Neither a phone nor an email: 400, and nothing else happens.  A phone that
\* does not parse is not refused here, its lane is skipped instead.
Arrive(r) ==
    /\ pc[r] = "idle"
    /\ \E rq \in Inputs :
          /\ req' = [req EXCEPT ![r] = rq]
          /\ pc' = [pc EXCEPT ![r] =
                IF rq.phone = Blank /\ rq.email = Blank THEN "rejected" ELSE "lanes"]
    /\ UNCHANGED <<now, lane, dec, start, resp, common, ml, putter, doc, cache,
                   status, crashes>>

-----------------------------------------------------------------------------
(***************************************************************************)
(* runLanes: the gates, in order, on the request's own goroutine.          *)
(***************************************************************************)

\* Lane k is the one whose gate is evaluated next.
GateTurn(r, k) ==
    /\ pc[r] = "lanes"
    /\ lane[r][k] \in {"waiting", "reading"}
    /\ \E i \in 1..3 :
          /\ LaneOrder[i] = k
          /\ \A j \in 1..(i - 1) : lane[r][LaneOrder[j]] \notin {"waiting", "reading"}

\* A section lane for which the cache is consulted.
cached(r, k) == k \in Kinds /\ req[r].caching

SetLane(r, k, st) == lane' = [lane EXCEPT ![r][k] = st]

GateClosed(r, k) ==
    /\ GateTurn(r, k)
    /\ ~innerGate(k, req[r])
    /\ SetLane(r, k, "skipped")
    /\ UNCHANGED <<now, pc, req, dec, start, resp, common, ml, putter, doc,
                   cache, status, crashes>>

\* No cache for this lane: its goroutine is started at once.
GateUncached(r, k) ==
    /\ GateTurn(r, k)
    /\ innerGate(k, req[r])
    /\ ~cached(r, k)
    /\ SetLane(r, k, "running")
    /\ start' = IF k \in Kinds THEN [start EXCEPT ![r][k] = now] ELSE start
    /\ UNCHANGED <<now, pc, req, dec, resp, common, ml, putter, doc, cache,
                   status, crashes>>

\* Mutant of GateRead: the cache is read before the lane's own gate is asked.
GateReadFirst(r, k) ==
    /\ GateTurn(r, k)
    /\ lane[r][k] = "waiting"
    /\ cached(r, k)
    /\ dec' = [dec EXCEPT ![r][k].now = now,
                          ![r][k].key = Key(k, loginID(k, req[r]), req[r].tenant)]
    /\ SetLane(r, k, "reading")
    /\ UNCHANGED <<now, pc, req, start, resp, common, ml, putter, doc, cache,
                   status, crashes>>

\* The decorator fixes its key and its clock, and sends GetItem.
GateRead(r, k) ==
    /\ GateTurn(r, k)
    /\ lane[r][k] = "waiting"
    /\ innerGate(k, req[r])
    /\ cached(r, k)
    /\ dec' = [dec EXCEPT ![r][k].now = now,
                          ![r][k].key = Key(k, loginID(k, req[r]), req[r].tenant)]
    /\ SetLane(r, k, "reading")
    /\ UNCHANGED <<now, pc, req, start, resp, common, ml, putter, doc, cache,
                   status, crashes>>

\* Get finds an item that has not expired at the decorator's clock.
live(item, t) == item # NoItem /\ t < item.ttl

\* The field of the stored single-section response that matches the lane.
sectionFromCache(item, k) == IF item.sec.kind = k THEN item.sec ELSE NoSection

\* GetItem returns a live item: the section is replayed, the lane never runs.
GateHit(r, k) ==
    /\ GateTurn(r, k)
    /\ lane[r][k] = "reading"
    /\ LET item == cache[dec[r][k].key] IN
          /\ live(item, dec[r][k].now)
          /\ resp' = [resp EXCEPT ![r][k] = sectionFromCache(item, k)]
    /\ dec' = [dec EXCEPT ![r][k].hit = TRUE]
    /\ SetLane(r, k, "hit")
    /\ UNCHANGED <<now, pc, req, start, common, ml, putter, doc, cache, status,
                   crashes>>

\* No item, an expired one, or a GetItem that failed: the lane runs.
GateMiss(r, k) ==
    /\ GateTurn(r, k)
    /\ lane[r][k] = "reading"
    /\ SetLane(r, k, "running")
    /\ start' = [start EXCEPT ![r][k] = now]
    /\ UNCHANGED <<now, pc, req, dec, resp, common, ml, putter, doc, cache,
                   status, crashes>>

-----------------------------------------------------------------------------
(***************************************************************************)
(* The lanes' goroutines.                                                  *)
(***************************************************************************)

\* The intelligence_data a section starts with.  static_data may provide a
\* digital_age, usable or {error: true}, and linked_ids; nothing else.
StaticIntel == {in \in [Fields -> {"none", "error", "static"}] :
                   /\ \A f \in Fields \cap {"score", "name"} : in[f] = "none"
                   /\ \A f \in Fields \cap {"linked"} : in[f] # "error"}

\* A section made of the crawlers' results alone.  The crawlers end by the
\* request's deadline, and failed ones are folded into a section whose status
\* is success all the same.
buildSection(r, k) ==
    [tenant |-> req[r].tenant, kind |-> k, id |-> loginID(k, req[r]),
     asof |-> start[r][k], code |-> 2000,
     intel |-> [f \in Fields |-> "none"], static |-> {}]

\* The phone section once crawlers, meta and static lookups are in.
buildPhoneSection(r, in) ==
    [buildSection(r, "phone") EXCEPT !.intel = in,
                                     !.static = {f \in Fields : in[f] = "static"}]

\* The email section; its digital_age comes from the breach dates.
buildEmailSection(r, in) ==
    [buildSection(r, "email") EXCEPT !.intel = in,
                                     !.static = {f \in Fields : in[f] = "static"}]

\* The inner lane builds its section; a lane that read the cache then starts
\* the goroutine that writes the section back.
RunSection(r, k) ==
    /\ lane[r][k] = "running"
    /\ pc[r] = "lanes"
    /\ \E in \in StaticIntel :
          resp' = [resp EXCEPT ![r][k] = IF k = "phone" THEN buildPhoneSection(r, in)
                                         ELSE buildEmailSection(r, in)]
    /\ SetLane(r, k, "done")
    /\ putter' = IF dec[r][k].hit \/ dec[r][k].key = NoKey THEN putter
                 ELSE [putter EXCEPT ![r][k] = "spawned"]
    /\ UNCHANGED <<now, pc, req, dec, start, common, ml, doc, cache, status,
                   crashes>>

\* The common_data lane: the response gets the block unless it is empty.
RunCommon(r) ==
    /\ lane[r]["common"] = "running"
    /\ pc[r] = "lanes"
    /\ \E found \in BOOLEAN : common' = [common EXCEPT ![r] = found]
    /\ SetLane(r, "common", "done")
    /\ UNCHANGED <<now, pc, req, dec, start, resp, ml, putter, doc, cache,
                   status, crashes>>

\* Mutant of joined: a lane that never ran is waited for as well.
joinedAll(r) == \A k \in LaneNames : lane[r][k] = "done"

\* g.Wait returns: every lane that was started has returned.
joined(r) == \A k \in LaneNames : lane[r][k] \in {"skipped", "hit", "done"}

\* The code a failed section contributes: invalid identifier, or server error.
failureCode(k, code) ==
    (IF code = 2100 THEN 2100 ELSE 2200) + (IF k = "phone" THEN 1 ELSE 2)

\* The top-level status: success, the one failure, or the multi-field error.
computeTopLevelStatus(sections) ==
    LET failed == {k \in Kinds : sections[k] # NoSection /\ sections[k].code # 2000}
    IN  CASE failed = {}     -> 2000
          [] failed = Kinds  -> 2500
          [] OTHER           -> LET k == CHOOSE x \in failed : TRUE
                                IN  failureCode(k, sections[k].code)

-----------------------------------------------------------------------------
(***************************************************************************)
(* Build, after the lanes: intelligence and the top-level status.          *)
(***************************************************************************)

\* Without intelligence the response is complete.
Finish(r) ==
    /\ pc[r] = "lanes"
    /\ joined(r)
    /\ ~req[r].intel
    /\ status' = [status EXCEPT ![r] = computeTopLevelStatus(resp[r])]
    /\ pc' = [pc EXCEPT ![r] = "done"]
    /\ UNCHANGED <<now, req, lane, dec, start, resp, common, ml, putter, doc,
                   cache, crashes>>

\* applyIntelligence sends the response to ml_service.
CallML(r) ==
    /\ pc[r] = "lanes"
    /\ joined(r)
    /\ req[r].intel
    /\ pc' = [pc EXCEPT ![r] = "calling"]
    /\ UNCHANGED <<now, req, lane, dec, start, resp, common, ml, putter, doc,
                   cache, status, crashes>>

\* The answer, or what is made of a failed call.  Output for a section is
\* kept only when the request named that identifier.
MLReturns(r) ==
    /\ pc[r] = "calling"
    /\ \E out \in [Kinds -> MLOutput(r)] :
          /\ \A k \in Kinds : ~innerGate(k, req[r]) => out[k] = NoOutput
          /\ ml' = [ml EXCEPT ![r] = out]
    /\ pc' = [pc EXCEPT ![r] = "merging"]
    /\ UNCHANGED <<now, req, lane, dec, start, resp, common, putter, doc, cache,
                   status, crashes>>

\* isUsableDigitalAge
usable(v) == v \notin {"none", "error"}

\* Mutant of mergeIntelligenceData: whatever ml_service returns wins.
mergeMlWins(base, out) == [f \in Fields |-> IF out[f] = "none" THEN base[f] ELSE out[f]]

\* The score is always ml_service's, a name when there is one; a usable
\* digital_age and any linked_ids already in the section are kept.
mergedField(f, base, out) ==
    CASE f = "score"  -> out
      [] f = "name"   -> IF out = "none" THEN base ELSE out
      [] f = "age"    -> IF usable(base) \/ out = "none" THEN base ELSE out
      [] f = "linked" -> IF base = "none" THEN out ELSE base
mergeIntelligenceData(base, out) == [f \in Fields |-> mergedField(f, base[f], out[f])]

\* The intelligence_data of a section once the output has been merged in.
mergedIntel(r, k) ==
    IF ml[r][k] = NoOutput THEN resp[r][k].intel
    ELSE mergeIntelligenceData(resp[r][k].intel, ml[r][k])

merged(r, k) ==
    IF resp[r][k] = NoSection THEN NoSection
    ELSE [resp[r][k] EXCEPT !.intel = mergedIntel(r, k)]

\* The last field is written: the response is complete.
Merge(r) ==
    /\ pc[r] = "merging"
    /\ resp' = [resp EXCEPT ![r] = [k \in Kinds |-> merged(r, k)]]
    /\ ml' = [ml EXCEPT ![r] = [k \in Kinds |-> NoOutput]]
    /\ status' = [status EXCEPT ![r] = computeTopLevelStatus([k \in Kinds |-> merged(r, k)])]
    /\ pc' = [pc EXCEPT ![r] = "done"]
    /\ UNCHANGED <<now, req, lane, dec, start, common, putter, doc, cache, crashes>>

-----------------------------------------------------------------------------
(***************************************************************************)
(* The write-back goroutine.                                               *)
(***************************************************************************)

\* What marshalling the section may see.  While applyIntelligence is writing
\* the fields there is no synchronisation, so each field is old or new.
seen(r, k) ==
    IF pc[r] # "merging" THEN {resp[r][k]}
    ELSE {[resp[r][k] EXCEPT !.intel = in] :
             in \in {x \in Intel : \A f \in Fields :
                        x[f] \in {resp[r][k].intel[f], mergedIntel(r, k)[f]}}}

PutEncode(r, k) ==
    /\ putter[r][k] = "spawned"
    /\ \E sec \in seen(r, k) : doc' = [doc EXCEPT ![r][k] = sec]
    /\ putter' = [putter EXCEPT ![r][k] = "encoded"]
    /\ UNCHANGED <<now, pc, req, lane, dec, start, resp, common, ml, cache,
                   status, crashes>>

\* Mutant of expiry: counted from the moment of the write.
expiryAtWrite(r, k) == now + TTLSeconds

\* The lifetime is counted from the clock the gate read.
expiry(r, k) == dec[r][k].now + TTLSeconds

\* PutItem reaches the table, replacing whatever is there.
PutLands(r, k) ==
    /\ putter[r][k] = "encoded"
    /\ cache' = [cache EXCEPT ![dec[r][k].key] = [sec |-> doc[r][k], ttl |-> expiry(r, k)]]
    /\ putter' = [putter EXCEPT ![r][k] = "done"]
    /\ doc' = [doc EXCEPT ![r][k] = NoSection]
    /\ UNCHANGED <<now, pc, req, lane, dec, start, resp, common, ml, status, crashes>>

\* PutItem fails, and the error is dropped.
PutFails(r, k) ==
    /\ putter[r][k] = "encoded"
    /\ putter' = [putter EXCEPT ![r][k] = "done"]
    /\ doc' = [doc EXCEPT ![r][k] = NoSection]
    /\ UNCHANGED <<now, pc, req, lane, dec, start, resp, common, ml, cache,
                   status, crashes>>

-----------------------------------------------------------------------------
(***************************************************************************)
(* The environment.                                                        *)
(***************************************************************************)

Tick ==
    /\ now < MaxTime
    /\ now' = now + 1
    /\ UNCHANGED <<pc, req, lane, dec, start, resp, common, ml, putter, doc,
                   cache, status, crashes>>

\* The process ends: a shutdown does not wait for write-backs, and a panic in
\* a lane's goroutine is not recovered.  Only the table survives.
Crash ==
    /\ crashes < MaxCrashes
    /\ crashes' = crashes + 1
    /\ pc' = [r \in Requests |->
                IF pc[r] \in {"lanes", "calling", "merging"} THEN "lost" ELSE pc[r]]
    /\ putter' = [r \in Requests |-> [k \in Kinds |->
                IF putter[r][k] = "none" THEN "none" ELSE "done"]]
    /\ doc' = [r \in Requests |-> [k \in Kinds |-> NoSection]]
    /\ UNCHANGED <<now, req, lane, dec, start, resp, common, ml, cache, status>>

Gate(r, k) == \/ GateClosed(r, k)
              \/ GateUncached(r, k)
              \/ GateRead(r, k)
              \/ GateHit(r, k)
              \/ GateMiss(r, k)

Put(r, k) == PutEncode(r, k) \/ PutLands(r, k) \/ PutFails(r, k)

Serve(r) == \/ \E k \in LaneNames : Gate(r, k)
            \/ \E k \in Kinds : RunSection(r, k)
            \/ RunCommon(r)
            \/ Finish(r)
            \/ CallML(r)
            \/ MLReturns(r)
            \/ Merge(r)

Next == \/ \E r \in Requests : Arrive(r) \/ Serve(r)
        \/ \E r \in Requests, k \in Kinds : Put(r, k)
        \/ Tick
        \/ Crash

Spec == Init /\ [][Next]_vars

\* The scheduler runs every goroutine; the crawlers and the ml_service call
\* end by the request's deadline, and DynamoDB answers or fails.
FairSpec == Spec /\ \A r \in Requests : WF_vars(Serve(r))

-----------------------------------------------------------------------------
(***************************************************************************)
(* Properties.                                                             *)
(***************************************************************************)

\* Every variable keeps its type; in particular a decorator's key, once it is
\* set, is a key of the table, and what is stored is always a whole section.
TypeOK ==
    /\ now \in 0..MaxTime
    /\ pc \in [Requests -> {"idle", "rejected", "lanes", "calling", "merging",
                            "done", "lost"}]
    /\ req \in [Requests -> Inputs]
    /\ lane \in [Requests -> [LaneNames -> {"waiting", "reading", "running",
                                            "skipped", "hit", "done"}]]
    /\ dec \in [Requests -> [Kinds -> Decorator]]
    /\ start \in [Requests -> [Kinds -> 0..MaxTime]]
    /\ resp \in [Requests -> [Kinds -> Section \cup {NoSection}]]
    /\ common \in [Requests -> BOOLEAN]
    /\ \A r \in Requests : ml[r] \in [Kinds -> MLOutput(r)]
    /\ putter \in [Requests -> [Kinds -> {"none", "spawned", "encoded", "done"}]]
    /\ doc \in [Requests -> [Kinds -> Section \cup {NoSection}]]
    /\ cache \in [Keys -> Item \cup {NoItem}]
    /\ status \in [Requests -> {0, 2000, 2101, 2102, 2201, 2202, 2500}]
    /\ crashes \in 0..MaxCrashes

\* A finished response is a success (computeTopLevelStatus) and has exactly
\* the sections its identifiers call for, each crawled for that identifier and
\* for the caller's own tenant, whether it came from a crawl or, possibly
\* written by another request, from the cache (cacheDecorator.Gate, Key).
ServedToOwner ==
    \A r \in Requests : pc[r] = "done" =>
        /\ status[r] = 2000
        /\ \A k \in Kinds :
              IF innerGate(k, req[r])
              THEN /\ resp[r][k] # NoSection
                   /\ resp[r][k].kind = k
                   /\ resp[r][k].id = loginID(k, req[r])
                   /\ resp[r][k].tenant = req[r].tenant
              ELSE resp[r][k] = NoSection

\* A section replayed from the cache (Gate) belongs to a crawl that began less
\* than TTLSeconds before the reader's clock, however long the crawl, the
\* write-back goroutine and PutItem took, and whichever of several concurrent
\* write-backs of the key landed last (Run, Put).
FreshEnough ==
    \A r \in Requests, k \in Kinds :
        lane[r][k] = "hit" => dec[r][k].now < resp[r][k].asof + TTLSeconds

\* A digital_age or linked_ids that static_data provided is never displaced by
\* an ml_service value (mergeIntelligenceData), neither in a response nor in
\* the table, although the section is merged in one request, written back
\* half merged perhaps, and merged again by each later request that hits it.
StaticWins ==
    LET KeepsStatic(sec) == \A f \in Fields : f \in sec.static <=> sec.intel[f] = "static"
    IN  /\ \A r \in Requests, k \in Kinds :
              resp[r][k] # NoSection => KeepsStatic(resp[r][k])
        /\ \A key \in Keys : cache[key] # NoItem => KeepsStatic(cache[key].sec)

\* Every accepted request is answered, unless the process dies: the lanes that
\* hit or are gated out are not waited for (runLanes).
EveryRequestAnswered ==
    \A r \in Requests : pc[r] = "lanes" ~> pc[r] \in {"done", "lost"}

\* What the comments on mergeIntelligenceData say: the section it starts from
\* carries static signals only ("base never sets these"), linked_ids are the
\* static ones "else ... ml_service's", so every ml_service value in a response
\* is from the call made for that response.
OwnIntelligence ==
    \A r \in Requests, k \in Kinds :
        pc[r] = "done" /\ resp[r][k] # NoSection =>
            \A f \in Fields : resp[r][k].intel[f] \in {"none", "error", "static", r}

=============================================================================
