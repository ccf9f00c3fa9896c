----------------------------- MODULE CommonData -----------------------------
(***************************************************************************)
(* The common_data lane (internal/commondata/commondata.go): the enrichment*)
(* checks a tenant has enabled, each from the document cached for the      *)
(* request's phone, email and name or from an HTTP call of its own, and the*)
(* document written back in the background (internal/personacache). The    *)
(* document is shared by all tenants and by all requests in flight.        *)
(*                                                                         *)
(* A check's value is named by the request whose call returned it. The     *)
(* phases of a Fetch: start, reading (the cache), calls (the loop over the *)
(* checks, the goroutines it starts and the wait for them), done.          *)
(*                                                                         *)
(* The goroutines write the results map under a lock, the loop writes it   *)
(* without: a data race. Go stops the process when it notices two writers  *)
(* in a map and may damage the map when it does not, so the race sets alive*)
(* to FALSE and nothing more is said about the process.                    *)
(***************************************************************************)
EXTENDS Integers, FiniteSets, Sequences, YouConfig

CONSTANTS Requests,     \* the requests
          None, Err,    \* no value; the bare {"error": true}
          EnrichTTL,    \* lifetime of a document
          Pieces,       \* the parts of a text between its colons, none if it is empty
          LookupCases   \* the requests that may be in flight together

ASSUME NoneErrAssumption == None \notin Requests /\ Err \notin Requests /\ None # Err
ASSUME RequestsAssumption == IsFiniteSet(Requests)
ASSUME EnrichTTLAssumption == EnrichTTL \in Nat \ {0}

\* checkOrder, each check with its gate.
checkOrder(yc) ==
    [vintage           |-> EnrichedDataAPIEnabled(yc),
     demat_check       |-> DematCheckEnabled(yc),
     mutual_fund_check |-> MutualFundCheckEnabled(yc),
     credit_card_check |-> CreditCardCheckEnabled(yc),
     fintech_count     |-> FintechCountEnabled(yc),
     phone_to_address  |-> PhoneToAddressEnabled(yc)]

Checks == {"vintage", "demat_check", "mutual_fund_check", "credit_card_check",
           "fintech_count", "phone_to_address"}

\* The order of the loop.
place == [vintage |-> 1, demat_check |-> 2, mutual_fund_check |-> 3,
          credit_card_check |-> 4, fintech_count |-> 5, phone_to_address |-> 6]

\* enrich_data_config: enabled, and the checks that have a service id.
EnrichConfig == [enabled : BOOLEAN, serviceIDs : SUBSET Checks]

\* A request: what it asks about, raw, its tenant, and the enrich_data_config
\* at the time; enrichCache is FALSE when the process has no cache table.
Request == [phone : STRING, email : STRING, name : STRING, yc : YouConfiguration,
            enrich : EnrichConfig, enrichCache : BOOLEAN, metaCache : BOOLEAN]

reqFields(x) == <<x.phone, x.email, x.name>>

\* The fields that are present, joined with a colon: texts are equal if their
\* parts are. Nothing keeps a colon out of an email or a name, and a field that
\* is absent leaves no trace. Collisions of md5 are left out.
EnrichKey(x) == Pieces[x.phone] \o Pieces[x.email] \o Pieces[x.name]

ASSUME LookupCasesAssumption == LookupCases \subseteq [Requests -> Request]
ASSUME PiecesAssumption ==
    \A x \in LookupCases : \A r \in Requests : \A i \in 1..3 :
        Pieces[reqFields(x[r])[i]] \in Seq(STRING)

VARIABLES
    rq,     \* the requests
    clock,  \* the wall clock
    doc,    \* the document stored under each key
    e,      \* the Fetch of each request
    alive   \* no data race has ended the process or damaged a map

enrichVars == <<doc, e, alive>>

-----------------------------------------------------------------------------
Values == Requests \cup {None, Err}
NoChecks == [c \in Checks |-> None]

\* A stored document; one that was never written holds no check.
Doc == [vals : [Checks -> Values], ttl : Nat]
NoDoc == [vals |-> NoChecks, ttl |-> 0]

FetchState == [phase   : {"start", "reading", "calls", "done"},
               now     : Nat,
               cached  : [Checks -> Values],
               results : [Checks -> Values],
               left    : SUBSET Checks,           \* what the loop has still to visit
               running : SUBSET Checks,           \* the goroutines
               mu      : Checks \cup {"free"},    \* the one that holds the lock
               put     : {"none", "pending", "done"}]
NewFetch(phase) == [phase |-> phase, now |-> 0, cached |-> NoChecks,
                    results |-> NoChecks, left |-> {}, running |-> {}, mu |-> "free",
                    put |-> "none"]

Key(r) == EnrichKey(rq[r])
Keys == {EnrichKey(x[r]) : x \in LookupCases, r \in Requests}

\* The checks the tenant has enabled, none when the feature is off.
enabled(x) == {c \in Checks : x.yc.parsed /\ x.enrich.enabled /\ checkOrder(x.yc)[c]}

\* Fetch returns nil at once when there is no check to make.
EnrichInit ==
    /\ doc = [k \in Keys |-> NoDoc]
    /\ e = [r \in Requests |-> NewFetch(IF enabled(rq[r]) = {} THEN "done" ELSE "start")]
    /\ alive = TRUE

cacheOn(x) == x.enrichCache /\ IsCachingEnabled(x.yc)

\* Fetch up to the cache read; the request's time is taken here.
Fetch(r) ==
    /\ e[r].phase = "start"
    /\ e' = [e EXCEPT ![r] =
             IF cacheOn(rq[r]) THEN [@ EXCEPT !.phase = "reading", !.now = clock]
             ELSE [@ EXCEPT !.phase = "calls", !.now = clock, !.left = enabled(rq[r])]]
    /\ UNCHANGED <<doc, alive>>

\* Mutant of GetDoc: a document is still good in the second it expires.
GetDocAtExpiry(d, now) == IF now > d.ttl THEN NoChecks ELSE d.vals

\* The checks of a stored document, none if it has expired.
GetDoc(d, now) == IF now >= d.ttl THEN NoChecks ELSE d.vals

\* Mutant of ReadDoc: what was read is taken for the results.
ReadDocLeaks(r) ==
    /\ e[r].phase = "reading"
    /\ \E cached \in {NoChecks, GetDoc(doc[Key(r)], e[r].now)} :
          e' = [e EXCEPT ![r].phase = "calls", ![r].cached = cached, ![r].results = cached,
                         ![r].left = enabled(rq[r])]
    /\ UNCHANGED <<doc, alive>>

\* The cache read, which may fail. Expiry is judged by the time at which Fetch
\* began.
ReadDoc(r) ==
    /\ e[r].phase = "reading"
    /\ \E cached \in {NoChecks, GetDoc(doc[Key(r)], e[r].now)} :
          e' = [e EXCEPT ![r].phase = "calls", ![r].cached = cached,
                         ![r].left = enabled(rq[r])]
    /\ UNCHANGED <<doc, alive>>

\* The loop comes to the check c.
Visits(r, c) == c \in e[r].left /\ \A d \in e[r].left : place[c] <= place[d]

\* It needs no call: it was read, or it has no service id.
answeredByLoop(r, c) == e[r].cached[c] # None \/ c \notin rq[r].enrich.serviceIDs

\* A check that was read is served as it is, one without a service id fails; the
\* loop does not take the lock, and both writes land if another is under way.
Serve(r, c) ==
    /\ Visits(r, c) /\ answeredByLoop(r, c)
    /\ e' = [e EXCEPT ![r].left = @ \ {c},
                      ![r].results[c] = IF e[r].cached[c] # None THEN e[r].cached[c] ELSE Err]
    /\ UNCHANGED <<doc, alive>>

\* The same write while a goroutine is at its own, and they do not both land.
ConcurrentWrite(r, c) ==
    /\ Visits(r, c) /\ answeredByLoop(r, c) /\ e[r].mu # "free"
    /\ alive' = FALSE
    /\ UNCHANGED <<doc, e>>

\* The check gets a goroutine of its own.
Spawn(r, c) ==
    /\ Visits(r, c) /\ ~answeredByLoop(r, c)
    /\ e' = [e EXCEPT ![r].left = @ \ {c}, ![r].running = @ \cup {c}]
    /\ UNCHANGED <<doc, alive>>

\* The call has returned and its goroutine takes the lock.
Lock(r, c) ==
    /\ c \in e[r].running /\ e[r].mu = "free"
    /\ e' = [e EXCEPT ![r].mu = c]
    /\ UNCHANGED <<doc, alive>>

\* What a call may come to: a JSON object, the object {"error": true}, a body
\* that is not an object, another status, no response.
Outcomes == {"object", "error", "unparseable", "status", "transport"}

callCheck(r, outcome) == IF outcome = "object" THEN r ELSE Err

\* Mutant of Check: the goroutine does not release the lock.
CheckKeepsLock(r, c) ==
    /\ e[r].mu = c /\ c \in e[r].running
    /\ \E outcome \in Outcomes :
          e' = [e EXCEPT ![r].results[c] = callCheck(r, outcome), ![r].running = @ \ {c}]
    /\ UNCHANGED <<doc, alive>>

\* It writes what the call came to, which nobody has seen before, releases the
\* lock and ends.
Check(r, c) ==
    /\ e[r].mu = c
    /\ \E outcome \in Outcomes :
          e' = [e EXCEPT ![r].results[c] = callCheck(r, outcome),
                         ![r].running = @ \ {c}, ![r].mu = "free"]
    /\ UNCHANGED <<doc, alive>>

\* Mutant of merged: the document is made of the results alone.
mergedResultsOnly(f) ==
    [c \in Checks |-> IF f.results[c] = Err THEN None ELSE f.results[c]]

\* The document to write back: what was read, and over it the results that are
\* not errors.
merged(f) ==
    [c \in Checks |-> IF f.results[c] \in {None, Err} THEN f.cached[c] ELSE f.results[c]]

\* Mutant of Join: the write starts before the goroutines have ended.
JoinEarly(r) ==
    /\ e[r].phase = "calls" /\ e[r].left = {} /\ e[r].put = "none"
    /\ e' = [e EXCEPT ![r].phase = IF e[r].running = {} THEN "done" ELSE @,
                      ![r].put = IF cacheOn(rq[r]) /\ merged(e[r]) # NoChecks
                                 THEN "pending" ELSE "none"]
    /\ UNCHANGED <<doc, alive>>

\* wg.Wait has returned: the lane's answer is complete, and the write starts in
\* the background if there is anything to write.
Join(r) ==
    /\ e[r].phase = "calls" /\ e[r].left = {} /\ e[r].running = {}
    /\ e' = [e EXCEPT ![r].phase = "done",
                      ![r].put = IF cacheOn(rq[r]) /\ merged(e[r]) # NoChecks
                                 THEN "pending" ELSE "none"]
    /\ UNCHANGED <<doc, alive>>

\* The write, whole and unconditional, with the time at which Fetch began; or it
\* fails, or the process ends before it.
PutDoc(r) ==
    /\ e[r].put = "pending"
    /\ e' = [e EXCEPT ![r].put = "done"]
    /\ doc' \in {doc, [doc EXCEPT ![Key(r)] = [vals |-> merged(e[r]),
                                              ttl |-> e[r].now + EnrichTTL]]}
    /\ UNCHANGED alive

\* The steps that the request itself waits for.
FetchStep(r) ==
    \/ Fetch(r) \/ ReadDoc(r) \/ Join(r)
    \/ \E c \in Checks : Serve(r, c) \/ Spawn(r, c) \/ Lock(r, c) \/ Check(r, c)

EnrichStep(r) == \/ FetchStep(r) \/ PutDoc(r)
                 \/ \E c \in Checks : ConcurrentWrite(r, c)

-----------------------------------------------------------------------------
(* Properties                                                              *)

\* What a request asks for, in the terms of LookupPromise; what its calls have
\* returned; the calls that failed; the requests that have their answer, and it:
\* every result there is, asked for or not.
enrichAsked == [r \in Requests |-> [subject |-> Key(r), items |-> enabled(rq[r])]]
enrichFacts == {<<Key(p[1]), p[2], p[1]>> :
                   p \in {q \in Requests \X Checks : e[q[1]].results[q[2]] = q[1]}}
enrichFailed == {p \in Requests \X Checks : /\ e[p[1]].results[p[2]] = Err
                                            /\ e[p[1]].cached[p[2]] = None}
enrichAnswered == {r \in Requests : e[r].phase = "done"}
enrichAnswer == [r \in Requests |-> [c \in {d \in Checks : e[r].results[d] # None} |->
                                        e[r].results[c]]]

Promise == INSTANCE LookupPromise WITH
               asked <- enrichAsked, facts <- enrichFacts, failed <- enrichFailed,
               answered <- enrichAnswered, answer <- enrichAnswer

\* The requests have the same fields, or fields without a colon in the same places.
sameForm(x, y) ==
    \A i \in 1..3 : LET s == reqFields(x)[i] t == reqFields(y)[i]
                    IN  s = t \/ (Pieces[s] = <<s>> /\ Pieces[t] = <<t>>)

\* What one request learns is served only to requests that ask about the same
\* phone, email and name, among requests of the same form.
OwnFields ==
    \A r, q \in Requests : \A c \in Checks :
        e[r].results[c] = q /\ sameForm(rq[r], rq[q]) => reqFields(rq[r]) = reqFields(rq[q])

\* The lane promises each request its own checks: exactly the ones its tenant
\* has enabled, so that nothing another tenant has put into the document shows,
\* an error only where its own call failed, and otherwise what the vendor said
\* about the text the request's fields join to: about its own phone, email and
\* name, unless a name reads like an email or a field has a colon in it.
EnrichPromise == Promise!PromiseSpec /\ []OwnFields

\* The requests that have written a document, of whatever key, or tried to.
writers == {r \in Requests : e[r].put = "done"}

\* Writing a document back renews the checks that were only read, so a check may
\* be served after the lifetime of a document; but every renewal is a request of
\* its own that read the document before it expired: after n writes a check that
\* is served is at most n times a lifetime less a second old.
AgeBounded ==
    \A r \in Requests : \A c \in Checks :
        LET by == e[r].results[c] IN
        by \in Requests \ {r} =>
            e[r].now <= e[by].now + (EnrichTTL - 1) * Cardinality(writers \ {r})

\* A write of a request that has seen the document as it stands loses none of
\* its checks, whichever checks the request's own tenant has enabled. A write may
\* lose some only if it overlaps another, or follows a read that failed or that
\* found the document expired.
NoCheckLost ==
    [][\A r \in Requests :
          /\ e[r].put = "pending" /\ e'[r].put = "done" /\ doc' # doc
          /\ e[r].cached = doc[Key(r)].vals
          => \A c \in Checks : doc[Key(r)].vals[c] # None
                                => doc'[Key(r)].vals[c] = doc[Key(r)].vals[c]]_enrichVars
=============================================================================
