---------------------------- MODULE LookupProofs ----------------------------
(***************************************************************************)
(* Proofs about Lookups, for any number of requests, any tenants and any   *)
(* lifetimes.                                                              *)
(***************************************************************************)
EXTENDS Lookups, FiniteSetTheorems, SequenceTheorems, TLAPS

EnrichTyped ==
    /\ rq \in LookupCases
    /\ clock \in Nat
    /\ doc \in [Keys -> Doc]
    /\ e \in [Requests -> FetchState]

\* A request writes only when it is done; its loop and its goroutines are at work
\* in the fan-out only, and before that it knows nothing.
PhaseOf(r) ==
    /\ e[r].put # "none" => e[r].phase = "done"
    /\ e[r].phase # "calls" => e[r].left = {} /\ e[r].running = {} /\ e[r].mu = "free"
    /\ e[r].mu # "free" => e[r].mu \in e[r].running
    /\ e[r].left \cap e[r].running = {}
    /\ e[r].phase \in {"start", "reading"} =>
          e[r].cached = NoChecks /\ e[r].results = NoChecks
Phases == \A r \in Requests : PhaseOf(r)

\* Where a result comes from: the request's own call or the document it read. A
\* check that the loop or a goroutine still has in hand has no result, every
\* other one that is enabled has.
ServedOf(r) ==
    \A c \in Checks :
        LET f == e[r] IN
        /\ f.results[c] # None => c \in enabled(rq[r])
        /\ f.results[c] \in Requests => f.results[c] = r \/ f.results[c] = f.cached[c]
        /\ f.results[c] = Err => f.cached[c] = None
        /\ f.cached[c] # None => f.results[c] \in {None, f.cached[c]}
        /\ c \in f.left \cup f.running => c \in enabled(rq[r]) /\ f.results[c] = None
        /\ c \in f.running => f.cached[c] = None
        /\ f.phase \in {"calls", "done"} /\ c \in enabled(rq[r]) /\ f.results[c] = None =>
              c \in f.left \cup f.running
Served == \A r \in Requests : ServedOf(r)

\* The value of check c that request q got from the vendor, for the key k.
Origin(q, c, k) ==
    q \in Requests /\ Key(q) = k /\ e[q].results[c] = q /\ e[q].put = "done"

\* What a document may gain in a write: it was read in the last second of its
\* lifetime at the latest.
Span == EnrichTTL - 1

\* A document holds no errors, and expires a second after as many spans as there
\* were writes since its oldest check was fetched.
Stored ==
    \A k \in Keys : \A c \in Checks : \A q \in Values \ {None} :
        doc[k].vals[c] = q =>
            /\ Origin(q, c, k)
            /\ doc[k].ttl <= e[q].now + Span * Cardinality(writers) + 1

\* So does what a request has read of it.
ReadBy(r, c) ==
    \A q \in Values \ {None} :
        e[r].cached[c] = q =>
            /\ Origin(q, c, Key(r))
            /\ q # r
            /\ e[r].now <= e[q].now + Span * Cardinality(writers \ {r})
Read == \A r \in Requests : \A c \in Checks : ReadBy(r, c)

EnrichInv == EnrichTyped /\ Phases /\ Served /\ Stored /\ Read

-----------------------------------------------------------------------------
(* Facts about the operators                                               *)

LEMMA EnabledChecks == \A x : enabled(x) \subseteq Checks
  BY DEF enabled

LEMMA KeyOfRequest ==
    ASSUME rq \in LookupCases, NEW r \in Requests
    PROVE  Key(r) \in Keys
  BY DEF Key, Keys

\* merged keeps what was read unless there is a result, and stores no error.
LEMMA MergedFacts ==
    ASSUME NEW f \in FetchState
    PROVE  /\ merged(f) \in [Checks -> Values]
           /\ \A c \in Checks :
                 /\ merged(f)[c] \in {f.cached[c], f.results[c]}
                 /\ merged(f)[c] = Err => f.cached[c] = Err
  BY NoneErrAssumption DEF merged, FetchState, Values

LEMMA NoChecksType == NoChecks \in [Checks -> Values] /\ \A c \in Checks : NoChecks[c] = None
  BY DEF NoChecks, Values

LEMMA GetDocFacts ==
    ASSUME NEW d \in Doc, NEW now \in Nat
    PROVE  /\ GetDoc(d, now) \in [Checks -> Values]
           /\ \A c \in Checks : GetDoc(d, now)[c] # None =>
                 GetDoc(d, now)[c] = d.vals[c] /\ now < d.ttl
  BY NoChecksType DEF GetDoc, Doc

LEMMA Lifetimes ==
    /\ \A t, m, n \in Nat : m <= n => t * m <= t * n
    /\ \A t, n \in Nat : t * (n + 1) = t * n + t
    /\ \A t, n \in Nat : t * n \in Nat
<1>1. \A t, m, d \in Nat : t * m <= t * (m + d)
  <2>1. \A t, m, d \in Nat : t * (m + d) = t * m + t * d
    BY SMT
  <2>2. \A t, m, d \in Nat : t * d >= 0 /\ t * d \in Nat /\ t * m \in Nat
    BY SMT
  <2> QED
    BY <2>1, <2>2
<1>2. ASSUME NEW t \in Nat, NEW m \in Nat, NEW n \in Nat, m <= n
      PROVE  t * m <= t * n
  <2>1. n - m \in Nat /\ m + (n - m) = n
    BY <1>2
  <2> QED
    BY <1>1, <2>1
<1> QED
  BY <1>2

LEMMA SpanType == Span \in Nat /\ EnrichTTL = Span + 1
  BY EnrichTTLAssumption DEF Span

LEMMA WritersCount ==
    ASSUME NEW r
    PROVE  /\ IsFiniteSet(writers) /\ IsFiniteSet(writers \ {r})
           /\ Cardinality(writers) \in Nat /\ Cardinality(writers \ {r}) \in Nat
<1>1. writers \subseteq Requests /\ writers \ {r} \subseteq Requests
  BY DEF writers
<1> QED
  BY <1>1, RequestsAssumption, FS_Subset, FS_CardinalityType

-----------------------------------------------------------------------------
(* EnrichInv is inductive                                                  *)

\* What a step of one request leaves alone while it is not a write.
LEMMA OtherRequests ==
    ASSUME EnrichInv, NEW r \in Requests, UNCHANGED <<rq, doc>>,
           e[r].put # "done", e'[r].put # "done",
           \A q \in Requests \ {r} : e'[q] = e[q]
    PROVE  /\ writers' = writers
           /\ \A q, c, k : Origin(q, c, k) => Origin(q, c, k)' /\ e'[q] = e[q] /\ q # r
           /\ Stored'
           /\ \A q \in Requests \ {r} : \A c \in Checks : ReadBy(q, c)'
<1>1. writers' = writers
  BY DEF writers
<1>2. \A q, c, k : Origin(q, c, k) => Origin(q, c, k)' /\ e'[q] = e[q] /\ q # r
  BY DEF Origin, Key
<1>3. Stored'
  <2> SUFFICES ASSUME NEW k \in Keys, NEW c \in Checks, NEW q \in Values \ {None},
                      doc[k].vals[c] = q
               PROVE  /\ Origin(q, c, k)'
                      /\ doc[k].ttl <= e'[q].now + Span * Cardinality(writers) + 1
    BY <1>1 DEF Stored, Keys, Span
  <2>1. /\ Origin(q, c, k)
        /\ doc[k].ttl <= e[q].now + Span * Cardinality(writers) + 1
    BY DEF EnrichInv, Stored
  <2> QED
    BY <1>2, <2>1
<1>4. ASSUME NEW q \in Requests \ {r}, NEW c \in Checks
      PROVE  ReadBy(q, c)'
  <2>1. ReadBy(q, c) /\ e'[q] = e[q] /\ Key(q)' = Key(q)
    BY DEF EnrichInv, Read, Key
  <2> QED
    BY <1>1, <1>2, <2>1 DEF ReadBy, Span
<1> QED
  BY <1>1, <1>2, <1>3, <1>4

\* What a request keeps of the invariant while others move.
LEMMA OthersKeep ==
    ASSUME EnrichInv, NEW r \in Requests, UNCHANGED rq,
           \A q \in Requests \ {r} : e'[q] = e[q], PhaseOf(r)', ServedOf(r)'
    PROVE  Phases' /\ Served'
<1>1. ASSUME NEW q \in Requests \ {r} PROVE PhaseOf(q)' /\ ServedOf(q)'
  <2>1. PhaseOf(q) /\ ServedOf(q) /\ e'[q] = e[q]
    BY DEF EnrichInv, Phases, Served
  <2> QED
    BY <2>1 DEF PhaseOf, ServedOf
<1> QED
  BY <1>1 DEF Phases, Served

\* A step of the fan-out: neither a read nor a write of the document.
LEMMA FanOutKeeps ==
    ASSUME EnrichInv, NEW r \in Requests, UNCHANGED <<rq, clock, doc>>,
           e' \in [Requests -> FetchState],
           \A q \in Requests \ {r} : e'[q] = e[q],
           e[r].put # "done", e'[r].put # "done",
           e'[r].now = e[r].now, e'[r].cached = e[r].cached,
           PhaseOf(r)', ServedOf(r)'
    PROVE  EnrichInv'
<1>1. EnrichTyped'
  BY DEF EnrichInv, EnrichTyped, Keys
<1>2. Phases' /\ Served'
  BY OthersKeep
<1>3. /\ writers' = writers
      /\ \A q, c, k : Origin(q, c, k) => Origin(q, c, k)' /\ e'[q] = e[q] /\ q # r
      /\ Stored' /\ \A q \in Requests \ {r} : \A c \in Checks : ReadBy(q, c)'
  BY OtherRequests
<1>4. ASSUME NEW c \in Checks
      PROVE  ReadBy(r, c)'
  <2>1. ReadBy(r, c) /\ Key(r)' = Key(r)
    BY DEF EnrichInv, Read, Key
  <2> QED
    BY <1>3, <2>1 DEF ReadBy, Span
<1>5. Read'
  BY <1>3, <1>4 DEF Read
<1> QED
  BY <1>1, <1>2, <1>3, <1>5 DEF EnrichInv

LEMMA FetchKeeps ==
    ASSUME EnrichInv, NEW r \in Requests, Fetch(r), UNCHANGED <<rq, clock>>
    PROVE  EnrichInv'
<1>0. /\ EnrichTyped /\ PhaseOf(r) /\ UNCHANGED doc
      /\ e[r].phase = "start" /\ e[r].put = "none"
      /\ e[r].cached = NoChecks /\ e[r].results = NoChecks
      /\ e[r].running = {} /\ e[r].mu = "free" /\ e[r] \in FetchState
  BY DEF EnrichInv, EnrichTyped, Phases, PhaseOf, Fetch, FetchState
<1>2. /\ \A q \in Requests \ {r} : e'[q] = e[q]
      /\ e'[r].now = clock /\ e'[r].put = "none" /\ e'[r].cached = NoChecks
      /\ e'[r].results = NoChecks /\ e'[r].running = {} /\ e'[r].mu = "free"
      /\ \/ e'[r].phase = "reading" /\ e'[r].left = {}
         \/ e'[r].phase = "calls" /\ e'[r].left = enabled(rq[r])
      /\ e' \in [Requests -> FetchState]
  BY <1>0, EnabledChecks DEF Fetch, EnrichTyped, FetchState, PhaseOf
<1>3. EnrichTyped'
  BY <1>0, <1>2 DEF EnrichTyped, Keys
<1>4. PhaseOf(r)'
  BY <1>2 DEF PhaseOf
<1>5. ServedOf(r)'
  BY <1>2, NoChecksType, NoneErrAssumption DEF ServedOf
<1>6. Stored' /\ \A q \in Requests \ {r} : \A c \in Checks : ReadBy(q, c)'
  BY <1>0, <1>2, OtherRequests
<1>7. \A c \in Checks : ReadBy(r, c)'
  BY <1>2, NoChecksType DEF ReadBy
<1>8. Read' /\ Phases' /\ Served'
  BY <1>2, <1>4, <1>5, <1>6, <1>7, OthersKeep DEF Read
<1> QED
  BY <1>3, <1>6, <1>8 DEF EnrichInv

LEMMA ReadDocKeeps ==
    ASSUME EnrichInv, NEW r \in Requests, ReadDoc(r), UNCHANGED <<rq, clock>>
    PROVE  EnrichInv'
<1>0. /\ EnrichTyped /\ Stored /\ UNCHANGED doc
      /\ e[r].phase = "reading" /\ e[r].put = "none" /\ r \notin writers
      /\ e[r].results = NoChecks /\ e[r].running = {} /\ e[r].mu = "free"
      /\ e[r] \in FetchState /\ e[r].now \in Nat
      /\ Key(r) \in Keys /\ doc[Key(r)] \in Doc
  BY KeyOfRequest DEF EnrichInv, EnrichTyped, Phases, PhaseOf, ReadDoc, FetchState, writers
<1>1. PICK cached \in {NoChecks, GetDoc(doc[Key(r)], e[r].now)} :
         e' = [e EXCEPT ![r].phase = "calls", ![r].cached = cached,
                        ![r].left = enabled(rq[r])]
  BY DEF ReadDoc
<1>2. cached \in [Checks -> Values]
  BY <1>0, <1>1, GetDocFacts, NoChecksType
<1>3. ASSUME NEW c \in Checks, NEW q \in Values \ {None}, cached[c] = q
      PROVE  /\ Origin(q, c, Key(r)) /\ q \in Requests /\ q # r
             /\ e[r].now <= e[q].now + Span * Cardinality(writers)
  <2>1. q = doc[Key(r)].vals[c] /\ e[r].now < doc[Key(r)].ttl
    BY <1>0, <1>1, <1>3, GetDocFacts, NoChecksType
  <2>2. /\ Origin(q, c, Key(r))
        /\ doc[Key(r)].ttl <= e[q].now + Span * Cardinality(writers) + 1
    BY <1>0, <2>1 DEF Stored
  <2>3. q \in Requests /\ q # r /\ e[q].now \in Nat
    BY <1>0, <2>2 DEF Origin, EnrichTyped, FetchState
  <2>4. doc[Key(r)].ttl \in Nat /\ Span * Cardinality(writers) \in Nat
    BY <1>0, WritersCount, SpanType, Lifetimes DEF Doc
  <2> QED
    BY <1>0, <2>1, <2>2, <2>3, <2>4
<1>5. /\ \A q \in Requests \ {r} : e'[q] = e[q]
      /\ e'[r].now = e[r].now /\ e'[r].put = "none" /\ e'[r].cached = cached
      /\ e'[r].phase = "calls" /\ e'[r].results = NoChecks
      /\ e'[r].left = enabled(rq[r]) /\ e'[r].running = {} /\ e'[r].mu = "free"
      /\ e' \in [Requests -> FetchState]
  BY <1>0, <1>1, <1>2, EnabledChecks DEF EnrichTyped, FetchState
<1>6. EnrichTyped'
  BY <1>0, <1>5 DEF EnrichTyped, Keys
<1>7. PhaseOf(r)'
  BY <1>5 DEF PhaseOf
<1>8. ServedOf(r)'
  BY <1>5, NoChecksType, NoneErrAssumption DEF ServedOf
<1>9. /\ writers' = writers
      /\ \A q, c, k : Origin(q, c, k) => Origin(q, c, k)' /\ e'[q] = e[q] /\ q # r
      /\ Stored' /\ \A q \in Requests \ {r} : \A c \in Checks : ReadBy(q, c)'
  BY <1>0, <1>5, OtherRequests
<1>10. ASSUME NEW c \in Checks
       PROVE  ReadBy(r, c)'
  <2>1. writers \ {r} = writers
    BY <1>0
  <2>2. \A q \in Values \ {None} : e'[r].cached[c] = q =>
           /\ Origin(q, c, Key(r))
           /\ q # r
           /\ e'[r].now <= e[q].now + Span * Cardinality(writers \ {r})
    BY <1>3, <1>5, <2>1
  <2>3. Key(r)' = Key(r)
    BY DEF Key
  <2> QED
    BY <1>9, <2>2, <2>3 DEF ReadBy, Span
<1>11. Read' /\ Phases' /\ Served'
  BY <1>5, <1>7, <1>8, <1>9, <1>10, OthersKeep DEF Read
<1> QED
  BY <1>6, <1>9, <1>11 DEF EnrichInv

\* The loop's two steps at a check.
LEMMA ServeKeeps ==
    ASSUME EnrichInv, NEW r \in Requests, NEW d \in Checks, Serve(r, d),
           UNCHANGED <<rq, clock>>
    PROVE  EnrichInv'
<1>0. /\ UNCHANGED doc /\ d \in e[r].left /\ PhaseOf(r) /\ ServedOf(r)
      /\ e \in [Requests -> FetchState] /\ e[r] \in FetchState
      /\ e[r].results \in [Checks -> Values] /\ e[r].cached \in [Checks -> Values]
      /\ \A c \in Checks : ReadBy(r, c)
  BY DEF EnrichInv, EnrichTyped, Phases, Served, Read, Serve, Visits, FetchState
<1>1. e[r].phase = "calls" /\ e[r].put = "none"
  BY <1>0 DEF PhaseOf, FetchState
<1>2. PICK v : /\ v = IF e[r].cached[d] # None THEN e[r].cached[d] ELSE Err
               /\ e' = [e EXCEPT ![r].left = @ \ {d}, ![r].results[d] = v]
  BY DEF Serve
<1>3. v \in Values /\ v # None /\ (v = Err => e[r].cached[d] = None)
      /\ (v = Err \/ v = e[r].cached[d])
  <2>1. e[r].cached[d] # Err
    BY <1>0, NoneErrAssumption DEF ReadBy, Origin, Values
  <2> QED
    BY <1>0, <1>2, <2>1, NoneErrAssumption DEF Values
<1>4. /\ \A q \in Requests \ {r} : e'[q] = e[q]
      /\ e'[r].now = e[r].now /\ e'[r].put = "none" /\ e'[r].cached = e[r].cached
      /\ e'[r].phase = "calls" /\ e'[r].mu = e[r].mu /\ e'[r].running = e[r].running
      /\ e'[r].left = e[r].left \ {d}
      /\ e'[r].results = [e[r].results EXCEPT ![d] = v]
      /\ e' \in [Requests -> FetchState]
  BY <1>0, <1>1, <1>2, <1>3 DEF FetchState
<1>5. PhaseOf(r)'
  BY <1>0, <1>4 DEF PhaseOf
<1>6. ServedOf(r)'
  <2> SUFFICES ASSUME NEW c \in Checks
               PROVE  LET f == e'[r] IN
        /\ f.results[c] # None => c \in enabled(rq[r])
        /\ f.results[c] \in Requests => f.results[c] = r \/ f.results[c] = f.cached[c]
        /\ f.results[c] = Err => f.cached[c] = None
        /\ f.cached[c] # None => f.results[c] \in {None, f.cached[c]}
        /\ c \in f.left \cup f.running => c \in enabled(rq[r]) /\ f.results[c] = None
        /\ c \in f.running => f.cached[c] = None
        /\ f.phase \in {"calls", "done"} /\ c \in enabled(rq[r]) /\ f.results[c] = None =>
              c \in f.left \cup f.running
    BY DEF ServedOf
  <2>1. CASE c # d
    BY <2>1, <1>0, <1>1, <1>4 DEF ServedOf
  <2>2. CASE c = d
    <3>1. d \in enabled(rq[r]) /\ e'[r].results[d] = v /\ d \notin e'[r].left
      BY <1>0, <1>4 DEF ServedOf
    <3>2. d \notin e[r].running
      BY <1>0 DEF PhaseOf
    <3> QED
      BY <2>2, <3>1, <3>2, <1>3, <1>4, NoneErrAssumption
  <2> QED
    BY <2>1, <2>2
<1> QED
  BY <1>0, <1>1, <1>4, <1>5, <1>6, FanOutKeeps

LEMMA SpawnKeeps ==
    ASSUME EnrichInv, NEW r \in Requests, NEW d \in Checks, Spawn(r, d),
           UNCHANGED <<rq, clock>>
    PROVE  EnrichInv'
<1>0. /\ UNCHANGED doc /\ d \in e[r].left /\ PhaseOf(r) /\ ServedOf(r)
      /\ e[r].cached[d] = None
      /\ e \in [Requests -> FetchState] /\ e[r] \in FetchState
  BY DEF EnrichInv, EnrichTyped, Phases, Served, Spawn, Visits, answeredByLoop
<1>1. e[r].phase = "calls" /\ e[r].put = "none"
  BY <1>0 DEF PhaseOf, FetchState
<1>2. /\ \A q \in Requests \ {r} : e'[q] = e[q]
      /\ e'[r].now = e[r].now /\ e'[r].put = "none" /\ e'[r].cached = e[r].cached
      /\ e'[r].phase = "calls" /\ e'[r].mu = e[r].mu /\ e'[r].results = e[r].results
      /\ e'[r].left = e[r].left \ {d} /\ e'[r].running = e[r].running \cup {d}
      /\ e' \in [Requests -> FetchState]
  BY <1>0, <1>1 DEF Spawn, FetchState
<1>3. PhaseOf(r)'
  BY <1>0, <1>2 DEF PhaseOf
<1>4. ServedOf(r)'
  BY <1>0, <1>1, <1>2 DEF ServedOf
<1> QED
  BY <1>0, <1>1, <1>2, <1>3, <1>4, FanOutKeeps

\* A goroutine's two steps.
LEMMA LockKeeps ==
    ASSUME EnrichInv, NEW r \in Requests, NEW d \in Checks, Lock(r, d),
           UNCHANGED <<rq, clock>>
    PROVE  EnrichInv'
<1>0. /\ UNCHANGED doc /\ d \in e[r].running /\ PhaseOf(r) /\ ServedOf(r)
      /\ e \in [Requests -> FetchState] /\ e[r] \in FetchState
  BY DEF EnrichInv, EnrichTyped, Phases, Served, Lock
<1>1. e[r].phase = "calls" /\ e[r].put = "none"
  BY <1>0 DEF PhaseOf, FetchState
<1>2. /\ \A q \in Requests \ {r} : e'[q] = e[q]
      /\ e'[r].now = e[r].now /\ e'[r].put = "none" /\ e'[r].cached = e[r].cached
      /\ e'[r].phase = "calls" /\ e'[r].mu = d /\ e'[r].results = e[r].results
      /\ e'[r].left = e[r].left /\ e'[r].running = e[r].running
      /\ e' \in [Requests -> FetchState]
  BY <1>0, <1>1 DEF Lock, FetchState
<1>3. PhaseOf(r)'
  BY <1>0, <1>2 DEF PhaseOf
<1>4. ServedOf(r)'
  BY <1>0, <1>1, <1>2 DEF ServedOf
<1> QED
  BY <1>0, <1>1, <1>2, <1>3, <1>4, FanOutKeeps

LEMMA CheckKeeps ==
    ASSUME EnrichInv, NEW r \in Requests, NEW d \in Checks, Check(r, d),
           UNCHANGED <<rq, clock>>
    PROVE  EnrichInv'
<1>0. /\ UNCHANGED doc /\ e[r].mu = d /\ d # "free" /\ PhaseOf(r) /\ ServedOf(r)
      /\ e \in [Requests -> FetchState] /\ e[r] \in FetchState
      /\ e[r].results \in [Checks -> Values]
  BY DEF EnrichInv, EnrichTyped, Phases, Served, Check, FetchState, Checks
<1>1. e[r].phase = "calls" /\ e[r].put = "none" /\ d \in e[r].running
  BY <1>0 DEF PhaseOf, FetchState
<1>2. PICK v \in {r, Err} : e' = [e EXCEPT ![r].results[d] = v,
                                   ![r].running = @ \ {d}, ![r].mu = "free"]
  BY DEF Check, callCheck
<1>3. /\ \A q \in Requests \ {r} : e'[q] = e[q]
      /\ e'[r].now = e[r].now /\ e'[r].put = "none" /\ e'[r].cached = e[r].cached
      /\ e'[r].phase = "calls" /\ e'[r].mu = "free" /\ e'[r].left = e[r].left
      /\ e'[r].running = e[r].running \ {d}
      /\ e'[r].results = [e[r].results EXCEPT ![d] = v]
      /\ e' \in [Requests -> FetchState]
  BY <1>0, <1>1, <1>2 DEF FetchState, Values
<1>4. PhaseOf(r)'
  BY <1>0, <1>3 DEF PhaseOf
<1>5. ServedOf(r)'
  <2> SUFFICES ASSUME NEW c \in Checks
               PROVE  LET f == e'[r] IN
        /\ f.results[c] # None => c \in enabled(rq[r])
        /\ f.results[c] \in Requests => f.results[c] = r \/ f.results[c] = f.cached[c]
        /\ f.results[c] = Err => f.cached[c] = None
        /\ f.cached[c] # None => f.results[c] \in {None, f.cached[c]}
        /\ c \in f.left \cup f.running => c \in enabled(rq[r]) /\ f.results[c] = None
        /\ c \in f.running => f.cached[c] = None
        /\ f.phase \in {"calls", "done"} /\ c \in enabled(rq[r]) /\ f.results[c] = None =>
              c \in f.left \cup f.running
    BY DEF ServedOf
  <2>1. CASE c # d
    BY <2>1, <1>0, <1>1, <1>3 DEF ServedOf
  <2>2. CASE c = d
    <3>1. /\ d \in enabled(rq[r]) /\ e[r].cached[d] = None
          /\ e'[r].results[d] = v /\ d \notin e'[r].running
      BY <1>0, <1>1, <1>3 DEF ServedOf
    <3>2. d \notin e[r].left
      BY <1>0, <1>1 DEF PhaseOf
    <3> QED
      BY <2>2, <3>1, <3>2, <1>2, <1>3, NoneErrAssumption
  <2> QED
    BY <2>1, <2>2
<1> QED
  BY <1>0, <1>1, <1>3, <1>4, <1>5, FanOutKeeps

LEMMA JoinKeeps ==
    ASSUME EnrichInv, NEW r \in Requests, Join(r), UNCHANGED <<rq, clock>>
    PROVE  EnrichInv'
<1>0. /\ UNCHANGED doc /\ PhaseOf(r) /\ ServedOf(r)
      /\ e[r].phase = "calls" /\ e[r].put = "none" /\ e[r] \in FetchState
      /\ e[r].left = {} /\ e[r].running = {} /\ e[r].mu = "free"
      /\ e \in [Requests -> FetchState]
  BY DEF EnrichInv, EnrichTyped, Phases, PhaseOf, Served, Join, FetchState
<1>1. /\ \A q \in Requests \ {r} : e'[q] = e[q]
      /\ e'[r].now = e[r].now /\ e'[r].cached = e[r].cached
      /\ e'[r].results = e[r].results /\ e'[r].left = {} /\ e'[r].running = {}
      /\ e'[r].mu = "free"
      /\ e'[r].phase = "done" /\ e'[r].put \in {"none", "pending"}
      /\ e' \in [Requests -> FetchState]
  BY <1>0 DEF Join, FetchState
<1>2. PhaseOf(r)'
  BY <1>1 DEF PhaseOf
<1>3. ServedOf(r)'
  BY <1>0, <1>1 DEF ServedOf
<1> QED
  BY <1>0, <1>1, <1>2, <1>3, FanOutKeeps

\* A write adds one to the writers and one lifetime to what was read.
LEMMA PutDocKeeps ==
    ASSUME EnrichInv, NEW r \in Requests, PutDoc(r), UNCHANGED <<rq, clock>>
    PROVE  EnrichInv'
<1> DEFINE new == [vals |-> merged(e[r]), ttl |-> e[r].now + EnrichTTL]
           n == Cardinality(writers)
<1>0. /\ EnrichTyped /\ Phases /\ Served /\ Stored /\ Read
      /\ e[r].put = "pending" /\ e[r].phase = "done" /\ e[r] \in FetchState
      /\ e[r].now \in Nat /\ Span \in Nat /\ EnrichTTL = Span + 1 /\ Key(r) \in Keys
  BY KeyOfRequest, SpanType
     DEF EnrichInv, EnrichTyped, Phases, PhaseOf, PutDoc, FetchState
<1>1. /\ \A q \in Requests \ {r} : e'[q] = e[q]
      /\ \A q \in Requests : /\ e'[q].now = e[q].now /\ e'[q].cached = e[q].cached
                             /\ e'[q].results = e[q].results /\ e'[q].phase = e[q].phase
                             /\ e'[q].left = e[q].left /\ e'[q].running = e[q].running
                             /\ e'[q].mu = e[q].mu
                             /\ e'[q].now \in Nat
      /\ e'[r].put = "done"
      /\ e' \in [Requests -> FetchState]
  BY <1>0 DEF PutDoc, EnrichTyped, FetchState
<1>2. /\ new \in Doc
      /\ \A c \in Checks : merged(e[r])[c] \in {e[r].cached[c], e[r].results[c]}
      /\ \A c \in Checks : merged(e[r])[c] = Err => e[r].cached[c] = Err
  BY <1>0, MergedFacts DEF Doc
<1>3. \/ doc' = doc
      \/ doc' = [doc EXCEPT ![Key(r)] = new]
  BY DEF PutDoc
<1>4. EnrichTyped'
  BY <1>0, <1>1, <1>2, <1>3 DEF EnrichTyped, Keys
<1>5. Phases'
  BY <1>0, <1>1 DEF Phases, PhaseOf
<1>6. Served'
  BY <1>0, <1>1 DEF Served, ServedOf
<1>7. writers' = writers \cup {r} /\ r \notin writers
  BY <1>0, <1>1 DEF writers
<1>8. n \in Nat /\ Cardinality(writers') = n + 1
  BY <1>7, WritersCount, FS_AddElement
<1>9. \A q, c, k : Origin(q, c, k) => Origin(q, c, k)' /\ e'[q] = e[q]
  BY <1>0, <1>1 DEF Origin, Key
<1>10. Span * Cardinality(writers') = Span * n + Span
       /\ Span * n \in Nat
  BY <1>0, <1>8, Lifetimes
<1>11. ASSUME NEW c \in Checks, NEW q \in Values \ {None}, merged(e[r])[c] = q
       PROVE  /\ Origin(q, c, Key(r))'
              /\ new.ttl <= e'[q].now + Span * Cardinality(writers') + 1
  <2>0. /\ ReadBy(r, c) /\ Key(r)' = Key(r)
        /\ q \in {e[r].cached[c], e[r].results[c]}
        /\ q = Err => e[r].cached[c] = Err
    BY <1>0, <1>2, <1>11 DEF Read, Key
  <2>1. CASE q = r
    <3>1. e[r].results[c] = r
      BY <2>0, <2>1 DEF ReadBy
    <3>2. Origin(r, c, Key(r))'
      BY <1>1, <2>0, <3>1 DEF Origin
    <3> QED
      BY <1>0, <1>1, <1>10, <2>1, <3>2
  <2>2. CASE q # r
    <3>1. q = e[r].cached[c]
      <4>1. q \in Requests
        BY <2>0, NoneErrAssumption DEF ReadBy, Origin, Values
      <4> QED
        BY <1>0, <2>0, <2>2, <4>1 DEF Served, ServedOf
    <3>2. /\ Origin(q, c, Key(r)) /\ q \in Requests
          /\ e[r].now <= e[q].now + Span * Cardinality(writers \ {r})
      BY <2>0, <3>1 DEF ReadBy, Origin
    <3>3. writers \ {r} = writers
      BY <1>7
    <3>4. Origin(q, c, Key(r))' /\ e'[q] = e[q] /\ e[q].now \in Nat
      BY <1>0, <1>9, <2>0, <3>2 DEF EnrichTyped, FetchState
    <3>5. e[r].now <= e[q].now + Span * n
      BY <3>2, <3>3
    <3>6. \A a, b, x, t \in Nat : a <= b + x => a + (t + 1) <= b + (x + t) + 1
      OBVIOUS
    <3>7. e[r].now + EnrichTTL <= e[q].now + (Span * n + Span) + 1
      BY <1>0, <1>10, <3>4, <3>5, <3>6
    <3> QED
      BY <1>10, <3>4, <3>7
  <2> QED
    BY <2>1, <2>2
<1>12. ASSUME NEW k \in Keys, NEW c \in Checks, NEW q \in Values \ {None},
              doc'[k].vals[c] = q
       PROVE  /\ Origin(q, c, k)'
              /\ doc'[k].ttl <= e'[q].now + Span * Cardinality(writers') + 1
  <2>1. CASE doc'[k] = doc[k]
    <3>1. /\ Origin(q, c, k)
          /\ doc[k].ttl <= e[q].now + Span * n + 1
      BY <1>0, <1>12, <2>1 DEF Stored
    <3>2. /\ Origin(q, c, k)' /\ e'[q] = e[q]
          /\ doc[k].ttl \in Nat /\ e[q].now \in Nat
      BY <1>0, <1>9, <3>1 DEF EnrichTyped, Doc, FetchState, Origin
    <3> QED
      BY <1>0, <1>10, <2>1, <3>1, <3>2
  <2>2. CASE doc'[k] # doc[k]
    <3>1. k = Key(r) /\ doc'[k] = new
      BY <1>0, <1>3, <2>2 DEF EnrichTyped
    <3>2. merged(e[r])[c] = q /\ Key(r)' = Key(r)
      BY <1>12, <3>1 DEF Key
    <3> QED
      BY <1>11, <3>1, <3>2
  <2> QED
    BY <2>1, <2>2
<1>13. Stored'
  BY <1>12 DEF Stored, Keys, Span
<1>14. ASSUME NEW q \in Requests, NEW c \in Checks
       PROVE  ReadBy(q, c)'
  <2>1. ReadBy(q, c) /\ Key(q)' = Key(q)
    BY <1>0 DEF Read, Key
  <2>2. /\ writers \ {q} \subseteq writers' \ {q}
        /\ IsFiniteSet(writers' \ {q})
    BY <1>7, WritersCount, FS_AddElement, FS_Subset
  <2>3. /\ Cardinality(writers \ {q}) <= Cardinality(writers' \ {q})
        /\ Cardinality(writers \ {q}) \in Nat /\ Cardinality(writers' \ {q}) \in Nat
    BY <2>2, FS_Subset, FS_CardinalityType
  <2>4. /\ Span * Cardinality(writers \ {q}) <= Span * Cardinality(writers' \ {q})
        /\ Span * Cardinality(writers \ {q}) \in Nat
        /\ Span * Cardinality(writers' \ {q}) \in Nat
    BY <1>0, <2>3, Lifetimes
  <2>5. ASSUME NEW o \in Values \ {None}, e[q].cached[c] = o
        PROVE  /\ Origin(o, c, Key(q))'
               /\ o # q
               /\ e'[q].now <= e'[o].now + Span * Cardinality(writers' \ {q})
    <3>1. /\ Origin(o, c, Key(q)) /\ o # q /\ o \in Requests
          /\ e[q].now <= e[o].now + Span * Cardinality(writers \ {q})
      BY <2>1, <2>5 DEF ReadBy, Origin
    <3>2. /\ e[q].now \in Nat /\ e[o].now \in Nat /\ e'[q].now = e[q].now
      BY <1>0, <1>1, <3>1 DEF EnrichTyped, FetchState
    <3>3. Origin(o, c, Key(q))' /\ e'[o] = e[o]
      BY <1>9, <2>1, <3>1
    <3> QED
      BY <2>4, <3>1, <3>2, <3>3
  <2> QED
    BY <1>1, <2>5 DEF ReadBy, Span
<1>15. Read'
  BY <1>14 DEF Read
<1> QED
  BY <1>4, <1>5, <1>6, <1>13, <1>15 DEF EnrichInv

LEMMA EnrichInitially == Init => EnrichInv
<1> SUFFICES ASSUME Init PROVE EnrichInv
  OBVIOUS
<1>1. EnrichTyped
  BY NoChecksType DEF Init, EnrichInit, EnrichTyped, Doc, NoDoc, FetchState, NewFetch
<1>2. \A r \in Requests : /\ e[r].cached = NoChecks /\ e[r].results = NoChecks
                          /\ e[r].put = "none" /\ e[r].left = {} /\ e[r].running = {}
                          /\ e[r].mu = "free" /\ e[r].phase # "calls"
                          /\ e[r].phase = "done" => enabled(rq[r]) = {}
  BY DEF Init, EnrichInit, NewFetch
<1>3. Phases /\ Served /\ Read
  BY <1>2, NoChecksType, NoneErrAssumption
     DEF Phases, PhaseOf, Served, ServedOf, Read, ReadBy
<1>4. Stored
  BY NoChecksType DEF Init, EnrichInit, Stored, NoDoc
<1> QED
  BY <1>1, <1>3, <1>4 DEF EnrichInv

\* Steps of the clock and of the meta lanes.
LEMMA EnrichIdle ==
    ASSUME EnrichInv, UNCHANGED <<rq, doc, e>>, clock' \in Nat
    PROVE  EnrichInv'
<1>1. EnrichTyped' /\ Phases' /\ Served'
  BY DEF EnrichInv, EnrichTyped, Phases, PhaseOf, Served, ServedOf, Keys
<1>2. writers' = writers /\ \A q, c, k : Origin(q, c, k)' <=> Origin(q, c, k)
  BY DEF writers, Origin, Key
<1>3. Stored'
  BY <1>2 DEF EnrichInv, Stored, Keys, Values, Span
<1>4. \A r : Key(r)' = Key(r)
  BY DEF Key
<1>5. Read'
  BY <1>2, <1>4 DEF EnrichInv, Read, ReadBy, Span
<1> QED
  BY <1>1, <1>3, <1>5 DEF EnrichInv

LEMMA EnrichInductive == EnrichInv /\ [Next]_vars => EnrichInv'
<1> SUFFICES ASSUME EnrichInv, [Next]_vars PROVE EnrichInv'
  OBVIOUS
<1>1. ASSUME NEW r \in Requests, Enrich(r) PROVE EnrichInv'
  <2>0. UNCHANGED <<rq, clock>> /\ EnrichStep(r) /\ clock \in Nat
    BY <1>1 DEF Enrich, EnrichInv, EnrichTyped
  <2>1. CASE \E c \in Checks : ConcurrentWrite(r, c)
    BY <2>0, <2>1, EnrichIdle DEF ConcurrentWrite
  <2>2. CASE \E c \in Checks : Serve(r, c) \/ Spawn(r, c) \/ Lock(r, c) \/ Check(r, c)
    BY <2>0, <2>2, ServeKeeps, SpawnKeeps, LockKeeps, CheckKeeps
  <2> QED
    BY <2>0, <2>1, <2>2, FetchKeeps, ReadDocKeeps, JoinKeeps, PutDocKeeps
       DEF EnrichStep, FetchStep
<1>2. ASSUME Tick \/ (\E l \in Lanes : Meta(l)) \/ UNCHANGED vars PROVE EnrichInv'
  <2>1. UNCHANGED <<rq, doc, e>> /\ clock' \in {clock, clock + 1}
    BY <1>2 DEF Tick, Meta, vars, enrichVars
  <2>2. clock' \in Nat
    BY <2>1 DEF EnrichInv, EnrichTyped
  <2> QED
    BY <2>1, <2>2, EnrichIdle
<1> QED
  BY <1>1, <1>2 DEF Next

\* What the theorems about the common_data lane rest on.
LEMMA EnrichInvariant == Spec => []EnrichInv
  BY EnrichInitially, EnrichInductive, PTL DEF Spec

\* However often requests of other tenants write a document back, a check that
\* Fetch serves from it was fetched at most a lifetime, less a second, per write
\* ago.
THEOREM ServedAgeIsBounded == Spec => []AgeBounded
<1>1. EnrichInv => AgeBounded
  <2> SUFFICES ASSUME EnrichInv, NEW r \in Requests, NEW c \in Checks,
                      NEW by \in Requests \ {r}, e[r].results[c] = by
               PROVE  e[r].now <= e[by].now + (EnrichTTL - 1) * Cardinality(writers \ {r})
    BY DEF AgeBounded
  <2>1. e[r].cached[c] = by
    BY DEF EnrichInv, Served, ServedOf
  <2> QED
    BY <2>1, NoneErrAssumption DEF EnrichInv, Read, ReadBy, Values, Span
<1> QED
  BY <1>1, EnrichInvariant, PTL

\* A write that does not overlap another keeps every check of the document,
\* whichever checks its own tenant asks for.
THEOREM MergeLosesNothing == Spec => NoCheckLost
<1>1. ASSUME EnrichInv, [Next]_vars, NEW r \in Requests,
             e[r].put = "pending", e'[r].put = "done", doc' # doc,
             e[r].cached = doc[Key(r)].vals,
             NEW c \in Checks, doc[Key(r)].vals[c] # None
      PROVE  doc'[Key(r)].vals[c] = doc[Key(r)].vals[c]
  <2>1. e[r].phase = "done" /\ e[r] \in FetchState /\ doc \in [Keys -> Doc] /\ Key(r) \in Keys
    BY <1>1, KeyOfRequest DEF EnrichInv, EnrichTyped, Phases, PhaseOf
  <2>2. PutDoc(r)
    <3>1. PICK q \in Requests : EnrichStep(q)
      BY <1>1 DEF Next, Tick, Meta, Enrich, vars, enrichVars
    <3>2. PutDoc(q)
      BY <1>1, <3>1 DEF EnrichStep, FetchStep, Fetch, ReadDoc, Serve, Spawn, Lock, Check,
                        Join, ConcurrentWrite
    <3>3. q = r
      BY <1>1, <3>2 DEF PutDoc, EnrichInv, EnrichTyped
    <3> QED
      BY <3>2, <3>3
  <2>3. doc'[Key(r)].vals = merged(e[r])
    BY <1>1, <2>1, <2>2 DEF PutDoc
  <2>4. e[r].results[c] = e[r].cached[c] \/ e[r].results[c] = None
    BY <1>1 DEF EnrichInv, Served, ServedOf
  <2>5. merged(e[r])[c] = e[r].cached[c]
    BY <2>4 DEF merged
  <2> QED
    BY <1>1, <2>3, <2>5
<1>2. EnrichInv /\ [Next]_vars =>
         [\A r \in Requests :
             /\ e[r].put = "pending" /\ e'[r].put = "done" /\ doc' # doc
             /\ e[r].cached = doc[Key(r)].vals
             => \A c \in Checks : doc[Key(r)].vals[c] # None
                                   => doc'[Key(r)].vals[c] = doc[Key(r)].vals[c]]_enrichVars
  BY <1>1
<1> QED
  BY <1>2, EnrichInvariant, PTL DEF Spec, NoCheckLost

-----------------------------------------------------------------------------
(* The common_data lane keeps the promise of a lookup                      *)

LEMMA FactsOfCalls ==
    \A t : t \in enrichFacts <=>
        \E q \in Requests : \E c \in Checks :
            e[q].results[c] = q /\ t = <<Key(q), c, q>>
<1>1. ASSUME NEW q \in Requests, NEW c \in Checks, e[q].results[c] = q
      PROVE  <<Key(q), c, q>> \in enrichFacts
  <2>1. <<q, c>> \in {p \in Requests \X Checks : e[p[1]].results[p[2]] = p[1]}
    BY <1>1
  <2> QED
    BY <2>1 DEF enrichFacts
<1>2. ASSUME NEW t \in enrichFacts
      PROVE  \E q \in Requests : \E c \in Checks :
                e[q].results[c] = q /\ t = <<Key(q), c, q>>
  <2>1. PICK p \in Requests \X Checks :
           e[p[1]].results[p[2]] = p[1] /\ t = <<Key(p[1]), p[2], p[1]>>
    BY DEF enrichFacts
  <2> QED
    BY <2>1
<1> QED
  BY <1>1, <1>2

\* A step of one request that is not its Join changes no other answer.
LEMMA OthersSettled ==
    ASSUME EnrichInv, NEW r \in Requests, UNCHANGED rq,
           e[r].phase # "done", e'[r].phase # "done",
           \A q \in Requests \ {r} : e'[q] = e[q]
    PROVE  /\ enrichAsked' = enrichAsked /\ enrichAnswered' = enrichAnswered
           /\ r \notin enrichAnswered /\ Promise!Settled
<1>1. enrichAsked' = enrichAsked
  BY DEF enrichAsked, Key
<1>2. enrichAnswered' = enrichAnswered /\ r \notin enrichAnswered
  BY DEF enrichAnswered
<1>3. \A q \in enrichAnswered : enrichAnswer'[q] = enrichAnswer[q]
  BY DEF enrichAnswered, enrichAnswer
<1> QED
  BY <1>1, <1>2, <1>3 DEF Promise!Settled

\* Steps that touch neither a result nor a phase.
LEMMA PromiseStutters ==
    ASSUME UNCHANGED rq,
           \A q \in Requests : /\ e'[q].results = e[q].results
                               /\ e'[q].cached = e[q].cached \/ e[q].results = NoChecks
                               /\ (e'[q].phase = "done" <=> e[q].phase = "done")
    PROVE  UNCHANGED Promise!promiseVars
<1>1. enrichAsked' = enrichAsked /\ enrichAnswer' = enrichAnswer
  BY DEF enrichAsked, enrichAnswer, Key
<1>2. enrichAnswered' = enrichAnswered
  BY DEF enrichAnswered
<1>3. enrichFacts' = enrichFacts
  BY DEF enrichFacts, Key
<1>4. enrichFailed' = enrichFailed
  BY NoChecksType, NoneErrAssumption DEF enrichFailed
<1> QED
  BY <1>1, <1>2, <1>3, <1>4 DEF Promise!promiseVars

\* Fetch and ReadDoc, the start of a goroutine and its lock are no news.
LEMMA QuietSteps ==
    ASSUME EnrichInv, NEW r \in Requests, UNCHANGED rq,
           \/ Fetch(r) \/ ReadDoc(r) \/ PutDoc(r)
           \/ \E c \in Checks : Spawn(r, c) \/ Lock(r, c) \/ ConcurrentWrite(r, c)
    PROVE  UNCHANGED Promise!promiseVars
<1>1. e \in [Requests -> FetchState] /\ PhaseOf(r)
  BY DEF EnrichInv, EnrichTyped, Phases
<1>2. CASE Fetch(r)
  BY <1>1, <1>2, PromiseStutters DEF Fetch, FetchState
<1>5. CASE PutDoc(r)
  BY <1>1, <1>5, PromiseStutters DEF PutDoc, FetchState
<1>6. ASSUME NEW c \in Checks, Spawn(r, c) \/ Lock(r, c) PROVE UNCHANGED Promise!promiseVars
  <2>1. \A q \in Requests : /\ e'[q].results = e[q].results /\ e'[q].cached = e[q].cached
                            /\ e'[q].phase = e[q].phase
    <3>1. CASE Spawn(r, c)
      BY <1>1, <3>1 DEF Spawn, FetchState
    <3>2. CASE Lock(r, c)
      BY <1>1, <3>2 DEF Lock, FetchState
    <3> QED
      BY <1>6, <3>1, <3>2
  <2> QED
    BY <2>1, PromiseStutters
<1>3. CASE ReadDoc(r)
  BY <1>1, <1>3, PromiseStutters DEF ReadDoc, FetchState, PhaseOf
<1>4. CASE \E c \in Checks : ConcurrentWrite(r, c)
  BY <1>1, <1>4, PromiseStutters DEF ConcurrentWrite
<1> QED
  BY <1>2, <1>3, <1>4, <1>5, <1>6

\* One more attempt of a request that waits has failed, or one more of its
\* results is known that is not news.
LEMMA NoNews ==
    ASSUME EnrichInv, NEW r \in Requests, NEW d \in Checks, UNCHANGED rq,
           d \in enabled(rq[r]), e[r].phase # "done", e'[r].phase # "done",
           e[r].results[d] = None, e'[r].results[d] # r, e'[r].cached = e[r].cached,
           \A c \in Checks \ {d} : e'[r].results[c] = e[r].results[c],
           \A q \in Requests \ {r} : e'[q] = e[q]
    PROVE  Promise!PromiseNext
<1> DEFINE I == {c \in {d} : e'[r].results[c] = Err /\ e[r].cached[c] = None}
<1>1. /\ enrichAsked' = enrichAsked /\ enrichAnswered' = enrichAnswered
      /\ r \notin enrichAnswered /\ Promise!Settled
  BY OthersSettled
<1>2. \A q \in Requests : \A c \in Checks :
         e'[q].results[c] = q <=> e[q].results[c] = q
  BY NoneErrAssumption
<1>3. enrichFacts' = enrichFacts
  BY <1>2 DEF enrichFacts, Key
<1>4. \A q \in Requests : \A c \in Checks :
         <<q, c>> \in enrichFailed' <=> <<q, c>> \in enrichFailed \/ (q = r /\ c \in I)
  <2> SUFFICES ASSUME NEW q \in Requests, NEW c \in Checks
               PROVE  (e'[q].results[c] = Err /\ e'[q].cached[c] = None) <=>
                      \/ e[q].results[c] = Err /\ e[q].cached[c] = None
                      \/ q = r /\ c \in I
    BY DEF enrichFailed
  <2> QED
    BY NoneErrAssumption
<1>5. enrichFailed \subseteq Requests \X Checks /\ enrichFailed' \subseteq Requests \X Checks
  BY DEF enrichFailed
<1>6. enrichFailed' = enrichFailed \cup {<<r, c>> : c \in I}
  BY <1>4, <1>5
<1>7. I \in SUBSET enrichAsked[r].items
  BY DEF enrichAsked
<1>8. Promise!Fail(r)
  BY <1>1, <1>3, <1>6, <1>7 DEF Promise!Fail
<1> QED
  BY <1>1, <1>8 DEF Promise!PromiseNext

LEMMA ServeKeepsPromise ==
    ASSUME EnrichInv, NEW r \in Requests, NEW d \in Checks, Serve(r, d), UNCHANGED rq
    PROVE  Promise!PromiseNext
<1>0. /\ e \in [Requests -> FetchState] /\ d \in e[r].left /\ PhaseOf(r) /\ ServedOf(r)
      /\ ReadBy(r, d) /\ e[r].results \in [Checks -> Values]
      /\ e[r].cached \in [Checks -> Values]
  BY DEF EnrichInv, EnrichTyped, Phases, Served, Read, Serve, Visits, FetchState
<1>1. e[r].phase = "calls" /\ d \in enabled(rq[r]) /\ e[r].results[d] = None
  BY <1>0 DEF PhaseOf, ServedOf, FetchState
<1>2. e[r].cached[d] # r
  BY <1>0, NoneErrAssumption DEF ReadBy, Values
<1>3. /\ \A q \in Requests \ {r} : e'[q] = e[q]
      /\ e'[r].cached = e[r].cached /\ e'[r].phase = "calls" /\ e'[r].results[d] # r
      /\ \A c \in Checks \ {d} : e'[r].results[c] = e[r].results[c]
  BY <1>0, <1>1, <1>2, NoneErrAssumption DEF Serve, FetchState
<1> QED
  BY <1>1, <1>3, NoNews

LEMMA CheckKeepsPromise ==
    ASSUME EnrichInv, NEW r \in Requests, NEW d \in Checks, Check(r, d), UNCHANGED rq
    PROVE  Promise!PromiseNext
<1>9. /\ e \in [Requests -> FetchState] /\ e[r].mu = d /\ d # "free" /\ PhaseOf(r)
      /\ ServedOf(r)
  BY DEF EnrichInv, EnrichTyped, Phases, Served, Check, Checks
<1>0. /\ e \in [Requests -> FetchState] /\ e[r].phase = "calls"
      /\ d \in enabled(rq[r]) /\ e[r].results[d] = None /\ e[r].cached[d] = None
      /\ e[r].results \in [Checks -> Values]
  BY <1>9 DEF PhaseOf, ServedOf, FetchState
<1>1. PICK v \in {r, Err} : e' = [e EXCEPT ![r].results[d] = v,
                                   ![r].running = @ \ {d}, ![r].mu = "free"]
  BY DEF Check, callCheck
<1>2. /\ \A q \in Requests \ {r} : e'[q] = e[q]
      /\ e'[r].cached = e[r].cached /\ e'[r].phase = "calls"
      /\ e'[r].results = [e[r].results EXCEPT ![d] = v]
      /\ e'[r].results[d] = v /\ \A c \in Checks \ {d} : e'[r].results[c] = e[r].results[c]
  BY <1>0, <1>1 DEF FetchState
<1>3. /\ enrichAsked' = enrichAsked /\ enrichAnswered' = enrichAnswered
      /\ r \notin enrichAnswered /\ Promise!Settled
  BY <1>0, <1>2, OthersSettled
<1>4. d \in enrichAsked[r].items /\ enrichAsked[r].subject = Key(r)
  BY <1>0 DEF enrichAsked
<1>5. CASE v = r
  <2>1. \A q \in Requests : \A c \in Checks :
           e'[q].results[c] = q <=> e[q].results[c] = q \/ (q = r /\ c = d)
    BY <1>0, <1>2, <1>5
  <2>2. enrichFacts' = enrichFacts \cup {<<Key(r), d, r>>}
    <3>1. \A t : t \in enrichFacts' <=>
             \E q \in Requests : \E c \in Checks :
                e'[q].results[c] = q /\ t = <<Key(q), c, q>>
      <4>0. \A q : Key(q)' = Key(q)
        BY DEF Key
      <4>1. (\A t : t \in enrichFacts <=>
                \E q \in Requests : \E c \in Checks :
                   e[q].results[c] = q /\ t = <<Key(q), c, q>>)'
        BY FactsOfCalls, PTL
      <4> QED
        BY <4>0, <4>1
    <3>2. \A t : t \in enrichFacts' <=>
             t \in enrichFacts \/ t = <<Key(r), d, r>>
      BY <2>1, <3>1, FactsOfCalls
    <3> QED
      BY <3>2
  <2>3. \A q \in Requests : \A c \in Checks :
           /\ e'[q].results[c] = Err <=> e[q].results[c] = Err
           /\ e'[q].cached = e[q].cached
    BY <1>0, <1>2, <1>5, NoneErrAssumption
  <2>4. enrichFailed' = enrichFailed
    BY <2>3 DEF enrichFailed
  <2>5. Promise!Learn(r)
    BY <1>3, <1>4, <2>2, <2>4 DEF Promise!Learn
  <2> QED
    BY <1>3, <2>5 DEF Promise!PromiseNext
<1>6. CASE v = Err
  BY <1>0, <1>2, <1>6, NoneErrAssumption, NoNews
<1> QED
  BY <1>5, <1>6

\* The answer: own errors, own values, and values of requests with the same key.
LEMMA JoinKeepsPromise ==
    ASSUME EnrichInv, NEW r \in Requests, Join(r), UNCHANGED rq
    PROVE  Promise!PromiseNext
<1>0. /\ e \in [Requests -> FetchState] /\ e[r].phase = "calls" /\ rq \in LookupCases
      /\ e[r].left = {} /\ e[r].running = {} /\ ServedOf(r)
  BY DEF EnrichInv, EnrichTyped, Served, Join
<1>1. /\ \A q \in Requests \ {r} : e'[q] = e[q]
      /\ e'[r].phase = "done"
      /\ \A q \in Requests : e'[q].results = e[q].results /\ e'[q].cached = e[q].cached
  BY <1>0 DEF Join, FetchState
<1>2. /\ enrichAsked' = enrichAsked /\ enrichFacts' = enrichFacts /\ enrichFailed' = enrichFailed
      /\ enrichAnswer' = enrichAnswer
  <2>1. enrichAsked' = enrichAsked
    BY DEF enrichAsked, Key
  <2>2. enrichFacts' = enrichFacts
    BY <1>1 DEF enrichFacts, Key
  <2>3. enrichFailed' = enrichFailed
    BY <1>1 DEF enrichFailed
  <2>4. enrichAnswer' = enrichAnswer
    BY <1>1 DEF enrichAnswer
  <2> QED
    BY <2>1, <2>2, <2>3, <2>4
<1>3. enrichAnswered' = enrichAnswered \cup {r} /\ r \notin enrichAnswered
  BY <1>0, <1>1 DEF enrichAnswered
<1>4. DOMAIN enrichAnswer'[r] = enrichAsked[r].items
  <2>1. \A c \in Checks : e[r].results[c] # None <=> c \in enabled(rq[r])
    BY <1>0 DEF ServedOf
  <2>2. {c \in Checks : e[r].results[c] # None} = enabled(rq[r])
    BY <2>1, EnabledChecks
  <2> QED
    BY <1>2, <2>2 DEF enrichAnswer, enrichAsked
<1>5. ASSUME NEW c \in enrichAsked[r].items
      PROVE  IF enrichAnswer'[r][c] = Err THEN <<r, c>> \in enrichFailed
             ELSE <<enrichAsked[r].subject, c, enrichAnswer'[r][c]>> \in enrichFacts
  <2>0. c \in Checks /\ c \in enabled(rq[r]) /\ enrichAsked[r].subject = Key(r)
    BY EnabledChecks DEF enrichAsked
  <2>9. e[r].results[c] # None
    BY <1>0, <2>0 DEF ServedOf
  <2>1. /\ c \in Checks /\ c \in enabled(rq[r]) /\ enrichAnswer'[r][c] = e[r].results[c]
        /\ enrichAsked[r].subject = Key(r)
    BY <1>2, <2>0, <2>9 DEF enrichAnswer
  <2>2. e[r].results[c] \in Requests \cup {Err}
    BY <1>0, <2>1, <2>9 DEF FetchState, Values
  <2>3. CASE e[r].results[c] = Err
    BY <1>0, <2>1, <2>3 DEF enrichFailed, ServedOf
  <2>4. CASE e[r].results[c] = r
    BY <2>1, <2>4, NoneErrAssumption DEF enrichFacts
  <2>5. ASSUME NEW q \in Requests, q # r, e[r].results[c] = q
        PROVE  <<Key(r), c, q>> \in enrichFacts
    <3>1. e[r].cached[c] = q
      BY <1>0, <2>1, <2>5 DEF ServedOf
    <3>0. ReadBy(r, c) /\ q \in Values \ {None}
      BY <2>1, NoneErrAssumption DEF EnrichInv, Read, Values
    <3>2. e[q].results[c] = q /\ Key(q) = Key(r)
      BY <3>0, <3>1 DEF ReadBy, Origin
    <3> QED
      BY <2>1, <3>2, FactsOfCalls
  <2> QED
    BY <2>1, <2>2, <2>3, <2>4, <2>5, NoneErrAssumption
<1>6. Promise!Reply(r)
  BY <1>2, <1>3, <1>4, <1>5 DEF Promise!Reply
<1>7. Promise!Settled
  BY <1>2 DEF Promise!Settled
<1> QED
  BY <1>6, <1>7 DEF Promise!PromiseNext

LEMMA ConcatCancels ==
    ASSUME NEW S, NEW a \in Seq(S), NEW b \in Seq(S), NEW c \in Seq(S), NEW d \in Seq(S),
           Len(a) = Len(c), Len(b) = Len(d), a \o b = c \o d
    PROVE  a = c /\ b = d
<1>1. /\ \A i \in 1 .. Len(a) + Len(b) :
            (a \o b)[i] = IF i <= Len(a) THEN a[i] ELSE b[i - Len(a)]
      /\ \A i \in 1 .. Len(a) + Len(b) :
            (c \o d)[i] = IF i <= Len(a) THEN c[i] ELSE d[i - Len(a)]
  BY ConcatProperties
<1>2. Len(a) \in Nat /\ Len(b) \in Nat
  OBVIOUS
<1>3. \A i \in 1 .. Len(a) : a[i] = c[i]
  BY <1>1, <1>2
<1>4. ASSUME NEW i \in 1 .. Len(b) PROVE b[i] = d[i]
  <2>1. Len(a) + i \in 1 .. Len(a) + Len(b) /\ ~(Len(a) + i <= Len(a)) /\ (Len(a) + i) - Len(a) = i
    BY <1>2
  <2> QED
    BY <1>1, <2>1
<1> QED
  BY <1>3, <1>4, SeqEqual

\* Fields without colons in the same places can be read off the text they join to.
LEMMA ServedToItsOwn == EnrichInv => OwnFields
<1> SUFFICES ASSUME EnrichInv, NEW r \in Requests, NEW q \in Requests, NEW c \in Checks,
                    e[r].results[c] = q, sameForm(rq[r], rq[q])
             PROVE  reqFields(rq[r]) = reqFields(rq[q])
  BY DEF OwnFields
<1>1. CASE q = r
  BY <1>1
<1>2. CASE q # r
  <2>1. e[r].cached[c] = q
    BY <1>2 DEF EnrichInv, Served, ServedOf
  <2>2. ReadBy(r, c) /\ q \in Values \ {None}
    BY NoneErrAssumption DEF EnrichInv, Read, Values
  <2>3. EnrichKey(rq[q]) = EnrichKey(rq[r])
    BY <2>1, <2>2 DEF ReadBy, Origin, Key
  <2>4. /\ rq \in LookupCases
        /\ \A i \in {1, 2, 3} : /\ Pieces[reqFields(rq[r])[i]] \in Seq(STRING)
                               /\ Pieces[reqFields(rq[q])[i]] \in Seq(STRING)
    BY PiecesAssumption DEF EnrichInv, EnrichTyped
  <2>5. \A i \in {1, 2, 3} :
           LET s == reqFields(rq[r])[i] t == reqFields(rq[q])[i]
           IN  s = t \/ (Pieces[s] = <<s>> /\ Pieces[t] = <<t>>)
    BY DEF sameForm
  <2>6. /\ Pieces[rq[r].phone] \in Seq(STRING) /\ Pieces[rq[q].phone] \in Seq(STRING)
        /\ Pieces[rq[r].email] \in Seq(STRING) /\ Pieces[rq[q].email] \in Seq(STRING)
        /\ Pieces[rq[r].name] \in Seq(STRING) /\ Pieces[rq[q].name] \in Seq(STRING)
    BY <2>4 DEF reqFields
  <2>7. /\ rq[r].phone = rq[q].phone \/ (/\ Pieces[rq[r].phone] = <<rq[r].phone>>
                                        /\ Pieces[rq[q].phone] = <<rq[q].phone>>)
        /\ rq[r].email = rq[q].email \/ (/\ Pieces[rq[r].email] = <<rq[r].email>>
                                        /\ Pieces[rq[q].email] = <<rq[q].email>>)
        /\ rq[r].name = rq[q].name \/ (/\ Pieces[rq[r].name] = <<rq[r].name>>
                                      /\ Pieces[rq[q].name] = <<rq[q].name>>)
    BY <2>5 DEF reqFields
  <2>8. /\ Len(Pieces[rq[r].phone]) = Len(Pieces[rq[q].phone])
        /\ Len(Pieces[rq[r].email]) = Len(Pieces[rq[q].email])
        /\ Len(Pieces[rq[r].name]) = Len(Pieces[rq[q].name])
    BY <2>7
  <2>9. /\ Pieces[rq[r].phone] = Pieces[rq[q].phone]
        /\ Pieces[rq[r].email] = Pieces[rq[q].email]
        /\ Pieces[rq[r].name] = Pieces[rq[q].name]
    <3> DEFINE p == Pieces[rq[r].phone] p1 == Pieces[rq[q].phone]
               m == Pieces[rq[r].email] m1 == Pieces[rq[q].email]
               n == Pieces[rq[r].name] n1 == Pieces[rq[q].name]
               S == STRING u == p \o m v == p1 \o m1
    <3>1. u \o n = v \o n1
      BY <2>3 DEF EnrichKey
    <3>2. /\ p \in Seq(S) /\ m \in Seq(S) /\ n \in Seq(S)
          /\ p1 \in Seq(S) /\ m1 \in Seq(S) /\ n1 \in Seq(S)
          /\ Len(p) = Len(p1) /\ Len(m) = Len(m1) /\ Len(n) = Len(n1)
      BY <2>6, <2>8
    <3> HIDE DEF p, m, n, p1, m1, n1, S
    <3>3. /\ u \in Seq(S) /\ v \in Seq(S)
          /\ Len(u) = Len(p) + Len(m) /\ Len(v) = Len(p1) + Len(m1)
      BY <3>2, ConcatProperties
    <3>4. /\ u \in Seq(S) /\ v \in Seq(S) /\ n \in Seq(S) /\ n1 \in Seq(S)
          /\ Len(u) = Len(v) /\ Len(n) = Len(n1)
      BY <3>2, <3>3
    <3> HIDE DEF u, v
    <3>5. u = v /\ n = n1
      BY <3>1, <3>4, ConcatCancels
    <3>6. p \o m = p1 \o m1
      BY <3>5 DEF u, v
    <3>7. p = p1 /\ m = m1
      BY <3>2, <3>6, ConcatCancels
    <3> QED
      BY <3>5, <3>7 DEF p, m, n, p1, m1, n1
  <2>10. \A s, t : <<s>> = <<t>> => s = t
    OBVIOUS
  <2>11. rq[r].phone = rq[q].phone /\ rq[r].email = rq[q].email /\ rq[r].name = rq[q].name
    BY <2>7, <2>9, <2>10
  <2> QED
    BY <2>11 DEF reqFields
<1> QED
  BY <1>1, <1>2

LEMMA PromiseInitially == Init => Promise!PromiseInit
<1> SUFFICES ASSUME Init PROVE Promise!PromiseInit
  OBVIOUS
<1>1. \A r \in Requests : /\ \A c \in Checks : e[r].results[c] = None
                          /\ e[r].phase = "done" <=> enabled(rq[r]) = {}
  BY NoChecksType DEF Init, EnrichInit, NewFetch
<1>2. enrichFacts = {} /\ enrichFailed = {}
  BY <1>1, NoneErrAssumption DEF enrichFacts, enrichFailed
<1>3. enrichAnswered = {r \in Requests : enrichAsked[r].items = {}}
  BY <1>1 DEF enrichAnswered, enrichAsked
<1> QED
  BY <1>2, <1>3 DEF Promise!PromiseInit

\* Through the shared document every request gets exactly the checks its own
\* tenant has enabled, each as the vendor returned it for the text the request's
\* fields join to, and no failure of another request: Fetch with its cache
\* implements a lookup without one, in which fields of one form are not mixed up.
THEOREM CommonDataKeepsItsPromise == Spec => EnrichPromise
<1>1. EnrichInv /\ [Next]_vars => [Promise!PromiseNext]_Promise!promiseVars
  <2> SUFFICES ASSUME EnrichInv, [Next]_vars
               PROVE  [Promise!PromiseNext]_Promise!promiseVars
    OBVIOUS
  <2>1. ASSUME NEW r \in Requests, Enrich(r)
        PROVE  [Promise!PromiseNext]_Promise!promiseVars
    <3>1. EnrichStep(r) /\ UNCHANGED <<rq, clock>>
      BY <2>1 DEF Enrich
    <3>2. CASE \/ Fetch(r) \/ ReadDoc(r) \/ PutDoc(r)
               \/ \E c \in Checks : Spawn(r, c) \/ Lock(r, c) \/ ConcurrentWrite(r, c)
      BY <3>1, <3>2, QuietSteps
    <3>3. CASE \E c \in Checks : Serve(r, c)
      BY <3>1, <3>3, ServeKeepsPromise
    <3>4. CASE \E c \in Checks : Check(r, c)
      BY <3>1, <3>4, CheckKeepsPromise
    <3>5. CASE Join(r)
      BY <3>1, <3>5, JoinKeepsPromise
    <3> QED
      BY <3>1, <3>2, <3>3, <3>4, <3>5 DEF EnrichStep, FetchStep
  <2>2. ASSUME Tick \/ (\E l \in Lanes : Meta(l)) \/ UNCHANGED vars
        PROVE  [Promise!PromiseNext]_Promise!promiseVars
    <3>1. UNCHANGED <<rq, e>>
      BY <2>2 DEF Tick, Meta, vars, enrichVars
    <3> QED
      BY <3>1, PromiseStutters
  <2> QED
    BY <2>1, <2>2 DEF Next
<1> QED
  BY <1>1, PromiseInitially, ServedToItsOwn, EnrichInvariant, PTL
     DEF Spec, EnrichPromise, Promise!PromiseSpec
=============================================================================
