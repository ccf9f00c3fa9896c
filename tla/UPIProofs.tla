------------------------------ MODULE UPIProofs ------------------------------
(***************************************************************************)
(* Proofs about the verdict of a UPI call, for every configuration, every  *)
(* mix of sources and every order in which their probes come back.         *)
(***************************************************************************)
EXTENDS PhoneCrawl, WellFoundedInduction, TLAPS

-----------------------------------------------------------------------------
(* Profiles                                                                *)

\* A list of profiles, each of them a yes, a no or an error.
Heard(s) == \E S : s \in Seq(S) /\ \A p \in S : p.exist \in {"yes", "no", "none"}

LEMMA HeardNothing == Heard(<<>>)
<1> DEFINE S == {}
<1>1. <<>> \in Seq(S) /\ \A p \in S : p.exist \in {"yes", "no", "none"}
  OBVIOUS
<1> HIDE DEF S
<1> QED
  BY <1>1 DEF Heard

LEMMA HeardOneMore ==
    ASSUME NEW s, Heard(s), NEW p, p.exist \in {"yes", "no", "none"}
    PROVE  Heard(Append(s, p))
<1>1. PICK S : s \in Seq(S) /\ \A q \in S : q.exist \in {"yes", "no", "none"}
  BY DEF Heard
<1>2. s \in Seq(S \cup {p}) /\ p \in S \cup {p}
  BY <1>1
<1>3. Append(s, p) \in Seq(S \cup {p})
  BY <1>2
<1> QED
  BY <1>1, <1>3 DEF Heard

LEMMA HeardBoth ==
    ASSUME NEW s, NEW t, Heard(s), Heard(t)
    PROVE  Heard(s \o t)
<1>1. PICK S : s \in Seq(S) /\ \A q \in S : q.exist \in {"yes", "no", "none"}
  BY DEF Heard
<1>2. PICK T : t \in Seq(T) /\ \A q \in T : q.exist \in {"yes", "no", "none"}
  BY DEF Heard
<1>3. s \in Seq(S \cup T) /\ t \in Seq(S \cup T)
  BY <1>1, <1>2
<1>4. s \o t \in Seq(S \cup T)
  BY <1>3
<1> QED
  BY <1>1, <1>2, <1>4 DEF Heard

\* The members of a list of profiles.
LEMMA HeardMembers ==
    ASSUME NEW s, Heard(s)
    PROVE  /\ \A i \in DOMAIN s : s[i].exist \in {"yes", "no", "none"}
           /\ ToSet(s) = {s[i] : i \in DOMAIN s}
           /\ <<>> \o s = s
<1>1. PICK S : s \in Seq(S) /\ \A q \in S : q.exist \in {"yes", "no", "none"}
  BY DEF Heard
<1> QED
  BY <1>1 DEF ToSet

\* Every probe of every source comes back with a verdict or an error.
LEMMA ProbeIsHeard ==
    ASSUME NEW src, NEW suffix, NEW p \in Answered(src, suffix) \cup {Failed(src, suffix)}
    PROVE  p.exist \in {"yes", "no", "none"}
<1>2. /\ \A x, y, n : trueP(x, y, n).exist = "yes"
      /\ \A x, y : falseP(x, y).exist = "no"
      /\ \A x, y : errP(x, y).exist = "none"
  BY DEF trueP, falseP, errP, Profile
<1>3. Failed(src, suffix).exist = "none"
  BY <1>2 DEF Failed
<1>4. \A q \in cashfreeUPI : q.exist \in {"yes", "no", "none"}
  BY <1>2 DEF cashfreeUPI
<1>5. \A q \in phonePe : q.exist \in {"yes", "no", "none"}
  BY DEF phonePe, Profile
<1>6. \A q \in brbRazorpay(suffix) : q.exist \in {"yes", "no", "none"}
  BY <1>2 DEF brbRazorpay
<1>7. \A q \in {trueP(src, suffix, n) : n \in Validate[src]} \cup {falseP(src, suffix)} :
        q.exist \in {"yes", "no", "none"}
  BY <1>2
<1>8. \A q \in Answered(src, suffix) : q.exist \in {"yes", "no", "none"}
  BY <1>4, <1>5, <1>6, <1>7 DEF Answered
<1> QED
  BY <1>3, <1>8

-----------------------------------------------------------------------------
(* The sources of a fan-out                                                *)

IsTask(t) ==
    /\ t = [source |-> t.source, asked |-> t.asked, todo |-> t.todo, got |-> t.got,
            late |-> t.late]
    /\ Heard(t.got)

LEMMA TaskFields ==
    ASSUME NEW a, NEW b, NEW c, NEW d, NEW e, Heard(d)
    PROVE  IsTask([source |-> a, asked |-> b, todo |-> c, got |-> d, late |-> e])
  BY DEF IsTask

LEMMA FanOutIsTasks ==
    ASSUME NEW sources, NEW sets, NEW late
    PROVE  \A i \in DOMAIN fanOutSources(sources, sets, late) :
               IsTask(fanOutSources(sources, sets, late)[i])
<1>1. \A s, names : IsTask(Task(s, names, late))
  BY TaskFields, HeardNothing DEF Task
<1> QED
  BY <1>1 DEF fanOutSources

LEMMA PhasesAreTasks ==
    ASSUME NEW cfg, NEW found, NEW known, NEW late
    PROVE  /\ \A i \in DOMAIN LiteTasks(cfg, known, late) :
                  IsTask(LiteTasks(cfg, known, late)[i])
           /\ \A i \in DOMAIN EnrichedTasks(cfg, found, known, late) :
                  IsTask(EnrichedTasks(cfg, found, known, late)[i])
  BY FanOutIsTasks DEF LiteTasks, EnrichedTasks

-----------------------------------------------------------------------------
(* Aggregation                                                             *)

LEMMA AggForms ==
    /\ NoAgg.exist = "none"
    /\ Denied.exist = "no"
    /\ \A p : Winner(p).exist = "yes" /\ Winner(p).suffix = p.suffix
  BY DEF NoAgg, Denied, Winner

\* One hit is enough for a yes.
LEMMA AggHit ==
    ASSUME NEW s, NEW entries, NEW a \in aggProfile(s, entries),
           NEW i \in DOMAIN s, s[i].exist = "yes"
    PROVE  a.exist = "yes"
<1>1. truePr(s) # {}
  BY DEF truePr
<1> QED
  BY <1>1, AggForms DEF aggProfile

\* A no needs a no of everyone.
LEMMA AggNo ==
    ASSUME NEW s, Heard(s), NEW entries, NEW a \in aggProfile(s, entries), a.exist = "no"
    PROVE  s # <<>> /\ \A p \in ToSet(s) : p.exist = "no"
<1>1. truePr(s) = {}
  BY AggForms DEF aggProfile
<1>2. s # <<>> /\ ~ \E p \in ToSet(s) : p.exist = "none"
  BY <1>1, AggForms DEF aggProfile
<1>3. \A i \in DOMAIN s : s[i].exist # "yes"
  BY <1>1 DEF truePr
<1> QED
  BY <1>2, <1>3, HeardMembers

\* The suffix of a yes was found, and is one that maxSuffixes returns.
LEMMA AggYes ==
    ASSUME NEW s, NEW entries, NEW a \in aggProfile(s, entries), a.exist = "yes"
    PROVE  a.suffix \in maxSuffixes(candidateSuffixes(s), entries)
<1>1. truePr(s) # {}
  BY AggForms DEF aggProfile
<1>2. PICK i \in winner(s, maxSuffixes(candidateSuffixes(s), entries)) : a = Winner(s[i])
  BY <1>1 DEF aggProfile
<1>3. a.suffix = s[i].suffix
  BY <1>2, AggForms
<1> QED
  BY <1>2, <1>3 DEF winner

\* What maxSuffixes returns is a candidate, and nothing configured outranks it.
LEMMA BestSuffix ==
    ASSUME NEW candidates, NEW entries, NEW s \in maxSuffixes(candidates, entries)
    PROVE  /\ s \in candidates
           /\ \/ \A i \in DOMAIN entries : entries[i].name \notin candidates
              \/ \E j \in DOMAIN entries :
                    /\ entries[j].name = s
                    /\ \A i \in DOMAIN entries :
                          entries[i].name \in candidates => ~outranks(entries, i, j)
<1> DEFINE configured == {i \in DOMAIN entries : entries[i].name \in candidates}
           best == {i \in configured : \A j \in configured : ~outranks(entries, j, i)}
<1>1. CASE configured = {}
  BY <1>1 DEF maxSuffixes
<1>2. CASE configured # {}
  <2>1. PICK j \in best : s = entries[j].name
    BY <1>2 DEF maxSuffixes
  <2> QED
    BY <2>1
<1> QED
  BY <1>1, <1>2

-----------------------------------------------------------------------------
(* The suffixes are shared out among the sources                           *)

LEMMA ChunkEnds ==
    ASSUME NEW len \in Nat, NEW n \in Nat \ {0}
    PROVE  /\ \A i \in 0..n : chunkEnd(len, n, i) \in Nat
           /\ chunkEnd(len, n, 0) = 0
           /\ chunkEnd(len, n, n) = len
           /\ \A i \in 1..n : chunkEnd(len, n, i) - chunkEnd(len, n, i - 1)
                                 \in {len \div n, len \div n + 1}
           /\ \A i, j \in 0..n : i <= j => chunkEnd(len, n, i) <= chunkEnd(len, n, j)
<1> DEFINE k == len \div n
           m == len % n
           least(i) == IF i < m THEN i ELSE m
<1>1. k \in Nat /\ m \in 0..(n - 1) /\ n * k + m = len
  OBVIOUS
<1>2. \A i \in Nat : chunkEnd(len, n, i) = i * k + least(i)
  BY DEF chunkEnd
<1> HIDE DEF k, m
<1>3. \A i \in Nat : i * k \in Nat /\ least(i) \in Nat
  BY <1>1
<1>4. \A i \in 1..n : i * k = (i - 1) * k + k
  BY <1>1
<1>5. \A i, j \in 0..n : i <= j => i * k <= j * k
  <2> SUFFICES ASSUME NEW i \in 0..n, NEW j \in 0..n, i <= j PROVE i * k <= j * k
    OBVIOUS
  <2>1. j * k = i * k + (j - i) * k /\ (j - i) * k \in Nat
    BY <1>1
  <2> QED
    BY <1>1, <1>3, <2>1
<1>6. least(0) = 0 /\ least(n) = m /\ 0 * k = 0
  BY <1>1
<1>7. \A i \in 1..n : least(i) - least(i - 1) \in {0, 1}
  BY <1>1
<1>8. \A i, j \in 0..n : i <= j => least(i) <= least(j)
  BY <1>1
<1>9. \A i \in 1..n : chunkEnd(len, n, i) - chunkEnd(len, n, i - 1) \in {k, k + 1}
  <2> SUFFICES ASSUME NEW i \in 1..n
               PROVE  chunkEnd(len, n, i) - chunkEnd(len, n, i - 1) \in {k, k + 1}
    OBVIOUS
  <2> HIDE DEF least
  <2>1. i - 1 \in Nat /\ i \in Nat
    OBVIOUS
  <2>2. (i - 1) * k \in Nat /\ least(i) \in Nat /\ least(i - 1) \in Nat
    BY <2>1, <1>3
  <2>3. chunkEnd(len, n, i) = (i - 1) * k + k + least(i)
    BY <2>1, <1>2, <1>4
  <2>4. chunkEnd(len, n, i - 1) = (i - 1) * k + least(i - 1)
    BY <2>1, <1>2
  <2> QED
    BY <2>2, <2>3, <2>4, <1>7, <1>1
<1> HIDE DEF least
<1>10. \A i \in 0..n : i \in Nat /\ chunkEnd(len, n, i) \in Nat
  BY <1>2, <1>3
<1>11. chunkEnd(len, n, 0) = 0 /\ chunkEnd(len, n, n) = len
  BY <1>1, <1>2, <1>6
<1>12. \A i, j \in 0..n : i <= j => chunkEnd(len, n, i) <= chunkEnd(len, n, j)
  <2> SUFFICES ASSUME NEW i \in 0..n, NEW j \in 0..n, i <= j
               PROVE  chunkEnd(len, n, i) <= chunkEnd(len, n, j)
    OBVIOUS
  <2>1. i * k <= j * k /\ least(i) <= least(j)
    BY <1>5, <1>8
  <2>2. i * k \in Nat /\ j * k \in Nat /\ least(i) \in Nat /\ least(j) \in Nat
    BY <1>3
  <2>3. chunkEnd(len, n, i) = i * k + least(i) /\ chunkEnd(len, n, j) = j * k + least(j)
    BY <1>2
  <2> QED
    BY <2>1, <2>2, <2>3
<1> QED
  BY <1>9, <1>10, <1>11, <1>12 DEF k

\* Whatever the number of suffixes and of sources, every suffix of the list is in
\* one source's chunk and in no other's, and no source has more than one suffix
\* more than another (splitList).
THEOREM SuffixesAreShared ==
    ASSUME NEW S, NEW a \in Seq(S), NEW n \in Nat \ {0}
    PROVE  LET chunk == splitList(a, n)
               place(i, q) == chunkEnd(Len(a), n, i - 1) + q
           IN  /\ \A i, j \in 1..n : Len(chunk[i]) <= Len(chunk[j]) + 1
               /\ \A i \in 1..n : \A q \in DOMAIN chunk[i] :
                      place(i, q) \in DOMAIN a /\ chunk[i][q] = a[place(i, q)]
               /\ \A p \in DOMAIN a : \E i \in 1..n :
                      /\ \E q \in DOMAIN chunk[i] : p = place(i, q)
                      /\ \A j \in 1..n : \A q \in DOMAIN chunk[j] : p = place(j, q) => j = i
<1> DEFINE c(i) == chunkEnd(Len(a), n, i)
           chunk == splitList(a, n)
<1>0. Len(a) \in Nat /\ DOMAIN a = 1..Len(a)
  OBVIOUS
<1>1. /\ \A i \in 0..n : c(i) \in Nat
      /\ c(0) = 0 /\ c(n) = Len(a)
      /\ \A i \in 1..n : c(i) - c(i - 1) \in {Len(a) \div n, Len(a) \div n + 1}
      /\ \A i, j \in 0..n : i <= j => c(i) <= c(j)
  BY <1>0, ChunkEnds
<1>2. \A i \in 1..n : chunk[i] = SubSeq(a, c(i - 1) + 1, c(i))
  BY DEF splitList
<1> HIDE DEF c, chunk
<1>3. Len(a) \div n \in Nat
  BY <1>0
<1>4. \A i \in 1..n : c(i - 1) \in Nat /\ c(i) \in Nat /\ c(i - 1) <= c(i) /\ c(i) <= Len(a)
  BY <1>1, <1>3
<1>5. \A i \in 1..n : /\ Len(chunk[i]) = c(i) - c(i - 1)
                     /\ DOMAIN chunk[i] = 1..(c(i) - c(i - 1))
                     /\ \A q \in 1..(c(i) - c(i - 1)) : chunk[i][q] = a[c(i - 1) + q]
  <2> SUFFICES ASSUME NEW i \in 1..n
               PROVE  /\ Len(chunk[i]) = c(i) - c(i - 1)
                      /\ DOMAIN chunk[i] = 1..(c(i) - c(i - 1))
                      /\ \A q \in 1..(c(i) - c(i - 1)) : chunk[i][q] = a[c(i - 1) + q]
    OBVIOUS
  <2>1. PICK x : x = c(i - 1)
    OBVIOUS
  <2>2. PICK y : y = c(i)
    OBVIOUS
  <2>3. x \in Nat /\ y \in Nat /\ x <= y /\ y <= Len(a)
    BY <1>4, <2>1, <2>2
  <2>4. chunk[i] = SubSeq(a, x + 1, y)
    BY <1>2, <2>1, <2>2
  <2>5. Len(chunk[i]) = y - x /\ DOMAIN chunk[i] = 1..(y - x)
    BY <2>3, <2>4, <1>0
  <2>6. \A q \in 1..(y - x) : chunk[i][q] = a[x + q]
    BY <2>3, <2>4, <1>0
  <2> QED
    BY <2>1, <2>2, <2>5, <2>6
<1>6. \A i, j \in 1..n : Len(chunk[i]) <= Len(chunk[j]) + 1
  <2>1. \A i \in 1..n : Len(chunk[i]) \in {Len(a) \div n, Len(a) \div n + 1}
    BY <1>1, <1>5
  <2>2. PICK k \in Nat : k = Len(a) \div n
    BY <1>3
  <2>3. \A i \in 1..n : Len(chunk[i]) \in {k, k + 1}
    BY <2>1, <2>2
  <2> QED
    BY <2>3
<1>7. \A i \in 1..n : \A q \in DOMAIN chunk[i] :
         c(i - 1) + q \in DOMAIN a /\ chunk[i][q] = a[c(i - 1) + q]
  <2> SUFFICES ASSUME NEW i \in 1..n, NEW q \in DOMAIN chunk[i]
               PROVE  c(i - 1) + q \in DOMAIN a /\ chunk[i][q] = a[c(i - 1) + q]
    OBVIOUS
  <2>1. q \in 1..(c(i) - c(i - 1)) /\ chunk[i][q] = a[c(i - 1) + q]
    BY <1>5
  <2>2. c(i - 1) \in Nat /\ c(i) \in Nat /\ c(i - 1) <= c(i) /\ c(i) <= Len(a)
    BY <1>4
  <2> QED
    BY <1>0, <2>1, <2>2
<1>8. ASSUME NEW p \in DOMAIN a
      PROVE  \E i \in 1..n :
                /\ \E q \in DOMAIN chunk[i] : p = c(i - 1) + q
                /\ \A j \in 1..n : \A q \in DOMAIN chunk[j] : p = c(j - 1) + q => j = i
  <2> DEFINE after == {i \in 0..n : p <= c(i)}
  <2>1. n \in after /\ after \subseteq Nat /\ 0 \notin after
    BY <1>0, <1>1
  <2> DEFINE less == {xy \in Nat \X Nat : xy[1] < xy[2]}
  <2>2. PICK i \in after : \A j \in after : <<j, i>> \notin less
    <3>1. IsWellFoundedOn(less, Nat)
      BY NatLessThanWellFounded DEF OpToRel
    <3> HIDE DEF after, less
    <3> QED
      BY <3>1, <2>1, WFMin
  <2>3. i \in 1..n /\ c(i - 1) < p /\ p <= c(i)
    <3>1. i \in 1..n /\ p <= c(i)
      BY <2>1, <2>2
    <3>2. i - 1 \in Nat /\ i - 1 < i /\ i \in Nat /\ i - 1 \in 0..n
      BY <3>1
    <3>3. i - 1 \notin after
      BY <3>2, <2>2
    <3>4. c(i - 1) \in Nat /\ p \in Nat
      BY <3>1, <1>4, <1>0
    <3> QED
      BY <3>1, <3>2, <3>3, <3>4
  <2>4. p - c(i - 1) \in DOMAIN chunk[i] /\ p = c(i - 1) + (p - c(i - 1))
    BY <1>0, <1>4, <1>5, <2>3
  <2>5. ASSUME NEW j \in 1..n, NEW q \in DOMAIN chunk[j], p = c(j - 1) + q
        PROVE  j = i
    <3>1. c(j - 1) < p /\ p <= c(j)
      BY <1>4, <1>5, <2>5
    <3>2. j < i => c(j) <= c(i - 1)
      BY <1>1, <2>3
    <3>3. i < j => c(i) <= c(j - 1)
      BY <1>1, <2>3
    <3> QED
      BY <1>0, <1>4, <2>3, <3>1, <3>2, <3>3
  <2> QED
    BY <2>3, <2>4, <2>5
<1> QED
  BY <1>6, <1>7, <1>8 DEF c, chunk

-----------------------------------------------------------------------------
(* The call                                                                *)

\* When the call is over its aggregate is that of the phase which ended it; a
\* configuration without a LITE phase has no LITE profiles.
UPIInv ==
    /\ Heard(arrived) /\ Heard(lite) /\ Heard(enriched)
    /\ \A i \in DOMAIN tasks : IsTask(tasks[i])
    /\ uphase = "idle" => lite = <<>>
    /\ ~meta.lite => lite = <<>> /\ uphase \notin {"lite", "early"}
    /\ uphase = "early" => agg \in aggProfile(lite, meta.suffixes)
    /\ uphase = "done" => agg \in aggProfile(enriched, meta.suffixes)

LEMMA UPIInitially == UPIInit => UPIInv
  BY HeardNothing DEF UPIInit, UPIInv

LEMMA CheckDetailKeeps == ASSUME UPIInv, CheckDetail PROVE UPIInv'
  BY DEF UPIInv, CheckDetail

LEMMA TPISourceKeeps ==
    ASSUME UPIInv, TPISource
    PROVE  UPIInv'
<1>1. PICK p \in Answered(Head(tpiLeft), COMMON) \cup {Failed(Head(tpiLeft), COMMON)} :
        enriched' = IF p.exist = "none" THEN enriched ELSE Append(enriched, p)
  BY DEF TPISource
<1>2. p.exist \in {"yes", "no", "none"}
  BY ProbeIsHeard
<1>3. Heard(enriched)'
  BY <1>1, <1>2, HeardOneMore DEF UPIInv
<1> QED
  BY <1>3 DEF UPIInv, TPISource

\* Into the ENRICHED phase, or to the end.
LEMMA StartEnrichedTasks ==
    ASSUME StartEnriched
    PROVE  /\ \A i \in DOMAIN tasks' : IsTask(tasks'[i])
           /\ uphase' \in {"enriched", "concluding"}
<1>1. CASE meta.enriched /\ meta.enrichedSources # <<>>
  <2>1. PICK found : found = agg'
    OBVIOUS
  <2>2. /\ tasks' = EnrichedTasks(meta, found, tpiSuffixes, uexpired)
        /\ uphase' = "enriched"
    BY <1>1, <2>1 DEF StartEnriched, FanOut
  <2> QED
    BY <2>2, PhasesAreTasks
<1>2. CASE ~(meta.enriched /\ meta.enrichedSources # <<>>)
  <2>1. tasks' = <<>> /\ uphase' = "concluding"
    BY <1>2 DEF StartEnriched, FanOut
  <2> QED
    BY <2>1
<1> QED
  BY <1>1, <1>2

LEMMA AfterTPIKeeps ==
    ASSUME UPIInv, AfterTPI
    PROVE  UPIInv'
<1>1. /\ \A i \in DOMAIN tasks' : IsTask(tasks'[i])
      /\ uphase' \in {"lite", "enriched", "concluding"}
      /\ uphase' = "lite" => meta.lite
  <2>1. CASE ~(meta.organic \/ errInAllTPI)
    BY <2>1 DEF AfterTPI, UPIInv
  <2>2. CASE (meta.organic \/ errInAllTPI) /\ meta.lite /\ meta.liteSources # <<>>
    BY <2>2, PhasesAreTasks DEF AfterTPI, FanOut
  <2>3. CASE (meta.organic \/ errInAllTPI) /\ ~(meta.lite /\ meta.liteSources # <<>>)
    BY <2>3, StartEnrichedTasks DEF AfterTPI
  <2> QED
    BY <2>1, <2>2, <2>3
<1> QED
  BY <1>1 DEF UPIInv, AfterTPI

LEMMA ProbeKeeps ==
    ASSUME UPIInv, NEW i \in DOMAIN tasks, Probe(i)
    PROVE  UPIInv'
<1>1. PICK j \in tasks[i].todo :
      \E p \in Answered(tasks[i].source, tasks[i].asked[j])
                  \cup {Failed(tasks[i].source, tasks[i].asked[j])} :
         tasks' = [tasks EXCEPT ![i].todo = @ \ {j}, ![i].got = Append(@, p)]
  BY DEF Probe
<1>2. PICK p \in Answered(tasks[i].source, tasks[i].asked[j])
                    \cup {Failed(tasks[i].source, tasks[i].asked[j])} :
         tasks' = [tasks EXCEPT ![i].todo = @ \ {j}, ![i].got = Append(@, p)]
  BY <1>1
<1>3. p.exist \in {"yes", "no", "none"}
  BY ProbeIsHeard
<1>4. Heard(Append(tasks[i].got, p))
  BY <1>3, HeardOneMore DEF UPIInv, IsTask
<1>5. tasks'[i] = [source |-> tasks[i].source, asked |-> tasks[i].asked,
                   todo |-> tasks[i].todo \ {j}, got |-> Append(tasks[i].got, p),
                   late |-> tasks[i].late]
  <2>1. PICK t : t = tasks[i]
    OBVIOUS
  <2>2. tasks'[i] = [t EXCEPT !.todo = @ \ {j}, !.got = Append(@, p)]
    BY <1>2, <2>1
  <2>3. t = [source |-> t.source, asked |-> t.asked, todo |-> t.todo, got |-> t.got,
             late |-> t.late]
    BY <2>1 DEF UPIInv, IsTask
  <2> QED
    BY <2>1, <2>2, <2>3
<1>6. IsTask(tasks'[i])
  <2>1. PICK t : t = tasks'[i]
    OBVIOUS
  <2>2. Heard(t.got)
    BY <1>4, <1>5, <2>1
  <2>3. t = [source |-> t.source, asked |-> t.asked, todo |-> t.todo, got |-> t.got,
             late |-> t.late]
    BY <1>5, <2>1
  <2> QED
    BY <2>1, <2>2, <2>3 DEF IsTask
<1>7. DOMAIN tasks' = DOMAIN tasks /\ \A k \in DOMAIN tasks \ {i} : tasks'[k] = tasks[k]
  BY <1>2
<1>8. \A k \in DOMAIN tasks' : IsTask(tasks'[k])
  BY <1>6, <1>7 DEF UPIInv
<1> QED
  BY <1>8 DEF UPIInv, Probe

LEMMA DeliverKeeps ==
    ASSUME UPIInv, NEW i \in DOMAIN tasks, Deliver(i)
    PROVE  UPIInv'
<1>1. Heard(arrived)'
  BY HeardBoth DEF UPIInv, Deliver, IsTask
<1>2. \A k \in DOMAIN tasks' : k \in DOMAIN tasks /\ tasks'[k] = tasks[k]
  BY DEF Deliver
<1> QED
  BY <1>1, <1>2 DEF UPIInv, Deliver

LEMMA AfterLiteKeeps ==
    ASSUME UPIInv, AfterLite
    PROVE  UPIInv'
<1>1. meta.lite
  BY DEF UPIInv, AfterLite
<1>2. CASE uphase' = "early" /\ tasks' = tasks
  BY <1>1, <1>2, HeardNothing DEF UPIInv, AfterLite
<1>3. CASE StartEnriched
  BY <1>1, <1>3, HeardNothing, StartEnrichedTasks DEF UPIInv, AfterLite
<1> QED
  BY <1>2, <1>3 DEF AfterLite

LEMMA AfterEnrichedKeeps == ASSUME UPIInv, AfterEnriched PROVE UPIInv'
<1>1. Heard(enriched)'
  BY HeardBoth DEF UPIInv, AfterEnriched
<1> QED
  BY <1>1, HeardNothing DEF UPIInv, AfterEnriched, Conclude

LEMMA ConcludeAloneKeeps == ASSUME UPIInv, ConcludeAlone PROVE UPIInv'
  BY DEF UPIInv, ConcludeAlone, Conclude

LEMMA UPIInductive == UPIInv /\ [Next]_vars => UPIInv'
<1> SUFFICES ASSUME UPIInv, [Next]_vars PROVE UPIInv'
  OBVIOUS
<1>1. CASE UNCHANGED upiVars
  BY <1>1 DEF upiVars, UPIInv
<1>2. CASE CheckDetail
  BY <1>2, CheckDetailKeeps
<1>3. CASE Aggregate
  BY <1>3, TPISourceKeeps, AfterTPIKeeps, ProbeKeeps, DeliverKeeps, AfterLiteKeeps,
     AfterEnrichedKeeps, ConcludeAloneKeeps DEF Aggregate
<1>4. CASE UPITimeout
  BY <1>4 DEF UPITimeout, UPIInv
<1>5. CASE Deadline
  BY <1>5 DEF Deadline, UPIInv
<1> QED
  BY <1>1, <1>2, <1>3, <1>4, <1>5 DEF Next, SiteStep, UPICall, vars

LEMMA UPIInvariant == Spec => []UPIInv
<1>1. Init => UPIInv
  BY UPIInitially DEF Init
<1> QED
  BY <1>1, UPIInductive, PTL DEF Spec

-----------------------------------------------------------------------------
(* No probe is lost                                                        *)

LEMMA FailureIsNone == \A src, suffix : Failed(src, suffix).exist = "none"
  BY DEF Failed, errP, Profile

\* Some profile of the list is what the probe came back with.
Reported(src, suffix, s) ==
    \E k \in DOMAIN s : s[k] \in Answered(src, suffix) \cup {Failed(src, suffix)}
AllReported(t, s) == \A j \in DOMAIN t.asked : Reported(t.source, t.asked[j], s)

\* A source of the fan-out f, so far: what is not to do is in its collector.
Progressed(t, f) ==
    /\ t.source = f.source /\ t.asked = f.asked
    /\ \A j \in DOMAIN f.asked : j \in t.todo \/ Reported(f.source, f.asked[j], t.got)

\* The profiles that have left the sources' collectors.
told == IF uphase \in {"lite", "enriched"} THEN arrived ELSE decisive

\* Every probe of the last fan-out is still to come back, or its profile is in
\* its source's collector, or among those received.
FanInv ==
    /\ uphase \notin {"lite", "enriched"} => DOMAIN tasks = {}
    /\ uphase \notin {"lite", "enriched", "early", "done"} => DOMAIN fan = {}
    /\ \A i \in DOMAIN tasks : i \in DOMAIN fan /\ Progressed(tasks[i], fan[i])
    /\ \A i \in DOMAIN fan \ DOMAIN tasks : AllReported(fan[i], told)

LEMMA ReportedNow ==
    ASSUME NEW src, NEW suffix, NEW s, Heard(s),
           NEW p \in Answered(src, suffix) \cup {Failed(src, suffix)}
    PROVE  Reported(src, suffix, Append(s, p))
<1>1. PICK S : s \in Seq(S)
  BY DEF Heard
<1>2. s \in Seq(S \cup {p}) /\ p \in S \cup {p}
  BY <1>1
<1>3. Len(s) + 1 \in DOMAIN Append(s, p) /\ Append(s, p)[Len(s) + 1] = p
  BY <1>2
<1> QED
  BY <1>3 DEF Reported

LEMMA ReportedStill ==
    ASSUME NEW src, NEW suffix, NEW s, Heard(s), Reported(src, suffix, s), NEW p
    PROVE  Reported(src, suffix, Append(s, p))
<1>1. PICK S : s \in Seq(S)
  BY DEF Heard
<1>2. s \in Seq(S \cup {p}) /\ p \in S \cup {p}
  BY <1>1
<1>3. \A k \in DOMAIN s : k \in DOMAIN Append(s, p) /\ Append(s, p)[k] = s[k]
  BY <1>2
<1> QED
  BY <1>3 DEF Reported

LEMMA ReportedEither ==
    ASSUME NEW src, NEW suffix, NEW s, NEW t, Heard(s), Heard(t),
           Reported(src, suffix, s) \/ Reported(src, suffix, t)
    PROVE  Reported(src, suffix, s \o t)
<1>1. PICK S : s \in Seq(S)
  BY DEF Heard
<1>2. PICK T : t \in Seq(T)
  BY DEF Heard
<1>3. s \in Seq(S \cup T) /\ t \in Seq(S \cup T)
  BY <1>1, <1>2
<1>4. \A k \in DOMAIN s : k \in DOMAIN (s \o t) /\ (s \o t)[k] = s[k]
  BY <1>3
<1>5. \A k \in DOMAIN t : Len(s) + k \in DOMAIN (s \o t) /\ (s \o t)[Len(s) + k] = t[k]
  BY <1>3
<1> QED
  BY <1>4, <1>5 DEF Reported

\* A fan-out starts with every probe to do.
LEMMA FreshTask == ASSUME NEW s, NEW names, NEW late
                   PROVE  Progressed(Task(s, names, late), Task(s, names, late))
<1>1. PICK a : a = IF s.name \in SelfDriven THEN <<COMMON>>
                   ELSE SelectSeq(IF isCommonFlow(s) THEN <<COMMON>> ELSE names, isSupportedSuffix)
  OBVIOUS
<1>2. Task(s, names, late) = [source |-> s.name, asked |-> a, todo |-> DOMAIN a, got |-> <<>>,
                              late |-> late]
  BY <1>1 DEF Task
<1> QED
  BY <1>2 DEF Progressed

LEMMA FreshPhases ==
    ASSUME NEW cfg, NEW found, NEW known, NEW late
    PROVE  /\ \A i \in DOMAIN LiteTasks(cfg, known, late) :
                  Progressed(LiteTasks(cfg, known, late)[i], LiteTasks(cfg, known, late)[i])
           /\ \A i \in DOMAIN EnrichedTasks(cfg, found, known, late) :
                  Progressed(EnrichedTasks(cfg, found, known, late)[i],
                             EnrichedTasks(cfg, found, known, late)[i])
<1>1. \A sources, sets : \A i \in DOMAIN fanOutSources(sources, sets, late) :
         Progressed(fanOutSources(sources, sets, late)[i], fanOutSources(sources, sets, late)[i])
  BY FreshTask DEF fanOutSources
<1> QED
  BY <1>1 DEF LiteTasks, EnrichedTasks

LEMMA FanOutStarts ==
    ASSUME NEW started, FanOut(started),
           \A i \in DOMAIN started : Progressed(started[i], started[i]),
           uphase' \in {"lite", "enriched"} \/ DOMAIN started = {}
    PROVE  FanInv'
<1>1. tasks' = started /\ fan' = started
  BY DEF FanOut
<1> QED
  BY <1>1 DEF FanInv

LEMMA StartEnrichedFan == ASSUME StartEnriched PROVE FanInv'
<1>1. CASE meta.enriched /\ meta.enrichedSources # <<>>
  <2>1. PICK started : started = EnrichedTasks(meta, agg', tpiSuffixes, uexpired)
    OBVIOUS
  <2>2. PICK found : found = agg'
    OBVIOUS
  <2>3. \A i \in DOMAIN started : Progressed(started[i], started[i])
    BY <2>1, <2>2, FreshPhases
  <2>4. FanOut(started) /\ uphase' = "enriched"
    BY <1>1, <2>1 DEF StartEnriched
  <2> QED
    BY <2>3, <2>4, FanOutStarts
<1>2. CASE ~(meta.enriched /\ meta.enrichedSources # <<>>)
  <2>1. FanOut(<<>>)
    BY <1>2 DEF StartEnriched
  <2>2. DOMAIN (<<>>) = {}
    OBVIOUS
  <2> QED
    BY <2>1, <2>2, FanOutStarts
<1> QED
  BY <1>1, <1>2

LEMMA AfterTPIFan == ASSUME UPIInv, FanInv, AfterTPI PROVE FanInv'
<1>0. uphase = "tpi" /\ DOMAIN tasks = {} /\ DOMAIN fan = {}
  BY DEF AfterTPI, FanInv
<1>1. CASE ~(meta.organic \/ errInAllTPI)
  <2>1. UNCHANGED <<tasks, fan>> /\ uphase' = "concluding"
    BY <1>1 DEF AfterTPI
  <2> QED
    BY <1>0, <2>1 DEF FanInv
<1>2. CASE (meta.organic \/ errInAllTPI) /\ meta.lite /\ meta.liteSources # <<>>
  <2>1. PICK started : started = LiteTasks(meta, tpiSuffixes, uexpired)
    OBVIOUS
  <2>2. \A i \in DOMAIN started : Progressed(started[i], started[i])
    BY <2>1, FreshPhases
  <2>3. FanOut(started) /\ uphase' = "lite"
    BY <1>2, <2>1 DEF AfterTPI
  <2> QED
    BY <2>2, <2>3, FanOutStarts
<1>3. CASE (meta.organic \/ errInAllTPI) /\ ~(meta.lite /\ meta.liteSources # <<>>)
  BY <1>3, StartEnrichedFan DEF AfterTPI
<1> QED
  BY <1>1, <1>2, <1>3

LEMMA ProbeFan ==
    ASSUME UPIInv, FanInv, NEW i \in DOMAIN tasks, Probe(i)
    PROVE  FanInv'
<1>1. PICK j \in tasks[i].todo :
      \E p \in Answered(tasks[i].source, tasks[i].asked[j])
                  \cup {Failed(tasks[i].source, tasks[i].asked[j])} :
         tasks' = [tasks EXCEPT ![i].todo = @ \ {j}, ![i].got = Append(@, p)]
  BY DEF Probe
<1>2. PICK p \in Answered(tasks[i].source, tasks[i].asked[j])
                    \cup {Failed(tasks[i].source, tasks[i].asked[j])} :
         tasks' = [tasks EXCEPT ![i].todo = @ \ {j}, ![i].got = Append(@, p)]
  BY <1>1
<1>3. PICK t : t = tasks[i]
  OBVIOUS
<1>4. PICK f : f = fan[i]
  OBVIOUS
<1>5. /\ t = [source |-> t.source, asked |-> t.asked, todo |-> t.todo, got |-> t.got,
             late |-> t.late]
      /\ Heard(t.got)
  BY <1>3 DEF UPIInv, IsTask
<1>6. i \in DOMAIN fan /\ t.source = f.source /\ t.asked = f.asked
      /\ \A k \in DOMAIN f.asked : k \in t.todo \/ Reported(f.source, f.asked[k], t.got)
  BY <1>3, <1>4 DEF FanInv, Progressed
<1>7. PICK u : u = tasks'[i]
  OBVIOUS
<1>8. u.source = t.source /\ u.asked = t.asked /\ u.todo = t.todo \ {j}
      /\ u.got = Append(t.got, p)
  <2>1. u = [t EXCEPT !.todo = @ \ {j}, !.got = Append(@, p)]
    BY <1>2, <1>3, <1>7
  <2> QED
    BY <1>5, <2>1
<1>9. ASSUME NEW k \in DOMAIN f.asked
      PROVE  k \in u.todo \/ Reported(f.source, f.asked[k], u.got)
  <2>1. CASE k = j
    <3>1. p \in Answered(f.source, f.asked[k]) \cup {Failed(f.source, f.asked[k])}
      BY <1>3, <1>6, <2>1
    <3> QED
      BY <1>5, <1>8, <3>1, ReportedNow
  <2>2. CASE k # j /\ k \notin t.todo
    BY <1>5, <1>6, <1>8, <2>2, ReportedStill
  <2>3. CASE k # j /\ k \in t.todo
    BY <1>8, <2>3
  <2> QED
    BY <2>1, <2>2, <2>3
<1>10. Progressed(u, f)
  BY <1>6, <1>8, <1>9 DEF Progressed
<1>11. DOMAIN tasks' = DOMAIN tasks /\ \A k \in DOMAIN tasks \ {i} : tasks'[k] = tasks[k]
  BY <1>2
<1>12. told' = told /\ fan' = fan /\ uphase' = uphase
  BY DEF Probe, told, decisive
<1>13. \A k \in DOMAIN tasks' : k \in DOMAIN fan' /\ Progressed(tasks'[k], fan'[k])
  BY <1>4, <1>6, <1>7, <1>10, <1>11, <1>12 DEF FanInv
<1> QED
  BY <1>11, <1>12, <1>13 DEF FanInv

LEMMA DeliverFan ==
    ASSUME UPIInv, FanInv, NEW i \in DOMAIN tasks, Deliver(i)
    PROVE  FanInv'
<1>1. uphase \in {"lite", "enriched"} /\ i \in DOMAIN fan
  BY DEF FanInv
<1>2. /\ arrived' = arrived \o tasks[i].got /\ fan' = fan /\ uphase' = uphase
      /\ DOMAIN tasks' = DOMAIN tasks \ {i}
      /\ \A k \in DOMAIN tasks' : tasks'[k] = tasks[k]
      /\ tasks[i].todo = {}
  BY DEF Deliver
<1>3. told = arrived /\ told' = arrived'
  BY <1>1, <1>2 DEF told
<1>4. Heard(arrived) /\ Heard(tasks[i].got)
  BY DEF UPIInv, IsTask
<1>5. ASSUME NEW k \in DOMAIN fan \ DOMAIN tasks', NEW j \in DOMAIN fan[k].asked
      PROVE  Reported(fan[k].source, fan[k].asked[j], arrived')
  <2>1. CASE k = i
    <3>1. Reported(fan[k].source, fan[k].asked[j], tasks[i].got)
      BY <1>2, <2>1 DEF FanInv, Progressed
    <3> QED
      BY <1>2, <1>4, <3>1, ReportedEither
  <2>2. CASE k # i
    <3>1. Reported(fan[k].source, fan[k].asked[j], arrived)
      BY <1>2, <1>3, <2>2 DEF FanInv, AllReported
    <3> QED
      BY <1>2, <1>4, <3>1, ReportedEither
  <2> QED
    BY <2>1, <2>2
<1>6. \A k \in DOMAIN fan' \ DOMAIN tasks' : AllReported(fan'[k], told')
  BY <1>2, <1>3, <1>5 DEF AllReported
<1>7. \A k \in DOMAIN tasks' : k \in DOMAIN fan' /\ Progressed(tasks'[k], fan'[k])
  BY <1>2 DEF FanInv
<1> QED
  BY <1>1, <1>2, <1>6, <1>7 DEF FanInv

LEMMA AfterLiteFan == ASSUME UPIInv, FanInv, AfterLite PROVE FanInv'
<1>1. CASE uphase' = "early" /\ UNCHANGED <<tasks, fan>>
  <2>1. uphase = "lite" /\ lite' = arrived /\ tasks = <<>> /\ DOMAIN tasks = {}
    BY DEF AfterLite
  <2>2. told = arrived /\ told' = arrived
    BY <1>1, <2>1 DEF told, decisive
  <2> QED
    BY <1>1, <2>1, <2>2 DEF FanInv
<1>2. CASE StartEnriched
  BY <1>2, StartEnrichedFan
<1> QED
  BY <1>1, <1>2 DEF AfterLite

LEMMA AfterEnrichedFan == ASSUME UPIInv, FanInv, AfterEnriched PROVE FanInv'
<1>1. /\ uphase = "enriched" /\ uphase' = "done" /\ enriched' = enriched \o arrived
      /\ tasks = <<>> /\ DOMAIN tasks = {} /\ UNCHANGED <<tasks, fan>>
  BY DEF AfterEnriched, Conclude
<1>2. told = arrived /\ told' = enriched'
  BY <1>1 DEF told, decisive
<1>3. Heard(enriched) /\ Heard(arrived)
  BY DEF UPIInv
<1>4. ASSUME NEW k \in DOMAIN fan, NEW j \in DOMAIN fan[k].asked
      PROVE  Reported(fan[k].source, fan[k].asked[j], enriched')
  <2>1. Reported(fan[k].source, fan[k].asked[j], arrived)
    BY <1>1, <1>2 DEF FanInv, AllReported
  <2> QED
    BY <1>1, <1>3, <2>1, ReportedEither
<1> QED
  BY <1>1, <1>2, <1>4 DEF FanInv, AllReported

\* A step outside a fan-out.
LEMMA IdleFan ==
    ASSUME FanInv, DOMAIN fan = {}, UNCHANGED <<tasks, fan>>
    PROVE  FanInv'
  BY DEF FanInv

LEMMA FanInductive == UPIInv /\ FanInv /\ [Next]_vars => FanInv'
<1> SUFFICES ASSUME UPIInv, FanInv, [Next]_vars PROVE FanInv'
  OBVIOUS
<1>1. CASE UNCHANGED <<uphase, tasks, fan, arrived, lite, enriched>>
  <2>1. told' = told
    BY <1>1 DEF told, decisive
  <2> QED
    BY <1>1, <2>1 DEF FanInv
<1>2. CASE CheckDetail \/ TPISource \/ ConcludeAlone
  <2>1. DOMAIN fan = {} /\ UNCHANGED <<tasks, fan>>
    BY <1>2 DEF CheckDetail, TPISource, ConcludeAlone, FanInv
  <2> QED
    BY <2>1, IdleFan
<1>3. CASE AfterTPI \/ AfterLite \/ AfterEnriched
  BY <1>3, AfterTPIFan, AfterLiteFan, AfterEnrichedFan
<1>4. ASSUME NEW i \in DOMAIN tasks, Probe(i) \/ Deliver(i) PROVE FanInv'
  BY <1>4, ProbeFan, DeliverFan
<1>5. CASE UNCHANGED upiVars \/ UPITimeout \/ Deadline
  BY <1>1, <1>5 DEF upiVars, UPITimeout, Deadline
<1> QED
  BY <1>2, <1>3, <1>4, <1>5 DEF Next, SiteStep, UPICall, Aggregate, vars

LEMMA FanInvariant == Spec => [](UPIInv /\ FanInv)
<1>1. Init => FanInv
  BY DEF Init, UPIInit, FanInv
<1> QED
  BY <1>1, UPIInvariant, FanInductive, PTL DEF Spec

-----------------------------------------------------------------------------
(* What a call promises                                                    *)

\* The verdict of a call that has ended is the aggregate of its last phase.
LEMMA Verdict ==
    ASSUME UPIInv, CallEnded
    PROVE  Heard(decisive) /\ agg \in aggProfile(decisive, meta.suffixes)
  BY DEF UPIInv, CallEnded, decisive

\* A failed probe is never a "no": whatever times out or hangs, and in whatever
\* order the probes come back, a call denies a number only if every probe of
\* its last fan-out came back with a denial, and every profile the verdict is
\* made of is one (runSource, fanOutSources, aggProfile).
THEOREM DenialIsUnanimous == Spec => []NoOnlyIfAllDeny
<1>1. ASSUME UPIInv, FanInv PROVE NoOnlyIfAllDeny
  <2> SUFFICES ASSUME CallEnded, agg.exist = "no"
               PROVE  /\ decisive # <<>>
                      /\ \A p \in ToSet(decisive) : p.exist = "no"
                      /\ \A i \in DOMAIN fan : \A j \in DOMAIN fan[i].asked :
                            denials(fan[i].source, fan[i].asked[j]) \cap ToSet(decisive) # {}
    BY DEF NoOnlyIfAllDeny
  <2>1. decisive # <<>> /\ \A p \in ToSet(decisive) : p.exist = "no"
    BY <1>1, Verdict, AggNo
  <2>2. ASSUME NEW i \in DOMAIN fan, NEW j \in DOMAIN fan[i].asked
        PROVE  denials(fan[i].source, fan[i].asked[j]) \cap ToSet(decisive) # {}
    <3>1. DOMAIN tasks = {} /\ told = decisive
      BY <1>1 DEF FanInv, CallEnded, told
    <3>2. Reported(fan[i].source, fan[i].asked[j], decisive)
      BY <1>1, <3>1 DEF FanInv, AllReported
    <3>3. PICK k \in DOMAIN decisive :
             decisive[k] \in Answered(fan[i].source, fan[i].asked[j])
                                \cup {Failed(fan[i].source, fan[i].asked[j])}
      BY <3>2 DEF Reported
    <3>4. decisive[k] \in ToSet(decisive)
      BY <1>1, Verdict, HeardMembers
    <3>5. Failed(fan[i].source, fan[i].asked[j]).exist = "none"
      BY FailureIsNone
    <3>6. decisive[k].exist = "no"
      BY <2>1, <3>4
    <3>7. decisive[k] \in denials(fan[i].source, fan[i].asked[j])
      BY <3>3, <3>5, <3>6 DEF denials
    <3> QED
      BY <3>4, <3>7
  <2> QED
    BY <2>1, <2>2
<1> QED
  BY <1>1, FanInvariant, PTL

\* The suffix reported is the best configured one among those that compete, in
\* whatever order the profiles arrived (aggProfile).
THEOREM SuffixIsTheBest == Spec => []SuffixByPriority
<1>1. ASSUME UPIInv, CallEnded, agg.exist = "yes" PROVE SuffixByPriority
  <2>1. PICK C : C = {p.suffix : p \in IF namedHits = {} THEN hits ELSE namedHits}
    OBVIOUS
  <2>2. candidateSuffixes(decisive) = C
    <3>1. ToSet(decisive) = {decisive[i] : i \in DOMAIN decisive}
      BY <1>1, Verdict, HeardMembers
    <3>2. hits = {decisive[i] : i \in truePr(decisive)}
      BY <3>1 DEF hits, truePr
    <3>3. namedHits = {decisive[i] : i \in filterNamed(decisive)}
      BY <3>2 DEF namedHits, filterNamed
    <3>4. CASE filterNamed(decisive) = {}
      <4>1. C = {p.suffix : p \in hits}
        BY <2>1, <3>3, <3>4
      <4>2. candidateSuffixes(decisive) = {decisive[i].suffix : i \in truePr(decisive)}
        BY <3>4 DEF candidateSuffixes
      <4> QED
        BY <3>2, <4>1, <4>2
    <3>5. CASE filterNamed(decisive) # {}
      <4>1. C = {p.suffix : p \in namedHits}
        BY <2>1, <3>3, <3>5
      <4>2. candidateSuffixes(decisive) = {decisive[i].suffix : i \in filterNamed(decisive)}
        BY <3>5 DEF candidateSuffixes
      <4> QED
        BY <3>3, <4>1, <4>2
    <3> QED
      BY <3>4, <3>5
  <2>3. agg.suffix \in maxSuffixes(C, meta.suffixes)
    BY <1>1, <2>2, Verdict, AggYes
  <2>4. /\ agg.suffix \in C
        /\ \/ \A i \in DOMAIN meta.suffixes : meta.suffixes[i].name \notin C
           \/ \E j \in DOMAIN meta.suffixes :
                 /\ meta.suffixes[j].name = agg.suffix
                 /\ \A i \in DOMAIN meta.suffixes :
                       meta.suffixes[i].name \in C => ~outranks(meta.suffixes, i, j)
    BY <2>3, BestSuffix
  <2> QED
    BY <1>1, <2>1, <2>4 DEF SuffixByPriority, outranks
<1>2. UPIInv => SuffixByPriority
  BY <1>1 DEF SuffixByPriority
<1> QED
  BY <1>2, UPIInvariant, PTL

\* Without a LITE phase the UPI and the PHONEPE entry of a response agree
\* (CheckDetail, derivePhonePe).
THEOREM EntriesAgree == Spec => []PhonePeAgrees
<1>1. ASSUME UPIInv, CallEnded, ~meta.lite PROVE PhonePeAgrees
  <2>1. decisive = enriched /\ returnedProfiles = enriched
    BY <1>1, HeardMembers DEF UPIInv, CallEnded, decisive, returnedProfiles
  <2>2. clientPhonePe = "yes" => \E p \in ToSet(enriched) : p.exist = "yes"
    BY <2>1 DEF clientPhonePe, derivePhonePe
  <2>3. clientPhonePe = "yes" => \E i \in DOMAIN enriched : enriched[i].exist = "yes"
    BY <1>1, <2>2, HeardMembers DEF UPIInv
  <2>4. clientPhonePe = "yes" => agg.exist = "yes"
    BY <1>1, <2>1, <2>3, Verdict, AggHit
  <2> QED
    BY <2>4 DEF PhonePeAgrees, clientUPI
<1>2. UPIInv => PhonePeAgrees
  BY <1>1 DEF PhonePeAgrees
<1> QED
  BY <1>2, UPIInvariant, PTL
=============================================================================
