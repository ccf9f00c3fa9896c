------------------------------ MODULE UPIEngine ------------------------------
(***************************************************************************)
(* One call of the UPI crawler (internal/crawler/upi): is the phone number *)
(* registered with UPI, under which bank suffix and under whose name?      *)
(*                                                                         *)
(* aggregate asks the paid TPI sources first, one after the other, then    *)
(* fans out over the LITE sources (does a VPA exist?) and over the ENRICHED*)
(* ones (to whom does it belong?).  Every source probes the suffixes it is *)
(* given concurrently, and profiles are collected in the order in which    *)
(* they arrive.  One deadline bounds the call.                             *)
(***************************************************************************)
EXTENDS Integers, FiniteSets, SequencesExt

CONSTANTS
    UPIConfigs,   \* the upi_config values that may be in force
    Handles       \* the suffixes a source may put in a VPA of its own

COMMON == "COMMON"

\* A text that is not set.
Blank == ""

\* A bank suffix belongs to an app (some rows of the table; the others are
\* alike).  A suffix that is not in the table is not probed.
supportedSuffix ==
    [ybl |-> "PHONEPE", axl |-> "PHONEPE", ibl |-> "PHONEPE", paytm |-> "PAYTM",
     bhim |-> "BHIM", okaxis |-> "GPAY", axisb |-> "CRED_UPI"]
isSupportedSuffix(s) == s = COMMON \/ s \in DOMAIN supportedSuffix
appNameForSuffix(s) ==
    IF s = COMMON THEN COMMON
    ELSE IF s \in DOMAIN supportedSuffix THEN supportedSuffix[s] ELSE "UNKNOWN"

-----------------------------------------------------------------------------
(* Sources: what one probe of a suffix can return                          *)

\* A profile: user_exist ("none" when there is an error), whether it carries a
\* name, and the app it is counted under.
Profile(src, suffix, app, exist, named) ==
    [source |-> src, suffix |-> suffix, app |-> app, exist |-> exist, named |-> named]
trueP(src, suffix, named) == Profile(src, suffix, appNameForSuffix(suffix), "yes", named)
falseP(src, suffix) == Profile(src, suffix, appNameForSuffix(suffix), "no", FALSE)
errP(src, suffix) == Profile(src, suffix, Blank, "none", FALSE)

\* Sources that never return a hit without a name, may do so, never have one.
confirmTkt == {TRUE}
nykaaUPI == {TRUE}
railYatri == {TRUE}
goibibo == {TRUE}
mmtUPI == BOOLEAN
emtUPI == BOOLEAN
ketto == BOOLEAN
giveUPI == BOOLEAN
indiGo == {FALSE}
practo == {FALSE}
justPay == {FALSE}
kayak == {FALSE}

\* getSourceCrawler: PAYU_UPI and EASEBUZZ are configured but not ported.
Validate ==
    [CONFIRMTKT_UPI |-> confirmTkt, NYKAA_UPI |-> nykaaUPI,
     RAILYATRI_UPI |-> railYatri, GOIBIBO_UPI |-> goibibo, MMT_UPI |-> mmtUPI,
     EMT_UPI |-> emtUPI, KETTO_UPI |-> ketto, GIVE_UPI |-> giveUPI,
     IndiGo_UPI |-> indiGo, PRACTO_UPI |-> practo, JUST_PAY_UPI |-> justPay,
     KAYAK_EMT |-> kayak]
SelfDriven == {"CASH_FREE_UPI", "PHONEPE_EMULATOR"}
getSourceCrawler(src) == src \in DOMAIN Validate \cup SelfDriven \cup {"BRB_RAZORPAY_UPI"}

\* BRB answers with a masked VPA, whose suffix replaces the one asked for.
brbRazorpay(suffix) ==
    {trueP("BRB_RAZORPAY_UPI", s, FALSE) : s \in Handles \cup {suffix}}
        \cup {falseP("BRB_RAZORPAY_UPI", suffix)}

\* Cashfree is asked for the number, and answers with the VPA.
cashfreeUPI ==
    {trueP("CASH_FREE_UPI", s, n) : s \in Handles, n \in BOOLEAN}
        \cup {falseP("CASH_FREE_UPI", COMMON)}

\* The emulator knows no suffix.
phonePe == {Profile("PHONEPE", Blank, Blank, "yes", n) : n \in BOOLEAN}
              \cup {Profile("PHONEPE", Blank, Blank, "no", FALSE)}

\* Everything a probe may return when the source answers.
Answered(src, suffix) ==
    CASE src = "CASH_FREE_UPI"    -> cashfreeUPI
      [] src = "PHONEPE_EMULATOR" -> phonePe
      [] src = "BRB_RAZORPAY_UPI" -> brbRazorpay(suffix)
      [] OTHER -> {trueP(src, suffix, n) : n \in Validate[src]} \cup {falseP(src, suffix)}

\* A probe that failed, in whatever way.
Failed(src, suffix) ==
    IF src = "CASH_FREE_UPI" THEN errP(src, COMMON)
    ELSE IF src = "PHONEPE_EMULATOR" THEN errP("PHONEPE", Blank) ELSE errP(src, suffix)

-----------------------------------------------------------------------------
(* Who probes what                                                         *)

\* weightedSampleNoReplace: all of them, or k of them in any order.
weightedSampleNoReplace(sources, k) ==
    IF k <= 0 THEN {<<>>}
    ELSE IF k >= Len(sources) THEN {sources}
    ELSE {[i \in 1..k |-> sources[f[i]]] :
             f \in {g \in [1..k -> DOMAIN sources] : \A i, j \in 1..k : g[i] = g[j] => i = j}}

\* buildMeta: LITE sources only if there are enough of them.
buildMeta(cfg) ==
    LET lite == SelectSeq(cfg.sources, LAMBDA s : s.enabled /\ s.type = "LITE")
        enriched == SelectSeq(cfg.sources, LAMBDA s : s.enabled /\ s.type = "ENRICHED")
    IN  {[cfg EXCEPT !.liteSources = l, !.enrichedSources = e] :
            l \in IF Len(lite) >= cfg.liteCount
                  THEN weightedSampleNoReplace(lite, cfg.liteCount) ELSE {<<>>},
            e \in weightedSampleNoReplace(enriched, cfg.enrichedCount)}

isCommonFlow(s) == s.commonLite \/ s.commonEnriched
inCommon(s, enriched) == IF enriched THEN s.commonEnriched ELSE s.commonLite
orderCommonFirst(sources, enriched) ==
    SelectSeq(sources, LAMBDA s : inCommon(s, enriched))
        \o SelectSeq(sources, LAMBDA s : ~inCommon(s, enriched))
countCommon(sources, enriched) == Len(SelectSeq(sources, LAMBDA s : inCommon(s, enriched)))

\* splitList: n contiguous chunks whose lengths differ by at most one.  The i-th
\* of them ends at chunkEnd.
chunkEnd(len, n, i) == i * (len \div n) + (IF i < len % n THEN i ELSE len % n)
splitList(a, n) ==
    [i \in 1..n |-> SubSeq(a, chunkEnd(Len(a), n, i - 1) + 1, chunkEnd(Len(a), n, i))]

\* The common sources come first, with COMMON; the others share the suffixes.
buildSuffixSets(commonCount, nonCommon, names) ==
    [i \in 1..commonCount |-> <<COMMON>>]
        \o (IF nonCommon > 0 THEN splitList(names, nonCommon) ELSE <<>>)

\* Of two suffixes, the one of higher priority; of equals, the one listed first.
outranks(entries, i, j) ==
    \/ entries[i].pri > entries[j].pri
    \/ entries[i].pri = entries[j].pri /\ i < j

\* A stable sort, highest priority first.
sortSuffixesByPriorityDesc(entries) ==
    LET order == SetToSortSeq(DOMAIN entries, LAMBDA i, j : outranks(entries, i, j))
    IN  [i \in DOMAIN entries |-> entries[order[i]]]

namesOf(entries) == [i \in DOMAIN entries |-> entries[i].name]
suffixNamesFor(entries, seqDesc) ==
    namesOf(IF seqDesc THEN sortSuffixesByPriorityDesc(entries) ELSE entries)
removeSuffixes(names, drop) == SelectSeq(names, LAMBDA s : s \notin drop)

\* fanOutSources and runSource: the probes of each source.  A source that is
\* not ported is skipped, with the suffixes it was to probe; a common source
\* of either phase asks for COMMON.  "late": the deadline has passed.
Task(s, suffixes, late) ==
    LET asked == IF s.name \in SelfDriven THEN <<COMMON>>
                 ELSE SelectSeq(IF isCommonFlow(s) THEN <<COMMON>> ELSE suffixes,
                                isSupportedSuffix)
    IN  [source |-> s.name, asked |-> asked, todo |-> DOMAIN asked, got |-> <<>>,
         late |-> late]
fanOutSources(sources, sets, late) ==
    [i \in {j \in DOMAIN sources : getSourceCrawler(sources[j].name)} |->
        Task(sources[i], IF i <= Len(sets) THEN sets[i] ELSE <<>>, late)]

\* The LITE phase: all suffixes but those a TPI source has reported on.
LiteTasks(cfg, known, late) ==
    LET sources == orderCommonFirst(cfg.liteSources, FALSE)
        common == countCommon(sources, FALSE)
        names == removeSuffixes(suffixNamesFor(cfg.suffixes, cfg.liteSeq), known)
    IN  fanOutSources(sources, buildSuffixSets(common, Len(sources) - common, names), late)

upTo(n, s) == SubSeq(s, 1, IF n < Len(s) THEN n ELSE Len(s))

\* repeatSuffixes
repeatSuffixes(names, n) ==
    IF n <= 1 THEN names
    ELSE [i \in 1..(n * Len(names)) |-> names[((i - 1) % Len(names)) + 1]]

\* The ENRICHED phase: the suffix of a LITE hit with a few sources, or the
\* suffixes of highest priority with at most as many sources.
EnrichedTasks(cfg, found, known, late) ==
    LET ordered == orderCommonFirst(cfg.enrichedSources, TRUE)
        hit == found.exist = "yes"
        top == upTo(cfg.suffixCount,
                    removeSuffixes(suffixNamesFor(cfg.suffixes, TRUE), known))
        few == IF cfg.haCount < 1 THEN 1 ELSE cfg.haCount
        sources == upTo(IF hit THEN few ELSE Len(top), ordered)
        names == IF hit THEN repeatSuffixes(SelectSeq(namesOf(cfg.suffixes),
                                                      LAMBDA s : s = found.suffix),
                                            Len(sources))
                 ELSE top
        common == countCommon(sources, TRUE)
    IN  fanOutSources(sources, buildSuffixSets(common, Len(sources) - common, names), late)

-----------------------------------------------------------------------------
(* Aggregation                                                             *)

NoAgg == [exist |-> "none", suffix |-> Blank, named |-> FALSE, source |-> Blank]
Denied == [NoAgg EXCEPT !.exist = "no"]
Winner(p) == [exist |-> "yes", suffix |-> p.suffix, named |-> p.named, source |-> p.source]

\* Mutant of maxSuffixes: the first configured suffix, whatever its priority.
maxSuffixesInOrder(candidates, entries) ==
    LET configured == {i \in DOMAIN entries : entries[i].name \in candidates}
    IN  IF configured = {} THEN candidates
        ELSE {entries[i].name : i \in {j \in configured : \A k \in configured : j <= k}}

\* The configured suffix of highest priority among the candidates, the first of
\* several; some candidate suffix when none is configured.
maxSuffixes(candidates, entries) ==
    LET configured == {i \in DOMAIN entries : entries[i].name \in candidates}
        best == {i \in configured : \A j \in configured : ~outranks(entries, j, i)}
    IN  IF configured = {} THEN candidates ELSE {entries[i].name : i \in best}

\* The profiles that found the user, and the suffixes that compete: those of the
\* profiles with a name, if there are any.
truePr(profiles) == {i \in DOMAIN profiles : profiles[i].exist = "yes"}
filterNamed(profiles) == {i \in truePr(profiles) : profiles[i].named}
candidateSuffixes(profiles) ==
    {profiles[i].suffix :
        i \in IF filterNamed(profiles) = {} THEN truePr(profiles) ELSE filterNamed(profiles)}

\* The first profile with the suffix, with a name or without.
winner(profiles, suffixes) ==
    {i \in truePr(profiles) :
        /\ profiles[i].suffix \in suffixes
        /\ \A j \in truePr(profiles) : profiles[j].suffix = profiles[i].suffix => i <= j}

\* aggProfile, as the set of its possible results.
aggProfile(profiles, entries) ==
    IF truePr(profiles) # {}
    THEN {Winner(profiles[i]) :
             i \in winner(profiles, maxSuffixes(candidateSuffixes(profiles), entries))}
    ELSE IF profiles = <<>> \/ \E p \in ToSet(profiles) : p.exist = "none"
    THEN {NoAgg}
    ELSE {Denied}

\* Mutant of derivePhonePe: any answer counts, not only a yes.
derivePhonePeAnswered(profiles) ==
    LET of == {p.exist : p \in {q \in ToSet(profiles) : q.app = "PHONEPE"}}
    IN  IF of \cap {"yes", "no"} # {} THEN "yes" ELSE "none"

\* derivePhonePe: the PHONEPE entry of the client response.
derivePhonePe(profiles) ==
    LET of == {p.exist : p \in {q \in ToSet(profiles) : q.app = "PHONEPE"}}
    IN  IF "yes" \in of THEN "yes" ELSE IF "no" \in of THEN "no" ELSE "none"

-----------------------------------------------------------------------------
VARIABLES
    meta,      \* the sampled configuration of the call
    uphase,    \* where aggregate is
    tpiLeft,   \* the TPI sources not asked yet
    tasks,     \* the sources of a fan-out that have not delivered, by their place
    fan,       \* the last fan-out as it was started (history)
    arrived,   \* the profiles of the fan-out received so far
    lite,      \* the LITE profiles
    enriched,  \* the TPI profiles without an error, then the ENRICHED ones
    agg,       \* the aggregate
    uexpired   \* the deadline of the call has passed

upiVars == <<meta, uphase, tpiLeft, tasks, fan, arrived, lite, enriched, agg, uexpired>>

UPIInit ==
    /\ meta = CHOOSE c \in UPIConfigs : TRUE
    /\ uphase = "idle"
    /\ tpiLeft = <<>>
    /\ tasks = <<>>
    /\ fan = <<>>
    /\ arrived = <<>>
    /\ lite = <<>>
    /\ enriched = <<>>
    /\ agg = NoAgg
    /\ uexpired = FALSE

\* CheckDetail: buildMeta, and the enabled TPI sources.
CheckDetail ==
    /\ uphase = "idle"
    /\ \E cfg \in UPIConfigs : meta' \in buildMeta(cfg)
    /\ tpiLeft' = SelectSeq(meta'.tpi, getSourceCrawler)
    /\ uphase' = "tpi"
    /\ UNCHANGED <<tasks, fan, arrived, lite, enriched, agg, uexpired>>

\* One TPI source answers or fails; errors are only counted.
TPISource ==
    /\ uphase = "tpi"
    /\ tpiLeft # <<>>
    /\ \E p \in Answered(Head(tpiLeft), COMMON) \cup {Failed(Head(tpiLeft), COMMON)} :
          /\ uexpired => p.exist = "none"
          /\ enriched' = IF p.exist = "none" THEN enriched ELSE Append(enriched, p)
    /\ tpiLeft' = Tail(tpiLeft)
    /\ UNCHANGED <<meta, uphase, tasks, fan, arrived, lite, agg, uexpired>>

tpiSuffixes == {p.suffix : p \in ToSet(enriched)} \ {Blank}
errInAllTPI == meta.tpi # <<>> /\ SelectSeq(meta.tpi, getSourceCrawler) = meta.tpi
                               /\ enriched = <<>>

\* The final aggregate, over the TPI and ENRICHED profiles alone.
Conclude(profiles) ==
    /\ agg' \in aggProfile(profiles, meta.suffixes)
    /\ uphase' = "done"

\* A fan-out starts.
FanOut(started) == tasks' = started /\ fan' = started

\* From TPI or LITE to the ENRICHED phase, if there is one.
StartEnriched ==
    IF meta.enriched /\ meta.enrichedSources # <<>>
    THEN /\ FanOut(EnrichedTasks(meta, agg', tpiSuffixes, uexpired))
         /\ uphase' = "enriched"
    ELSE /\ FanOut(<<>>)
         /\ uphase' = "concluding"

\* The TPI sources are done.
AfterTPI ==
    /\ uphase = "tpi"
    /\ tpiLeft = <<>>
    /\ agg' = agg
    /\ IF ~(meta.organic \/ errInAllTPI)
       THEN uphase' = "concluding" /\ UNCHANGED <<tasks, fan>>
       ELSE IF meta.lite /\ meta.liteSources # <<>>
       THEN /\ FanOut(LiteTasks(meta, tpiSuffixes, uexpired))
            /\ uphase' = "lite"
       ELSE StartEnriched
    /\ UNCHANGED <<meta, tpiLeft, arrived, lite, enriched, uexpired>>

\* Mutant of Probe: a probe that failed is left out.
ProbeDropsFailures(i) ==
    /\ \E j \in tasks[i].todo :
       \E p \in Answered(tasks[i].source, tasks[i].asked[j])
                   \cup {Failed(tasks[i].source, tasks[i].asked[j])} :
          /\ tasks[i].late => p.exist = "none"
          /\ tasks' = [tasks EXCEPT ![i].todo = @ \ {j},
                          ![i].got = IF p.exist = "none" THEN @ ELSE Append(@, p)]
    /\ UNCHANGED <<meta, uphase, tpiLeft, fan, arrived, lite, enriched, agg, uexpired>>

\* A probe returns to its source's collector.
Probe(i) ==
    /\ \E j \in tasks[i].todo :
       \E p \in Answered(tasks[i].source, tasks[i].asked[j])
                   \cup {Failed(tasks[i].source, tasks[i].asked[j])} :
          /\ tasks[i].late => p.exist = "none"
          /\ tasks' = [tasks EXCEPT ![i].todo = @ \ {j}, ![i].got = Append(@, p)]
    /\ UNCHANGED <<meta, uphase, tpiLeft, fan, arrived, lite, enriched, agg, uexpired>>

\* A source whose probes are all in delivers its profiles.
Deliver(i) ==
    /\ tasks[i].todo = {}
    /\ arrived' = arrived \o tasks[i].got
    /\ tasks' = [j \in DOMAIN tasks \ {i} |-> tasks[j]]
    /\ UNCHANGED <<meta, uphase, tpiLeft, fan, lite, enriched, agg, uexpired>>

\* The LITE phase is over: a "no", a name or the deadline end the call.
AfterLite ==
    /\ uphase = "lite"
    /\ tasks = <<>>
    /\ agg' \in aggProfile(arrived, meta.suffixes)
    /\ lite' = arrived
    /\ arrived' = <<>>
    /\ IF agg'.exist = "no" \/ agg'.named \/ uexpired
       THEN uphase' = "early" /\ UNCHANGED <<tasks, fan>>
       ELSE StartEnriched
    /\ UNCHANGED <<meta, tpiLeft, enriched, uexpired>>

AfterEnriched ==
    /\ uphase = "enriched"
    /\ tasks = <<>>
    /\ enriched' = enriched \o arrived
    /\ arrived' = <<>>
    /\ Conclude(enriched')
    /\ UNCHANGED <<meta, tpiLeft, tasks, fan, lite, uexpired>>

\* No ENRICHED phase.
ConcludeAlone ==
    /\ uphase = "concluding"
    /\ Conclude(enriched)
    /\ UNCHANGED <<meta, tpiLeft, tasks, fan, arrived, lite, enriched, uexpired>>

\* The leaf timeout of the call.
UPITimeout ==
    /\ uphase \notin {"idle", "early", "done"}
    /\ ~uexpired
    /\ uexpired' = TRUE
    /\ UNCHANGED <<meta, uphase, tpiLeft, tasks, fan, arrived, lite, enriched, agg>>

\* The steps of the call's own goroutines.
Aggregate == \/ TPISource
             \/ AfterTPI
             \/ \E i \in DOMAIN tasks : Probe(i) \/ Deliver(i)
             \/ AfterLite
             \/ AfterEnriched
             \/ ConcludeAlone

\* The call has returned: what it found, and the profiles it returns.  A call
\* that ends with the LITE phase leaves the TPI profiles out.
CallEnded == uphase \in {"early", "done"}
returnedProfiles == IF uphase = "early" THEN lite ELSE lite \o enriched
=============================================================================
