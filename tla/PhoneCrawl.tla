----------------------------- MODULE PhoneCrawl -----------------------------
(***************************************************************************)
(* The crawl of a section in which the UPI crawler is one of the sites: the*)
(* runner's goroutines and the UPI call run side by side under the         *)
(* request's deadline, which also bounds the call, and the call's aggregate*)
(* becomes the site's result (run.go, upi_adapter.go) and the UPI and      *)
(* PHONEPE entries of the client response (handler/transform_upi.go).      *)
(***************************************************************************)
EXTENDS CrawlRunner, UPIEngine

vars == <<crawlVars, upiVars>>

Init == CrawlInit /\ UPIInit

\* Mutant of upiVerdict: the adapter turns a missing verdict into an error.
upiVerdictError == IF agg.exist = "yes" THEN "exists"
                   ELSE IF agg.exist = "no" THEN "absent" ELSE "error"

\* The adapter: an aggregate with an error is data without a verdict.
upiVerdict == IF agg.exist = "yes" THEN "exists"
              ELSE IF agg.exist = "no" THEN "absent" ELSE "unknown"

SiteStep(s) == Go(s) /\ UNCHANGED upiVars

\* The call, from the goroutine of the site to its return.
UPICall ==
    \/ "UPI" \in DOMAIN g /\ CheckDetail /\ UNCHANGED crawlVars
    \/ Aggregate /\ UNCHANGED crawlVars
    \/ CallEnded /\ UPIReturns(upiVerdict) /\ UNCHANGED upiVars

\* The deadline of the request ends the call's as well.
Deadline ==
    /\ Expire
    /\ uexpired' = TRUE
    /\ UNCHANGED <<meta, uphase, tpiLeft, tasks, fan, arrived, lite, enriched, agg>>

Next == \/ \E s \in DOMAIN g : SiteStep(s)
        \/ UPICall
        \/ UPITimeout /\ UNCHANGED crawlVars
        \/ Deadline
        \/ Return /\ UNCHANGED upiVars

\* Every goroutine is scheduled, and every request ends by the deadline or the
\* timeout of its own client.
Spec ==
    /\ Init /\ [][Next]_vars
    /\ \A s \in Websites : WF_vars(s \in DOMAIN g /\ SiteStep(s))
    /\ WF_vars(UPICall)
    /\ WF_vars(Return /\ UNCHANGED upiVars)

-----------------------------------------------------------------------------
(* The client's UPI and PHONEPE entries                                    *)

clientUPI == agg.exist
clientPhonePe == IF agg.exist = "none" THEN "none" ELSE derivePhonePe(returnedProfiles)

-----------------------------------------------------------------------------
(* Properties                                                              *)

\* The profiles the verdict of the call is about.
decisive == IF uphase = "early" THEN lite ELSE enriched
hits == {p \in ToSet(decisive) : p.exist = "yes"}
namedHits == {p \in hits : p.named}

\* The profiles in which a source denies a suffix.
denials(src, suffix) == {p \in Answered(src, suffix) : p.exist = "no"}

\* A call does not say "no" because a probe failed: every probe the last fan-out
\* started (runSource, fanOutSources) came back and is among the profiles the
\* verdict is made of as a "no" of its own, and so is everything else in them,
\* of which there is something, through timeouts, the deadline and any order of
\* arrival (aggProfile).  It says nothing of what was never part of the
\* decision: a TPI source that failed while another denied the number, a source
\* that is not ported and the suffixes given to it, and, once the ENRICHED
\* phase is over, what the LITE sources found.
NoOnlyIfAllDeny ==
    CallEnded /\ agg.exist = "no" =>
        /\ decisive # <<>>
        /\ \A p \in ToSet(decisive) : p.exist = "no"
        /\ \A i \in DOMAIN fan : \A j \in DOMAIN fan[i].asked :
              denials(fan[i].source, fan[i].asked[j]) \cap ToSet(decisive) # {}

\* The suffix reported does not depend on the order in which profiles arrive: if
\* any competing hit (any named one, if there are some) has a configured suffix,
\* so has the reported one, with an entry that no rival's entry outranks by its
\* priority or, at the same priority, by its place in the list (aggProfile).
SuffixByPriority ==
    LET rivals == {p.suffix : p \in IF namedHits = {} THEN hits ELSE namedHits}
        at(s) == {i \in DOMAIN meta.suffixes : meta.suffixes[i].name = s}
        over(i, j) == \/ meta.suffixes[i].pri > meta.suffixes[j].pri
                      \/ meta.suffixes[i].pri = meta.suffixes[j].pri /\ i < j
    IN  CallEnded /\ agg.exist = "yes" =>
            /\ agg.suffix \in rivals
            /\ \/ \A s \in rivals : at(s) = {}
               \/ \E j \in at(agg.suffix) : \A s \in rivals : \A i \in at(s) : ~over(i, j)

\* The UPI and PHONEPE entries of one response do not contradict each other:
\* without a LITE phase, a number UPI denies is not on PhonePe, and one on
\* PhonePe is on UPI (CheckDetail, derivePhonePe).
PhonePeAgrees ==
    CallEnded /\ ~meta.lite =>
        /\ clientUPI = "no" => clientPhonePe # "yes"
        /\ clientPhonePe = "yes" => clientUPI = "yes"

\* What aggProfile's comment says: "prefer profiles that carry a name ... the
\* matching true profile wins": a call that found a name reports one.
NamePreferred ==
    CallEnded /\ agg.exist = "yes" /\ namedHits # {} => agg.named

\* The composed system is a crawl as CrawlRunner describes it: to the runner
\* the UPI call is one step that returns some verdict.
ImplementsCrawl == CrawlSpec

\* Every run returns, with all its sites, whatever hangs or fails.
RunReturns == <>returned
=============================================================================
