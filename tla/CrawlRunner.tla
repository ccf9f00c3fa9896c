----------------------------- MODULE CrawlRunner -----------------------------
(***************************************************************************)
(* The crawl of one section: the sites a tenant's configuration selects    *)
(* (internal/appconfig/websites.go, handler/orchestrator.go), one goroutine*)
(* per site under one deadline (internal/crawler/runner.go), the two-step  *)
(* crawlers and their token (crawler.go), and the section made of the      *)
(* results (handler/persona.go, transform.go).                             *)
(*                                                                         *)
(* What a site answers, and what its crawler makes of it, is SiteVerdicts. *)
(* The UPI crawler is one site here: UPIReturns is its only step.          *)
(***************************************************************************)
EXTENDS SiteVerdicts, Sequences, FiniteSets

CONSTANT Scenarios  \* the sections that may be crawled

Kinds == {"phone", "email"}
Websites == DOMAIN PhoneCrawlers \cup DOMAIN EmailCrawlers \cup {"UPI", "PHONEPE"}

\* One entry of youConfig.websites; the per-type flags and client_response
\* may be absent.
Flag == {"absent", "on", "off"}
WebsiteEntry == [enabled : BOOLEAN, phone : Flag, email : Flag, client : Flag]

\* A section to crawl: the registered crawlers of its kind, the vendor proxies,
\* whether there is a youConfig that parses and its websites, and the global
\* list of disabled sites, if one is set.
Scenario == [kind      : Kinds,
             available : SUBSET Websites,
             named     : SUBSET {"nimble", "smartproxy"},
             parsed    : BOOLEAN,
             websites  : UNION {[S -> WebsiteEntry] : S \in SUBSET Websites},
             global    : {"absent", "set"},
             disabled  : SUBSET Websites]

ASSUME ScenariosAssumption ==
    \A x \in Scenarios :
        /\ x.kind \in Kinds
        /\ x.global \in {"absent", "set"}
        /\ x.available \subseteq DOMAIN Registered(x.kind) \cup
                                 (IF x.kind = "phone" THEN {"UPI"} ELSE {})

-----------------------------------------------------------------------------
(* Which sites to crawl                                                    *)

\* Of the default list, the sites that have a crawler.
DisabledWebsitesDefault == {"YATRA", "DISCORD", "ATLASSIAN"}
\* None of the sites of this list has a crawler.
TokenPoolSites == {"EVERNOTE", "DIGILOCKER", "ZERODHA", "BPCL_GAS", "PAYU_UPI",
                   "SWIGGY", "LINKEDIN", "SAMSUNG", "EASYGOSMS"}

\* Mutant of GlobalDisabled: without a list in the configuration nothing is.
GlobalDisabledNone(x) == IF x.global = "set" THEN x.disabled ELSE {}

GlobalDisabled(x) == IF x.global = "set" THEN x.disabled ELSE DisabledWebsitesDefault

\* An absent per-type flag counts as on.
IsWebsiteEnabled(x, site) ==
    /\ site \in DOMAIN x.websites
    /\ x.websites[site].enabled
    /\ (IF x.kind = "phone" THEN x.websites[site].phone ELSE x.websites[site].email) # "off"

CrawlSet(x) ==
    {s \in x.available : /\ IsWebsiteEnabled(x, s)
                         /\ s \notin GlobalDisabled(x)
                         /\ s \notin TokenPoolSites}

\* resolveConfig and runCrawlers: without a configuration, every crawler.
Selected(x) == IF x.parsed THEN CrawlSet(x) ELSE x.available

ClientResponse(x, site) ==
    site \in DOMAIN x.websites => x.websites[site].client # "off"

-----------------------------------------------------------------------------
VARIABLES
    sc,        \* the section being crawled
    expired,   \* the deadline has passed
    g,         \* the goroutine of each selected site
    results,   \* the results, in the order in which they were appended
    returned,  \* run has returned
    shown      \* the accounts the client sees

crawlVars == <<sc, expired, g, results, returned, shown>>

rule(s) == Registered(sc.kind)[s]

\* A goroutine: its next step, how often step 1 was tried, the proxy its token
\* was made through, what Check returned, and whether the site had refused to
\* answer when it did (history).
Goroutine == [pc : {"token", "check", "detail", "returned", "recorded"},
              tries : 0..3, minted : {"none", "default", "nimble", "smartproxy", "direct"},
              out : {"none", "exists", "absent", "error", "unknown"},
              refused : {"no", "quietly", "openly"}]
NewGoroutine(x, s) ==
    [pc |-> IF s = "UPI" THEN "detail"
            ELSE IF Registered(x.kind)[s].steps = 2 THEN "token" ELSE "check",
     tries |-> 0, minted |-> "none", out |-> "none", refused |-> "no"]

\* run starts one goroutine per selected site.
CrawlInit ==
    /\ sc \in Scenarios
    /\ expired = FALSE
    /\ g = [s \in Selected(sc) |-> NewGoroutine(sc, s)]
    /\ results = <<>>
    /\ returned = FALSE
    /\ shown = {}

\* Check returns.
Returns(s, out, refused) ==
    g' = [g EXCEPT ![s].pc = "returned", ![s].out = out, ![s].refused = refused]

\* The token is at hand: step 2 is sent, in vain if the deadline has passed.
Proceed(s, proxy) ==
    IF expired THEN Returns(s, "error", "no")
    ELSE g' = [g EXCEPT ![s].pc = "check", ![s].minted = proxy]

\* Mutant of PoolProxy: the pools are registered before the vendors are known.
PoolProxyDefault(s) == TokenProxy(s, {})

\* The pools mint through an egress of their own.
PoolProxy(s) == TokenProxy(s, sc.named)

\* tokenVia finds a token in the pool.
PooledToken(s) ==
    /\ g[s].pc = "token"
    /\ g[s].tries = 0
    /\ Proceed(s, PoolProxy(s))
    /\ UNCHANGED <<sc, expired, results, returned, shown>>

\* Mutant of MayRetry: one attempt too many.
MayRetryOnceMore(s) == g[s].tries < rule(s).attempts /\ ~expired

\* GenerateToken goes on only within its attempts and its deadline.
MayRetry(s) == g[s].tries + 1 < rule(s).attempts /\ ~expired

\* The site did not say whether there is an account: openly, by its status or
\* with a challenge the crawler knows, or quietly, with an answer that has
\* nothing the crawler looks for.
OpenStatus == {403, 429, 500}
Refused(answer) ==
    IF \/ answer[1] \in OpenStatus /\ answer[2] \notin {"registered", "unregistered"}
       \/ answer[2] = "captcha"
    THEN "openly" ELSE IF answer[2] \in {"missing", "garbled"} THEN "quietly" ELSE "no"
RefusedPage(page) == IF page[1] \in OpenStatus THEN "openly" ELSE "quietly"

\* It fetches the page of step 1: a token, another try, or an error.
FetchPage(s) ==
    /\ g[s].pc = "token"
    /\ \E page \in Pages :
          \/ /\ page \in rule(s).mint
             /\ Proceed(s, TokenProxy(s, sc.named))
          \/ /\ page \in rule(s).again
             /\ MayRetry(s)
             /\ g' = [g EXCEPT ![s].tries = @ + 1]
          \/ /\ page \notin rule(s).mint
             /\ ~(page \in rule(s).again /\ MayRetry(s))
             /\ Returns(s, "error", RefusedPage(page))
    /\ UNCHANGED <<sc, expired, results, returned, shown>>

\* The site answers the check.
Answer(s) ==
    /\ g[s].pc = "check"
    /\ \E a \in rule(s).answers : Returns(s, verdict(rule(s), a), Refused(a))
    /\ UNCHANGED <<sc, expired, results, returned, shown>>

\* A request fails, or is cut off by the deadline or its own timeout.
RequestFails(s) ==
    /\ g[s].pc \in {"token", "check"}
    /\ Returns(s, "error", "no")
    /\ UNCHANGED <<sc, expired, results, returned, shown>>

\* The UPI crawler's CheckDetail returns; "unknown" is data without a verdict.
UPIReturns(out) ==
    /\ "UPI" \in DOMAIN g
    /\ g["UPI"].pc = "detail"
    /\ Returns("UPI", out, "no")
    /\ UNCHANGED <<sc, expired, results, returned, shown>>

\* What run makes of it: any error is a timeout once the deadline has passed.
resultOf(s) ==
    [site |-> s,
     out  |-> IF g[s].out = "error" THEN (IF expired THEN "timeout" ELSE "failed")
              ELSE g[s].out]

\* Mutant of Record: without the mutex, an append may be lost.
RecordUnlocked(s) ==
    /\ g[s].pc = "returned"
    /\ results' \in {results, Append(results, resultOf(s))}
    /\ g' = [g EXCEPT ![s].pc = "recorded"]
    /\ UNCHANGED <<sc, expired, returned, shown>>

\* The goroutine appends its result, under the mutex.
Record(s) ==
    /\ g[s].pc = "returned"
    /\ results' = Append(results, resultOf(s))
    /\ g' = [g EXCEPT ![s].pc = "recorded"]
    /\ UNCHANGED <<sc, expired, returned, shown>>

\* buildSection: an account for every result: a verdict, an error without its
\* reason, or data without a verdict.
accountOf(res) ==
    [site |-> res.site,
     user |-> CASE res.out \in {"timeout", "failed"} -> "error"
                [] res.out = "unknown" -> "nil"
                [] OTHER -> res.out]

\* transformSection: the sites with client_response off are dropped (UPI has a
\* switch of its own, in UPISection).
visible(accounts) ==
    {a \in accounts : a.site # "UPI" /\ (sc.parsed => ClientResponse(sc, a.site))}

\* Mutant of Return: run waits for the sites that were not selected as well.
ReturnWaitsForAll ==
    /\ ~returned
    /\ \A s \in sc.available : s \in DOMAIN g /\ g[s].pc = "recorded"
    /\ returned' = TRUE
    /\ shown' = visible({accountOf(results[i]) : i \in DOMAIN results})
    /\ UNCHANGED <<sc, expired, g, results>>

\* wg.Wait returns; the section is built and reshaped for the client.
Return ==
    /\ ~returned
    /\ \A s \in DOMAIN g : g[s].pc = "recorded"
    /\ returned' = TRUE
    /\ shown' = visible({accountOf(results[i]) : i \in DOMAIN results})
    /\ UNCHANGED <<sc, expired, g, results>>

\* The request's deadline passes.
Expire ==
    /\ ~expired
    /\ ~returned
    /\ expired' = TRUE
    /\ UNCHANGED <<sc, g, results, returned, shown>>

\* The steps of a goroutine other than the UPI crawler's own.
Go(s) == \/ PooledToken(s)
         \/ FetchPage(s)
         \/ Answer(s)
         \/ RequestFails(s)
         \/ Record(s)

CrawlNext == \/ \E s \in DOMAIN g : Go(s)
             \/ \E out \in {"exists", "absent", "unknown"} : UPIReturns(out)
             \/ Return
             \/ Expire

CrawlSpec == CrawlInit /\ [][CrawlNext]_crawlVars

-----------------------------------------------------------------------------
(* Properties                                                              *)

\* The variables keep their types: goroutines exist for the selected sites
\* only, and results are theirs.
CrawlTypeOK ==
    /\ sc \in Scenarios
    /\ expired \in BOOLEAN
    /\ g \in [Selected(sc) -> Goroutine]
    /\ results \in Seq([site : Selected(sc),
                        out : {"exists", "absent", "unknown", "timeout", "failed"}])
    /\ returned \in BOOLEAN

\* However the goroutines interleave and whatever fails, run returns exactly one
\* result for every selected site and no other, with the verdict of that site's
\* own crawler (run, buildSection); until then no site has two.
OneResultEach ==
    /\ \A i, j \in DOMAIN results : results[i].site = results[j].site => i = j
    /\ \A i \in DOMAIN results :
          LET s == results[i].site
          IN  /\ g[s].pc = "recorded"
              /\ g[s].out = "error" <=> results[i].out \in {"failed", "timeout"}
              /\ g[s].out # "error" => results[i].out = g[s].out
    /\ returned => \A s \in Selected(sc) : \E i \in DOMAIN results : results[i].site = s

\* The crawlers that make a verdict of an open refusal (anything but a 204 with
\* a cookie is Google's "no"; a captcha is Discord's), and those that make one
\* of an answer without anything they look for, a notice of any kind included.
DeafToRefusal == {"GOOGLE", "DISCORD"}
TakesSilence(kind) ==
    {"FACEBOOK", "INSTAGRAM", "JEEVANSATHI", "MONSTER"}
        \cup (IF kind = "email" THEN {"ADOBE", "GOOGLE", "PINTEREST", "SHAADI"} ELSE {})

mustFail(kind, s, refused) ==
    \/ refused = "openly" /\ s \notin DeafToRefusal
    \/ refused = "quietly" /\ s \notin TakesSilence(kind)

\* "An error, not a false verdict" (errNoConditionMatched, and the tier-1 header
\* on captchas) is kept by the crawlers but for those named above, and by the
\* runner for all: when a site refuses openly at either step, the result is an
\* error except Google's and Discord's; when its answer has nothing in it that
\* the crawler looks for, the result is an error except for the crawlers of
\* TakesSilence (Shaadi: by email only).
NoVerdictFromRefusal ==
    \A i \in DOMAIN results :
        mustFail(sc.kind, results[i].site, g[results[i].site].refused) =>
            results[i].out \in {"failed", "timeout"}

\* A token is spent through the proxy it was made through, pooled or not, since
\* sites tie it to the address: the pools' egress (Manager.Register) and the
\* runner's (proxyFor) agree.  Tumblr's token page needs no proxy.
TokenSpentWhereMinted ==
    \A s \in DOMAIN g \ {"TUMBLR"} :
        g[s].minted # "none" => g[s].minted = CheckProxy(s, sc.named)

\* What the client is shown of a section was asked for by its tenant: an
\* account of a site that youConfig enables for this kind, that is not on the
\* global list in force and whose client_response is not off (resolveConfig,
\* CrawlSet, transformSection); and each such site is there.
ShownAsConfigured ==
    returned /\ sc.parsed =>
        {a.site : a \in shown} =
            {s \in sc.available \ {"UPI"} :
                /\ s \in DOMAIN sc.websites
                /\ sc.websites[s].enabled
                /\ sc.websites[s].client # "off"
                /\ sc.kind = "phone" => sc.websites[s].phone # "off"
                /\ sc.kind = "email" => sc.websites[s].email # "off"
                /\ sc.global = "set" => s \notin sc.disabled
                /\ sc.global = "absent" => s \notin {"YATRA", "DISCORD", "ATLASSIAN"}}
=============================================================================
