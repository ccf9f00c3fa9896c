----------------------------- MODULE CrawlProofs -----------------------------
(***************************************************************************)
(* Proofs about the crawl of a section, for every tenant, every set of     *)
(* registered crawlers and every configuration of the UPI call.            *)
(***************************************************************************)
EXTENDS PhoneCrawl, TLAPS

-----------------------------------------------------------------------------
(* The UPI call is one site                                                *)

\* Seen from the runner, the UPI call with all its phases is a crawler that
\* returns a verdict in one step (run, CheckDetail).
THEOREM UPICallIsOneSite == Spec => ImplementsCrawl
<1>1. Init => CrawlInit
  BY DEF Init
<1>2. ASSUME [Next]_vars PROVE [CrawlNext]_crawlVars
  <2>1. CASE \E s \in DOMAIN g : SiteStep(s)
    BY <2>1 DEF SiteStep, CrawlNext
  <2>2. CASE UPICall
    <3>1. upiVerdict \in {"exists", "absent", "unknown"}
      BY DEF upiVerdict
    <3> QED
      BY <2>2, <3>1 DEF UPICall, CrawlNext
  <2>3. CASE UPITimeout /\ UNCHANGED crawlVars
    BY <2>3
  <2>4. CASE Deadline \/ (Return /\ UNCHANGED upiVars)
    BY <2>4 DEF Deadline, CrawlNext
  <2>5. CASE UNCHANGED vars
    BY <2>5 DEF vars
  <2> QED
    BY <1>2, <2>1, <2>2, <2>3, <2>4, <2>5 DEF Next
<1> QED
  BY <1>1, <1>2, PTL DEF Spec, ImplementsCrawl, CrawlSpec

-----------------------------------------------------------------------------
(* The rules of the crawlers                                               *)

\* The attempts of a rule, one request or two.
LEMMA SiteRule == \A a, y, n : SiteOn(a, y, n).steps = 1 /\ SiteOn(a, y, n).attempts = 1
  BY DEF SiteOn

LEMMA RetryingRule ==
    \A m, p, t, a, y, n : /\ Retrying(m, p, t, SiteOn(a, y, n)).steps = 2
                          /\ Retrying(m, p, t, SiteOn(a, y, n)).attempts = t
<1> SUFFICES ASSUME NEW m, NEW p, NEW t, NEW a, NEW y, NEW n
             PROVE  /\ Retrying(m, p, t, SiteOn(a, y, n)).steps = 2
                    /\ Retrying(m, p, t, SiteOn(a, y, n)).attempts = t
  OBVIOUS
<1> DEFINE x == SiteOn(a, y, n)
<1>1. x \in [answers : {a}, yes : {y}, no : {n}, steps : {1}, mint : {{}}, again : {{}},
             attempts : {1}]
  BY DEF SiteOn
<1> HIDE DEF x
<1>2. Retrying(m, p, t, x).steps = 2 /\ Retrying(m, p, t, x).attempts = t
  BY <1>1 DEF Retrying
<1> QED
  BY <1>2 DEF x

LEMMA ReadsRule == \A S : Reads(S).steps = 1 /\ Reads(S).attempts = 1
  BY SiteRule DEF Reads, Site

LEMMA TokenRule ==
    /\ \A m, S : TokenSite(m, Reads(S)).attempts = 1
    /\ \A m, y, n : TokenSite(m, Site(y, n)).attempts = 1
  BY RetryingRule DEF TokenSite, Reads, Site

LEMMA TwoStepRules ==
    /\ \A x \in {Eventbrite, Trivago, Oyorooms, Zoho, Vimeo, Shopclues, Snapdeal, Tumblr,
                 Quora, Codecademy, TwitterPhone, AppleEmail} : x.attempts = 1
    /\ Microsoft.attempts = 4
<1>1. /\ Eventbrite.attempts = 1 /\ Trivago.attempts = 1 /\ Oyorooms.attempts = 1
      /\ Zoho.attempts = 1 /\ Vimeo.attempts = 1 /\ Snapdeal.attempts = 1
      /\ Tumblr.attempts = 1 /\ Quora.attempts = 1
  BY TokenRule DEF Eventbrite, Trivago, Oyorooms, Zoho, Vimeo, Snapdeal, Tumblr, Quora, Plain
<1>2. AppleEmail.attempts = 1 /\ Shopclues.attempts = 1 /\ Codecademy.attempts = 1
  BY TokenRule DEF AppleEmail, Shopclues, Codecademy, Plain
<1>4. TwitterPhone.attempts = 1
  BY RetryingRule DEF TwitterPhone, TokenSite
<1>3. Microsoft.attempts = 4
  BY RetryingRule DEF Microsoft, MicrosoftToken, Plain, Reads, Site
<1> QED
  BY <1>1, <1>2, <1>3, <1>4

LEMMA OneStepRules ==
    /\ Plain.attempts = 1 /\ Plain.steps = 1
    /\ \A x \in {ShaadiPhone, IndianExpress, GoogleEmail, Facebook, Pinterest, Adobe, Envato,
                 Bitmoji, HeadProbe, ShaadiEmail, Discord, Freelancer, Instagram, Byju,
                 Housing, Jeevansathi, monsterVerdict, Scripbox} : x.attempts = 1
<1>1. Plain.attempts = 1 /\ Plain.steps = 1
  BY ReadsRule DEF Plain
<1>2. ShaadiPhone.attempts = 1 /\ IndianExpress.attempts = 1
  BY ReadsRule DEF ShaadiPhone, IndianExpress
<1>3. /\ GoogleEmail.attempts = 1 /\ Facebook.attempts = 1 /\ Pinterest.attempts = 1
      /\ Adobe.attempts = 1 /\ Envato.attempts = 1 /\ Bitmoji.attempts = 1
  BY SiteRule DEF GoogleEmail, Facebook, Pinterest, Adobe, Envato, Bitmoji, Site
<1>4. /\ HeadProbe.attempts = 1 /\ ShaadiEmail.attempts = 1 /\ Discord.attempts = 1
      /\ Freelancer.attempts = 1 /\ Instagram.attempts = 1 /\ Byju.attempts = 1
  BY SiteRule DEF HeadProbe, ShaadiEmail, Discord, Freelancer, Instagram, Byju, Site
<1>5. /\ Housing.attempts = 1 /\ Jeevansathi.attempts = 1
      /\ monsterVerdict.attempts = 1 /\ Scripbox.attempts = 1
  BY SiteRule DEF Housing, Jeevansathi, monsterVerdict, Scripbox, Site
<1> QED
  BY <1>1, <1>2, <1>3, <1>4, <1>5

\* No crawler fetches its token page more than four times.
LEMMA Attempts ==
    ASSUME NEW k \in Kinds, NEW s \in DOMAIN Registered(k)
    PROVE  Registered(k)[s].attempts \in 1..4
<1>1. CASE k = "phone"
  BY <1>1, TwoStepRules, OneStepRules
     DEF Registered, PhoneCrawlers, Flipkart, Policybazar, Monster, Spicejet, Altbalaji,
         Nobroker, Yatra, Irctc, Gaana, TOI, TimesPrime, jssoCheck, WhatsappWappsure
<1>2. CASE k = "email"
  BY <1>2, TwoStepRules, OneStepRules
     DEF Registered, EmailCrawlers, Spotify, Monster, Altbalaji, Zoomcar, Duolingo, Firefox,
         Wordpress, Gravatar, wordpressAuthOptions, Strava, Github, TwitterEmail, Patreon,
         Naukri, Bodybuilding, Atlassian, Flickr, Gaana, Flipkart, Irctc, TOI, TimesPrime,
         jssoCheck, NetflixEmail
<1> QED
  BY <1>1, <1>2 DEF Kinds

-----------------------------------------------------------------------------
(* The inductive invariant                                                 *)

\* A goroutine asks for a token only if its crawler has two steps, holds one
\* made through the token's proxy, and returns with an outcome.
TokenOrder ==
    \A s \in Selected(sc) :
        /\ g[s].pc = "token" \/ g[s].minted # "none" => s # "UPI" /\ rule(s).steps = 2
        /\ g[s].minted \in {"none", TokenProxy(s, sc.named)}
        /\ g[s].pc \in {"returned", "recorded"} => g[s].out # "none"

\* A recorded goroutine has its result in, and run returns when all have.
Collected ==
    /\ \A s \in Selected(sc) : g[s].pc = "recorded" => \E i \in DOMAIN results : results[i].site = s
    /\ returned => /\ \A s \in Selected(sc) : g[s].pc = "recorded"
                   /\ shown = visible({accountOf(results[i]) : i \in DOMAIN results})

CrawlInv == CrawlTypeOK /\ TokenOrder /\ OneResultEach /\ Collected

LEMMA SelectedSites ==
    ASSUME sc \in Scenarios
    PROVE  /\ sc.kind \in Kinds
           /\ \A s \in Selected(sc) : s \in sc.available
           /\ \A s \in Selected(sc) : s = "UPI" \/ s \in DOMAIN Registered(sc.kind)
  BY ScenariosAssumption DEF Selected, CrawlSet

CrawlResult == [site : Selected(sc), out : {"exists", "absent", "unknown", "timeout", "failed"}]

LEMMA ResultsType ==
    ASSUME CrawlInv
    PROVE  /\ results \in Seq(CrawlResult) /\ DOMAIN results = 1..Len(results)
           /\ \A i \in DOMAIN results : results[i] \in CrawlResult
           /\ \A i \in DOMAIN results : results[i].site \in Selected(sc)
           /\ \A i \in DOMAIN results : g[results[i].site].pc = "recorded"
<1>1. results \in Seq(CrawlResult)
  BY DEF CrawlInv, CrawlTypeOK, CrawlResult
<1>2. DOMAIN results = 1..Len(results) /\ \A i \in DOMAIN results : results[i] \in CrawlResult
  BY <1>1
<1>3. \A x \in CrawlResult : x.site \in Selected(sc)
  BY DEF CrawlResult
<1>4. \A i \in DOMAIN results : g[results[i].site].pc = "recorded"
  BY Zenon DEF CrawlInv, OneResultEach
<1> QED
  BY <1>1, <1>2, <1>3, <1>4

LEMMA TokenProxies ==
    \A s, named : TokenProxy(s, named) \in {"default", "nimble", "smartproxy", "direct"}
  BY DEF TokenProxy, ProxyForSite, SiteEgress

LEMMA CrawlInitially == CrawlInit => CrawlInv
<1> SUFFICES ASSUME CrawlInit PROVE CrawlInv
  OBVIOUS
<1>1. /\ sc \in Scenarios /\ results = <<>> /\ returned = FALSE /\ expired = FALSE
      /\ g = [s \in Selected(sc) |-> NewGoroutine(sc, s)]
  BY DEF CrawlInit
<1>2. ASSUME NEW s \in Selected(sc)
      PROVE  /\ g[s] \in Goroutine /\ g[s].pc \in {"detail", "token", "check"}
             /\ g[s].minted = "none"
             /\ g[s].pc = "token" => s # "UPI" /\ rule(s).steps = 2
  <2>1. PICK p : p = IF s = "UPI" THEN "detail"
                     ELSE IF Registered(sc.kind)[s].steps = 2 THEN "token" ELSE "check"
    OBVIOUS
  <2>2. p \in {"detail", "token", "check"} /\ (p = "token" => s # "UPI" /\ rule(s).steps = 2)
    BY <2>1 DEF rule
  <2>3. g[s] = [pc |-> p, tries |-> 0, minted |-> "none", out |-> "none", refused |-> "no"]
    BY <1>1, <2>1 DEF NewGoroutine
  <2>4. g[s].pc = p /\ g[s].minted = "none"
    BY <2>3
  <2>5. g[s] \in Goroutine
    BY <2>2, <2>3 DEF Goroutine
  <2> QED
    BY <2>2, <2>4, <2>5
<1>3. g \in [Selected(sc) -> Goroutine]
  BY <1>1, <1>2
<1>4. CrawlTypeOK
  <2>1. <<>> \in Seq(CrawlResult)
    OBVIOUS
  <2> QED
    BY <1>1, <1>3, <2>1 DEF CrawlTypeOK, CrawlResult
<1>5. TokenOrder
  BY <1>2 DEF TokenOrder
<1>6. OneResultEach /\ Collected
  <2>1. DOMAIN results = {}
    BY <1>1
  <2> QED
    BY <1>1, <1>2, <2>1, Zenon DEF OneResultEach, Collected
<1> QED
  BY <1>4, <1>5, <1>6 DEF CrawlInv

\* A step of one goroutine before it records its result.
LEMMA GoroutineStep ==
    ASSUME CrawlInv, NEW s \in Selected(sc), NEW h \in Goroutine,
           g' = [g EXCEPT ![s] = h], UNCHANGED <<sc, expired, results, returned, shown>>,
           g[s].pc \notin {"returned", "recorded"}, h.pc # "recorded",
           h.pc = "returned" => h.out # "none",
           h.pc = "token" \/ h.minted # "none" => s # "UPI" /\ rule(s).steps = 2,
           h.minted \in {"none", TokenProxy(s, sc.named)}
    PROVE  CrawlInv'
<1>1. g \in [Selected(sc) -> Goroutine]
  BY DEF CrawlInv, CrawlTypeOK
<1>2. /\ g'[s] = h /\ \A q \in Selected(sc) \ {s} : g'[q] = g[q]
      /\ g' \in [Selected(sc) -> Goroutine]
  BY <1>1
<1>3. CrawlTypeOK'
  BY <1>2 DEF CrawlInv, CrawlTypeOK
<1>4. TokenOrder'
  BY <1>2 DEF CrawlInv, TokenOrder, rule
<1>5. \A i \in DOMAIN results : results[i].site # s /\ results[i].site \in Selected(sc)
  BY ResultsType
<1>6. \A i \in DOMAIN results : g'[results[i].site] = g[results[i].site]
  BY <1>2, <1>5
<1>8. ~returned
  BY DEF CrawlInv, Collected
<1>7. OneResultEach'
  <2>1. /\ \A i, j \in DOMAIN results : results[i].site = results[j].site => i = j
        /\ \A i \in DOMAIN results :
              LET q == results[i].site
              IN  /\ g[q].pc = "recorded"
                  /\ g[q].out = "error" <=> results[i].out \in {"failed", "timeout"}
                  /\ g[q].out # "error" => results[i].out = g[q].out
    BY Zenon DEF CrawlInv, OneResultEach
  <2>2. \A i \in DOMAIN results :
           LET q == results[i].site
           IN  /\ g'[q].pc = "recorded"
               /\ g'[q].out = "error" <=> results[i].out \in {"failed", "timeout"}
               /\ g'[q].out # "error" => results[i].out = g'[q].out
    BY <1>6, <2>1
  <2>3. results' = results /\ ~returned'
    BY <1>8
  <2> QED
    BY <2>1, <2>2, <2>3 DEF OneResultEach
<1>9. Collected'
  BY <1>2, <1>8 DEF CrawlInv, Collected
<1> QED
  BY <1>3, <1>4, <1>7, <1>9 DEF CrawlInv

\* Check returns, whatever it returns.
LEMMA ReturnsKeeps ==
    ASSUME CrawlInv, NEW s \in Selected(sc), NEW out \in {"exists", "absent", "error", "unknown"},
           NEW refused \in {"no", "quietly", "openly"}, Returns(s, out, refused),
           g[s].pc \notin {"returned", "recorded"},
           UNCHANGED <<sc, expired, results, returned, shown>>
    PROVE  CrawlInv'
<1> DEFINE h == [g[s] EXCEPT !.pc = "returned", !.out = out, !.refused = refused]
<1>1. g \in [Selected(sc) -> Goroutine] /\ g[s] \in Goroutine
  BY DEF CrawlInv, CrawlTypeOK
<1>2. g' = [g EXCEPT ![s] = h]
  BY <1>1 DEF Returns
<1>3. h \in Goroutine /\ h.pc = "returned" /\ h.out = out /\ h.minted = g[s].minted
  BY <1>1 DEF Goroutine
<1>4. /\ h.minted # "none" => s # "UPI" /\ rule(s).steps = 2
      /\ h.minted \in {"none", TokenProxy(s, sc.named)}
  BY <1>3 DEF CrawlInv, TokenOrder
<1> HIDE DEF h
<1> QED
  BY <1>2, <1>3, <1>4, GoroutineStep

\* A token is at hand, from the pool or from the page.
LEMMA ProceedKeeps ==
    ASSUME CrawlInv, NEW s \in Selected(sc), g[s].pc = "token",
           Proceed(s, TokenProxy(s, sc.named)),
           UNCHANGED <<sc, expired, results, returned, shown>>
    PROVE  CrawlInv'
<1>1. CASE expired
  BY <1>1, ReturnsKeeps DEF Proceed
<1>2. CASE ~expired
  <2> DEFINE h == [g[s] EXCEPT !.pc = "check", !.minted = TokenProxy(s, sc.named)]
  <2>1. g \in [Selected(sc) -> Goroutine] /\ g[s] \in Goroutine
    BY DEF CrawlInv, CrawlTypeOK
  <2>2. g' = [g EXCEPT ![s] = h]
    BY <1>2, <2>1 DEF Proceed
  <2>3. h \in Goroutine /\ h.pc = "check" /\ h.minted = TokenProxy(s, sc.named)
    BY <2>1, TokenProxies DEF Goroutine
  <2>4. s # "UPI" /\ rule(s).steps = 2
    BY DEF CrawlInv, TokenOrder
  <2> HIDE DEF h
  <2> QED
    BY <2>2, <2>3, <2>4, GoroutineStep
<1> QED
  BY <1>1, <1>2

\* GenerateToken tries again.
LEMMA RetryKeeps ==
    ASSUME CrawlInv, NEW s \in Selected(sc), g[s].pc = "token", MayRetry(s),
           g' = [g EXCEPT ![s].tries = @ + 1],
           UNCHANGED <<sc, expired, results, returned, shown>>
    PROVE  CrawlInv'
<1> DEFINE h == [g[s] EXCEPT !.tries = @ + 1]
<1>1. g \in [Selected(sc) -> Goroutine] /\ g[s] \in Goroutine /\ sc \in Scenarios
  BY DEF CrawlInv, CrawlTypeOK
<1>2. s # "UPI" /\ rule(s).steps = 2 /\ g[s].minted \in {"none", TokenProxy(s, sc.named)}
  BY DEF CrawlInv, TokenOrder
<1>3. rule(s).attempts \in 1..4
  BY <1>1, <1>2, SelectedSites, Attempts DEF rule
<1>4. g[s].tries \in 0..3 /\ g[s].tries + 1 < rule(s).attempts
  BY <1>1 DEF Goroutine, MayRetry
<1>5. g[s].tries + 1 \in 0..3
  BY <1>3, <1>4
<1>6. g' = [g EXCEPT ![s] = h]
  BY <1>1
<1>7. h \in Goroutine /\ h.pc = "token" /\ h.minted = g[s].minted
  BY <1>1, <1>5 DEF Goroutine
<1> HIDE DEF h
<1> QED
  BY <1>2, <1>6, <1>7, GoroutineStep

\* The result is appended: the first of its site.
LEMMA RecordKeeps ==
    ASSUME CrawlInv, NEW s \in Selected(sc), Record(s)
    PROVE  CrawlInv'
<1> DEFINE res == resultOf(s)
           n == Len(results)
<1>0. /\ g \in [Selected(sc) -> Goroutine] /\ g[s] \in Goroutine /\ g[s].pc = "returned"
      /\ g[s].out # "none" /\ results' = Append(results, res)
      /\ UNCHANGED <<sc, expired, returned, shown>>
      /\ g' = [g EXCEPT ![s].pc = "recorded"]
  BY DEF CrawlInv, CrawlTypeOK, TokenOrder, Record
<1>1. /\ g'[s] = [g[s] EXCEPT !.pc = "recorded"] /\ \A q \in Selected(sc) \ {s} : g'[q] = g[q]
      /\ g'[s].pc = "recorded" /\ g'[s].out = g[s].out /\ g'[s].minted = g[s].minted
      /\ g'[s] \in Goroutine /\ g' \in [Selected(sc) -> Goroutine]
  BY <1>0 DEF Goroutine
<1>2. /\ res \in CrawlResult /\ res.site = s
      /\ g[s].out = "error" <=> res.out \in {"failed", "timeout"}
      /\ g[s].out # "error" => res.out = g[s].out
  BY <1>0 DEF resultOf, CrawlResult, Goroutine
<1> HIDE DEF res
<1>3. /\ results \in Seq(CrawlResult) /\ DOMAIN results = 1..n /\ n \in Nat
      /\ \A i \in DOMAIN results : results[i].site \in Selected(sc) /\ results[i].site # s
  BY <1>0, ResultsType
<1>4. /\ results' \in Seq(CrawlResult) /\ DOMAIN results' = 1..(n + 1)
      /\ \A i \in 1..n : results'[i] = results[i]
      /\ results'[n + 1] = res
  BY <1>0, <1>2, <1>3
<1>5. CrawlTypeOK'
  <2>1. CrawlResult' = CrawlResult
    BY <1>0 DEF CrawlResult
  <2> QED
    BY <1>0, <1>1, <1>4, <2>1 DEF CrawlInv, CrawlTypeOK, CrawlResult
<1>6. TokenOrder'
  BY <1>0, <1>1 DEF CrawlInv, TokenOrder, rule
<1>7. ~returned
  BY <1>0 DEF CrawlInv, Collected
<1>8. OneResultEach'
  <2>1. /\ \A i, j \in DOMAIN results : results[i].site = results[j].site => i = j
        /\ \A i \in DOMAIN results :
              LET q == results[i].site
              IN  /\ g[q].pc = "recorded"
                  /\ g[q].out = "error" <=> results[i].out \in {"failed", "timeout"}
                  /\ g[q].out # "error" => results[i].out = g[q].out
    BY Zenon DEF CrawlInv, OneResultEach
  <2>2. \A i, j \in 1..(n + 1) : results'[i].site = results'[j].site => i = j
    <3>1. \A i \in 1..(n + 1) : i \in 1..n \/ i = n + 1
      BY <1>3
    <3>2. \A i, j \in 1..n : results'[i].site = results'[j].site => i = j
      BY <1>3, <1>4, <2>1
    <3>3. \A i \in 1..n : results'[i].site # results'[n + 1].site
      BY <1>2, <1>3, <1>4
    <3> QED
      BY <3>1, <3>2, <3>3
  <2>3. ASSUME NEW i \in 1..(n + 1)
        PROVE  LET q == results'[i].site
               IN  /\ g'[q].pc = "recorded"
                   /\ g'[q].out = "error" <=> results'[i].out \in {"failed", "timeout"}
                   /\ g'[q].out # "error" => results'[i].out = g'[q].out
    <3>1. CASE i = n + 1
      BY <1>1, <1>2, <1>4, <3>1
    <3>2. CASE i \in 1..n
      <4>1. /\ results'[i] = results[i] /\ i \in DOMAIN results
            /\ g'[results[i].site] = g[results[i].site]
        BY <1>1, <1>3, <1>4, <3>2
      <4> QED
        BY <2>1, <4>1
    <3> QED
      BY <1>3, <3>1, <3>2
  <2>4. ~returned'
    BY <1>0, <1>7
  <2> QED
    BY <1>4, <2>2, <2>3, <2>4 DEF OneResultEach
<1>9. Collected'
  <2>1. ASSUME NEW q \in Selected(sc), g'[q].pc = "recorded"
        PROVE  \E i \in DOMAIN results' : results'[i].site = q
    <3>1. CASE q = s
      <4>1. n + 1 \in DOMAIN results'
        BY <1>3, <1>4
      <4> QED
        BY <1>2, <1>4, <3>1, <4>1
    <3>2. CASE q # s
      <4>1. PICK i \in DOMAIN results : results[i].site = q
        BY <1>1, <2>1, <3>2 DEF CrawlInv, Collected
      <4>2. i \in 1..n /\ i \in DOMAIN results'
        BY <1>3, <1>4, <4>1
      <4> QED
        BY <1>4, <4>1, <4>2
    <3> QED
      BY <3>1, <3>2
  <2> QED
    BY <1>0, <1>7, <2>1 DEF Collected
<1> QED
  BY <1>5, <1>6, <1>8, <1>9 DEF CrawlInv

\* wg.Wait returns when every goroutine has recorded its result.
LEMMA ReturnKeeps ==
    ASSUME CrawlInv, Return
    PROVE  CrawlInv'
<1>1. /\ DOMAIN g = Selected(sc) /\ UNCHANGED <<sc, expired, g, results>> /\ returned' = TRUE
      /\ shown' = visible({accountOf(results[i]) : i \in DOMAIN results})
      /\ \A s \in Selected(sc) : g[s].pc = "recorded"
  BY DEF CrawlInv, CrawlTypeOK, Return
<1>2. \A s \in Selected(sc) : \E i \in DOMAIN results : results[i].site = s
  BY <1>1 DEF CrawlInv, Collected
<1>3. CrawlTypeOK'
  BY <1>1 DEF CrawlInv, CrawlTypeOK
<1>4. TokenOrder'
  BY <1>1 DEF CrawlInv, TokenOrder, rule
<1>5. OneResultEach'
  BY <1>1, <1>2 DEF CrawlInv, OneResultEach
<1>6. \A A : visible(A)' = visible(A)
  BY <1>1 DEF visible
<1>7. Collected'
  BY <1>1, <1>2, <1>6 DEF Collected
<1> QED
  BY <1>3, <1>4, <1>5, <1>7 DEF CrawlInv

LEMMA QuietKeeps ==
    ASSUME CrawlInv, UNCHANGED <<sc, g, results, returned, shown>>, expired' \in BOOLEAN
    PROVE  CrawlInv'
<1>1. CrawlTypeOK'
  BY DEF CrawlInv, CrawlTypeOK
<1>2. TokenOrder'
  BY DEF CrawlInv, TokenOrder, rule
<1>3. OneResultEach'
  BY DEF CrawlInv, OneResultEach
<1>4. \A A : visible(A)' = visible(A)
  BY DEF visible
<1>5. Collected'
  BY <1>4 DEF CrawlInv, Collected
<1> QED
  BY <1>1, <1>2, <1>3, <1>5 DEF CrawlInv

LEMMA CrawlInductive == CrawlInv /\ [CrawlNext]_crawlVars => CrawlInv'
<1> SUFFICES ASSUME CrawlInv, [CrawlNext]_crawlVars PROVE CrawlInv'
  OBVIOUS
<1>0. DOMAIN g = Selected(sc) /\ expired \in BOOLEAN
  BY DEF CrawlInv, CrawlTypeOK
<1>1. ASSUME NEW s \in DOMAIN g, Go(s) PROVE CrawlInv'
  <2>0. s \in Selected(sc)
    BY <1>0
  <2>1. CASE PooledToken(s)
    BY <2>0, <2>1, ProceedKeeps DEF PooledToken, PoolProxy
  <2>2. CASE FetchPage(s)
    <3>1. /\ g[s].pc = "token" /\ UNCHANGED <<sc, expired, results, returned, shown>>
          /\ \/ Proceed(s, TokenProxy(s, sc.named))
             \/ MayRetry(s) /\ g' = [g EXCEPT ![s].tries = @ + 1]
             \/ \E r \in {"no", "quietly", "openly"} : Returns(s, "error", r)
      BY <2>2 DEF FetchPage, RefusedPage
    <3> QED
      BY <2>0, <3>1, ProceedKeeps, RetryKeeps, ReturnsKeeps
  <2>3. CASE Answer(s)
    <3>1. PICK a \in rule(s).answers : Returns(s, verdict(rule(s), a), Refused(a))
      BY <2>3 DEF Answer
    <3>2. verdict(rule(s), a) \in {"exists", "absent", "error", "unknown"}
      BY DEF verdict
    <3>3. Refused(a) \in {"no", "quietly", "openly"}
      BY DEF Refused
    <3>4. g[s].pc = "check" /\ UNCHANGED <<sc, expired, results, returned, shown>>
      BY <2>3 DEF Answer
    <3> QED
      BY <2>0, <3>1, <3>2, <3>3, <3>4, ReturnsKeeps
  <2>4. CASE RequestFails(s)
    <3>1. /\ g[s].pc \in {"token", "check"} /\ Returns(s, "error", "no")
          /\ UNCHANGED <<sc, expired, results, returned, shown>>
      BY <2>4 DEF RequestFails
    <3> QED
      BY <2>0, <3>1, ReturnsKeeps
  <2>5. CASE Record(s)
    BY <2>0, <2>5, RecordKeeps
  <2> QED
    BY <1>1, <2>1, <2>2, <2>3, <2>4, <2>5 DEF Go
<1>2. ASSUME NEW out \in {"exists", "absent", "unknown"}, UPIReturns(out) PROVE CrawlInv'
  <2>1. /\ "UPI" \in Selected(sc) /\ g["UPI"].pc = "detail" /\ Returns("UPI", out, "no")
        /\ UNCHANGED <<sc, expired, results, returned, shown>>
    BY <1>0, <1>2 DEF UPIReturns
  <2> QED
    BY <2>1, ReturnsKeeps
<1>3. CASE Return
  BY <1>3, ReturnKeeps
<1>4. CASE Expire \/ UNCHANGED crawlVars
  <2>1. UNCHANGED <<sc, g, results, returned, shown>> /\ expired' \in BOOLEAN
    BY <1>0, <1>4 DEF Expire, crawlVars
  <2> QED
    BY <2>1, QuietKeeps
<1> QED
  BY <1>1, <1>2, <1>3, <1>4 DEF CrawlNext

LEMMA CrawlInvariant == Spec => []CrawlInv
<1>1. CrawlSpec => []CrawlInv
  BY CrawlInitially, CrawlInductive, PTL DEF CrawlSpec
<1> QED
  BY <1>1, UPICallIsOneSite, PTL DEF ImplementsCrawl

-----------------------------------------------------------------------------
(* Theorems                                                                *)

\* Types, with the attempts of GenerateToken within what any crawler allows.
THEOREM CrawlTyped == Spec => []CrawlTypeOK
<1>1. CrawlInv => CrawlTypeOK
  BY DEF CrawlInv
<1> QED
  BY <1>1, CrawlInvariant, PTL

\* run returns one result for every selected site and no other, its own, for
\* any number of goroutines.
THEOREM EverySiteOnce == Spec => []OneResultEach
<1>1. CrawlInv => OneResultEach
  BY DEF CrawlInv
<1> QED
  BY <1>1, CrawlInvariant, PTL

LEMMA WhatsappHasNoToken ==
    ASSUME sc \in Scenarios, "WHATSAPP" \in Selected(sc)
    PROVE  rule("WHATSAPP").steps # 2
<1>1. "WHATSAPP" \in DOMAIN Registered(sc.kind) /\ sc.kind \in Kinds
  BY SelectedSites
<1>2. "WHATSAPP" \notin DOMAIN EmailCrawlers
  BY DEF EmailCrawlers
<1>3. Registered(sc.kind) = PhoneCrawlers
  BY <1>1, <1>2 DEF Registered, Kinds
<1>4. PhoneCrawlers["WHATSAPP"] = Plain
  BY DEF PhoneCrawlers, WhatsappWappsure
<1> QED
  BY <1>3, <1>4, OneStepRules DEF rule

\* Pool and crawl reach a site through one proxy, whichever vendors are
\* configured (Manager.Register, proxyFor).
THEOREM TokensStayOnTheirProxy == Spec => []TokenSpentWhereMinted
<1>1. ASSUME CrawlInv PROVE TokenSpentWhereMinted
  <2> SUFFICES ASSUME NEW s \in DOMAIN g \ {"TUMBLR"}, g[s].minted # "none"
               PROVE  g[s].minted = CheckProxy(s, sc.named)
    BY DEF TokenSpentWhereMinted
  <2>1. s \in Selected(sc) /\ sc \in Scenarios
    BY <1>1 DEF CrawlInv, CrawlTypeOK
  <2>2. g[s].minted = TokenProxy(s, sc.named) /\ rule(s).steps = 2
    BY <1>1, <2>1 DEF CrawlInv, TokenOrder
  <2>3. s # "WHATSAPP"
    BY <2>1, <2>2, WhatsappHasNoToken
  <2> QED
    BY <2>2, <2>3 DEF TokenProxy, CheckProxy
<1> QED
  BY <1>1, CrawlInvariant, PTL

LEMMA NoPoolSiteHasACrawler ==
    ASSUME NEW k \in Kinds, NEW s \in DOMAIN Registered(k)
    PROVE  s \notin TokenPoolSites
<1>1. CASE k = "phone"
  BY <1>1 DEF Registered, PhoneCrawlers, TokenPoolSites
<1>2. CASE k = "email"
  BY <1>2 DEF Registered, EmailCrawlers, TokenPoolSites
<1> QED
  BY <1>1, <1>2 DEF Kinds

\* The sites that run has results of are the selected ones.
LEMMA SitesShown ==
    ASSUME CrawlInv, returned
    PROVE  {a.site : a \in shown} =
               {s \in Selected(sc) \ {"UPI"} : sc.parsed => ClientResponse(sc, s)}
<1>1. \A i \in DOMAIN results : results[i].site \in Selected(sc)
  BY ResultsType
<1>2. \A s \in Selected(sc) : \E i \in DOMAIN results : results[i].site = s
  BY DEF CrawlInv, OneResultEach
<1>3. shown = visible({accountOf(results[i]) : i \in DOMAIN results})
  BY DEF CrawlInv, Collected
<1>4. \A i \in DOMAIN results : accountOf(results[i]).site = results[i].site
  BY DEF accountOf
<1>5. \A a : a \in shown <=>
         /\ a \in {accountOf(results[i]) : i \in DOMAIN results}
         /\ a.site # "UPI" /\ (sc.parsed => ClientResponse(sc, a.site))
  BY <1>3 DEF visible
<1>6. ASSUME NEW a \in shown
      PROVE  /\ a.site \in Selected(sc) \ {"UPI"}
             /\ sc.parsed => ClientResponse(sc, a.site)
  <2>1. PICK i \in DOMAIN results : a = accountOf(results[i])
    BY <1>5
  <2> QED
    BY <1>1, <1>4, <1>5, <2>1
<1>7. ASSUME NEW s \in Selected(sc) \ {"UPI"}, sc.parsed => ClientResponse(sc, s)
      PROVE  \E a \in shown : a.site = s
  <2>1. PICK i \in DOMAIN results : results[i].site = s
    BY <1>2
  <2>2. accountOf(results[i]).site = s
    BY <1>4, <2>1
  <2>3. accountOf(results[i]) \in shown
    BY <1>5, <1>7, <2>2
  <2> QED
    BY <2>2, <2>3
<1> QED
  BY <1>6, <1>7

\* The client sees the accounts of the sites its tenant's configuration and the
\* global list allow, all of them and no others, for every configuration.
THEOREM ClientSeesWhatIsConfigured == Spec => []ShownAsConfigured
<1>1. ASSUME CrawlInv PROVE ShownAsConfigured
  <2> DEFINE wanted(s) ==
        /\ s \in DOMAIN sc.websites
        /\ sc.websites[s].enabled
        /\ sc.websites[s].client # "off"
        /\ sc.kind = "phone" => sc.websites[s].phone # "off"
        /\ sc.kind = "email" => sc.websites[s].email # "off"
        /\ sc.global = "set" => s \notin sc.disabled
        /\ sc.global = "absent" => s \notin {"YATRA", "DISCORD", "ATLASSIAN"}
  <2> SUFFICES ASSUME returned, sc.parsed
               PROVE  {a.site : a \in shown} = {s \in sc.available \ {"UPI"} : wanted(s)}
    BY DEF ShownAsConfigured
  <2>1. sc \in Scenarios
    BY <1>1 DEF CrawlInv, CrawlTypeOK
  <2>2. /\ sc.kind \in Kinds /\ sc.global \in {"absent", "set"}
        /\ \A s \in sc.available \ {"UPI"} : s \in DOMAIN Registered(sc.kind)
    BY <2>1, ScenariosAssumption
  <2>3. {a.site : a \in shown} = {s \in CrawlSet(sc) \ {"UPI"} : ClientResponse(sc, s)}
    BY <1>1, SitesShown DEF Selected
  <2>4. ASSUME NEW s \in sc.available \ {"UPI"}
        PROVE  s \in CrawlSet(sc) /\ ClientResponse(sc, s) <=> wanted(s)
    <3>1. s \notin TokenPoolSites
      BY <2>2, NoPoolSiteHasACrawler
    <3>2. s \notin GlobalDisabled(sc) <=>
             /\ sc.global = "set" => s \notin sc.disabled
             /\ sc.global = "absent" => s \notin {"YATRA", "DISCORD", "ATLASSIAN"}
      BY <2>2 DEF GlobalDisabled, DisabledWebsitesDefault
    <3>3. IsWebsiteEnabled(sc, s) <=>
             /\ s \in DOMAIN sc.websites
             /\ sc.websites[s].enabled
             /\ sc.kind = "phone" => sc.websites[s].phone # "off"
             /\ sc.kind = "email" => sc.websites[s].email # "off"
      BY <2>2 DEF IsWebsiteEnabled, Kinds
    <3>4. s \in CrawlSet(sc) <=> IsWebsiteEnabled(sc, s) /\ s \notin GlobalDisabled(sc)
      BY <3>1 DEF CrawlSet
    <3> QED
      BY <3>2, <3>3, <3>4 DEF ClientResponse
  <2>5. CrawlSet(sc) \subseteq sc.available
    BY DEF CrawlSet
  <2> HIDE DEF wanted
  <2> QED
    BY <2>3, <2>4, <2>5
<1> QED
  BY <1>1, CrawlInvariant, PTL

-----------------------------------------------------------------------------
(* A refusal is not a verdict                                              *)

\* No answer that is a refusal is one of the rule's verdicts, or no refusal of
\* one kind.
Strict(x) == \A a \in x.yes \cup x.no : Refused(a) = "no"
Never(r, x) == \A a \in x.yes \cup x.no : Refused(a) # r

LEMMA StrictSite ==
    \A A, y, n : (\A a \in y \cup n : Refused(a) = "no") => Strict(SiteOn(A, y, n))
  BY DEF Strict, SiteOn

LEMMA NeverSite ==
    \A r, A, y, n : (\A a \in y \cup n : Refused(a) # r) => Never(r, SiteOn(A, y, n))
  BY DEF Never, SiteOn

LEMMA StrictRetrying ==
    ASSUME NEW m, NEW p, NEW t, NEW A, NEW y, NEW n, \A a \in y \cup n : Refused(a) = "no"
    PROVE  Strict(Retrying(m, p, t, SiteOn(A, y, n)))
<1> DEFINE x == SiteOn(A, y, n)
<1>1. x \in [answers : {A}, yes : {y}, no : {n}, steps : {1}, mint : {{}}, again : {{}},
             attempts : {1}]
  BY DEF SiteOn
<1> HIDE DEF x
<1>2. Retrying(m, p, t, x).yes = y /\ Retrying(m, p, t, x).no = n
  BY <1>1 DEF Retrying
<1> QED
  BY <1>2 DEF x, Strict

\* The signs a crawler looks for are not refusals, whatever the status.
LEMMA Signs ==
    /\ \A S : \A a \in S \X {"registered"} : Refused(a) = "no"
    /\ \A S : \A a \in S \X {"unregistered"} : Refused(a) = "no"
  BY DEF Refused

LEMMA StrictReads ==
    /\ \A S : Strict(Reads(S))
    /\ \A m, p, t, S : Strict(Retrying(m, p, t, Reads(S)))
  BY Signs, StrictSite, StrictRetrying DEF Reads, Site

LEMMA StrictTwoStep ==
    \A x \in {Eventbrite, Trivago, Oyorooms, Zoho, Vimeo, Shopclues, Snapdeal, Tumblr,
              Quora, Codecademy, TwitterPhone, AppleEmail, Microsoft} : Strict(x)
<1>1. /\ Strict(Eventbrite) /\ Strict(Trivago) /\ Strict(Oyorooms) /\ Strict(Zoho)
      /\ Strict(Vimeo) /\ Strict(Snapdeal) /\ Strict(Tumblr) /\ Strict(Quora)
  BY StrictReads DEF Eventbrite, Trivago, Oyorooms, Zoho, Vimeo, Snapdeal, Tumblr, Quora,
                     Plain, TokenSite
<1>2. Strict(AppleEmail) /\ Strict(Microsoft)
  BY StrictReads DEF AppleEmail, Microsoft, Plain, TokenSite
<1>3. Strict(Shopclues)
  <2>1. \A a \in ({200} \X {"registered"}) \cup ({200} \X {"unregistered", "unknown", "null"}) : Refused(a) = "no"
    BY DEF Refused, OpenStatus
  <2> QED
    BY <2>1, StrictRetrying DEF Shopclues, TokenSite, Site
<1>4. Strict(Codecademy)
  <2>1. \A a \in ({400} \X {"registered"}) \cup ({200, 400} \X {"unregistered"}) : Refused(a) = "no"
    BY DEF Refused, OpenStatus
  <2> QED
    BY <2>1, StrictRetrying DEF Codecademy, TokenSite, Site
<1>5. Strict(TwitterPhone)
  <2>1. \A a \in {<<200, "registered">>} \cup {<<200, "unregistered">>} : Refused(a) = "no"
    BY DEF Refused, OpenStatus
  <2> QED
    BY <2>1, StrictRetrying DEF TwitterPhone, TokenSite
<1> QED
  BY <1>1, <1>2, <1>3, <1>4, <1>5

LEMMA StrictOneStep ==
    \A x \in {Plain, ShaadiPhone, IndianExpress, Envato, Bitmoji, HeadProbe, Freelancer,
              Byju, Housing, Scripbox} : Strict(x)
<1>1. Strict(Plain) /\ Strict(ShaadiPhone) /\ Strict(IndianExpress)
  BY StrictReads DEF Plain, ShaadiPhone, IndianExpress
<1>2. Strict(Envato)
  BY StrictSite DEF Envato, Site, Refused, OpenStatus
<1>3. Strict(Bitmoji)
  BY StrictSite DEF Bitmoji, Site, Refused, OpenStatus
<1>4. Strict(HeadProbe)
  BY StrictSite DEF HeadProbe, Refused, OpenStatus
<1>5. Strict(Freelancer)
  BY StrictSite DEF Freelancer, Site, Refused, OpenStatus
<1>6. Strict(Byju)
  BY StrictSite DEF Byju, Refused, OpenStatus
<1>7. Strict(Housing)
  BY StrictSite DEF Housing, Site, Refused, OpenStatus
<1>8. Strict(Scripbox)
  BY StrictSite DEF Scripbox, Site, Refused, OpenStatus
<1> QED
  BY <1>1, <1>2, <1>3, <1>4, <1>5, <1>6, <1>7, <1>8

\* The crawlers that take silence for an answer read a 200 only.
LEMMA NeverOpenly ==
    \A x \in {Facebook, Pinterest, Adobe, ShaadiEmail, Instagram, Jeevansathi,
              monsterVerdict} : Never("openly", x)
<1>1. Never("openly", Facebook)
  BY NeverSite DEF Facebook, Refused, OpenStatus
<1>2. Never("openly", Pinterest)
  BY NeverSite DEF Pinterest, Site, Refused, OpenStatus
<1>3. Never("openly", Adobe)
  BY NeverSite DEF Adobe, Site, Refused, OpenStatus, Bodies
<1>4. Never("openly", ShaadiEmail)
  BY NeverSite DEF ShaadiEmail, Site, Refused, OpenStatus
<1>5. Never("openly", Instagram)
  BY NeverSite DEF Instagram, Site, Refused, OpenStatus
<1>6. Never("openly", Jeevansathi) /\ Never("openly", monsterVerdict)
  BY NeverSite DEF Jeevansathi, monsterVerdict, Site, Refused, OpenStatus
<1> QED
  BY <1>1, <1>2, <1>3, <1>4, <1>5, <1>6

LEMMA NeverQuietly == Never("quietly", Discord)
  BY NeverSite DEF Discord, Refused, OpenStatus

LEMMA StrictNever == \A x : Strict(x) => Never("openly", x) /\ Never("quietly", x)
  BY DEF Strict, Never

\* Every rule but Google's and Discord's keeps open refusals out, and every one
\* but those of the crawlers that take silence for an answer the quiet ones.
LEMMA OpenlyCrawlers ==
    ASSUME NEW k \in Kinds, NEW s \in DOMAIN Registered(k) \ DeafToRefusal
    PROVE  Never("openly", Registered(k)[s])
<1>1. CASE k = "phone"
  BY <1>1, StrictTwoStep, StrictOneStep, StrictNever, NeverOpenly
     DEF Registered, PhoneCrawlers, Flipkart, Policybazar, Monster, Spicejet, Altbalaji,
         Nobroker, Yatra, Irctc, Gaana, TOI, TimesPrime, jssoCheck, WhatsappWappsure
<1>2. CASE k = "email"
  BY <1>2, StrictTwoStep, StrictOneStep, StrictNever, NeverOpenly
     DEF Registered, EmailCrawlers, Spotify, Monster, Altbalaji, Zoomcar, Duolingo, Firefox,
         Wordpress, Gravatar, wordpressAuthOptions, Strava, Github, TwitterEmail, Patreon,
         Naukri, Bodybuilding, Atlassian, Flickr, Gaana, Flipkart, Irctc, TOI, TimesPrime,
         jssoCheck, NetflixEmail, DeafToRefusal
<1> QED
  BY <1>1, <1>2 DEF Kinds

LEMMA QuietlyCrawlers ==
    ASSUME NEW k \in Kinds, NEW s \in DOMAIN Registered(k) \ TakesSilence(k)
    PROVE  Never("quietly", Registered(k)[s])
<1>1. CASE k = "phone"
  BY <1>1, StrictTwoStep, StrictOneStep, StrictNever
     DEF Registered, PhoneCrawlers, Flipkart, Policybazar, Spicejet, Altbalaji,
         Nobroker, Yatra, Irctc, Gaana, TOI, TimesPrime, jssoCheck, WhatsappWappsure,
         TakesSilence
<1>2. CASE k = "email"
  BY <1>2, StrictTwoStep, StrictOneStep, StrictNever, NeverQuietly
     DEF Registered, EmailCrawlers, Spotify, Altbalaji, Zoomcar, Duolingo, Firefox,
         Wordpress, Gravatar, wordpressAuthOptions, Strava, Github, TwitterEmail, Patreon,
         Naukri, Bodybuilding, Atlassian, Flickr, Gaana, Flipkart, Irctc, TOI, TimesPrime,
         jssoCheck, NetflixEmail, TakesSilence
<1> QED
  BY <1>1, <1>2 DEF Kinds

LEMMA RefusalIsAnError ==
    ASSUME NEW k \in Kinds, NEW s \in DOMAIN Registered(k), NEW a,
           mustFail(k, s, Refused(a))
    PROVE  verdict(Registered(k)[s], a) = "error"
<1>1. Never(Refused(a), Registered(k)[s])
  BY OpenlyCrawlers, QuietlyCrawlers DEF mustFail
<1>2. a \notin Registered(k)[s].yes /\ a \notin Registered(k)[s].no
  BY <1>1 DEF Never
<1> QED
  BY <1>2 DEF verdict

\* A goroutine whose site refused has an error, but for the crawlers named; the
\* UPI crawler never waits for a site's answer.
Refusals ==
    \A s \in Selected(sc) :
        /\ g[s].pc = "check" => s # "UPI"
        /\ mustFail(sc.kind, s, g[s].refused) => g[s].out = "error"

LEMMA NoRefusal == \A k, s : ~mustFail(k, s, "no")
  BY DEF mustFail

LEMMA RefusalsInitially == CrawlInit => Refusals
<1> SUFFICES ASSUME CrawlInit, NEW s \in Selected(sc)
             PROVE  (g[s].pc = "check" => s # "UPI") /\ g[s].refused = "no"
  BY NoRefusal DEF Refusals
<1>1. PICK p : p = IF s = "UPI" THEN "detail"
                   ELSE IF Registered(sc.kind)[s].steps = 2 THEN "token" ELSE "check"
  OBVIOUS
<1>2. p = "check" => s # "UPI"
  BY <1>1
<1>3. g[s] = [pc |-> p, tries |-> 0, minted |-> "none", out |-> "none", refused |-> "no"]
  BY <1>1 DEF CrawlInit, NewGoroutine
<1> QED
  BY <1>2, <1>3

\* Only what the goroutine that moves does matters.
LEMMA RefusalsStep ==
    ASSUME CrawlInv, Refusals, NEW s \in Selected(sc), NEW h,
           g' = [g EXCEPT ![s] = h], sc' = sc,
           h.pc = "check" => s # "UPI",
           mustFail(sc.kind, s, h.refused) => h.out = "error"
    PROVE  Refusals'
<1>1. g'[s] = h /\ \A q \in Selected(sc) \ {s} : g'[q] = g[q]
  BY DEF CrawlInv, CrawlTypeOK
<1> QED
  BY <1>1 DEF Refusals

LEMMA ReturnsRefusals ==
    ASSUME CrawlInv, Refusals, NEW s \in Selected(sc), NEW out,
           NEW refused \in {"no", "quietly", "openly"},
           Returns(s, out, refused), sc' = sc,
           mustFail(sc.kind, s, refused) => out = "error"
    PROVE  Refusals'
<1> DEFINE h == [g[s] EXCEPT !.pc = "returned", !.out = out, !.refused = refused]
<1>1. g \in [Selected(sc) -> Goroutine] /\ g[s] \in Goroutine
  BY DEF CrawlInv, CrawlTypeOK
<1>2. g' = [g EXCEPT ![s] = h]
  BY <1>1 DEF Returns
<1>3. h.pc = "returned" /\ h.out = out /\ h.refused = refused
  BY <1>1 DEF Goroutine
<1> HIDE DEF h
<1> QED
  BY <1>2, <1>3, RefusalsStep

\* A goroutine that goes on keeps what it knows.
LEMMA OthersRefusals ==
    ASSUME CrawlInv, Refusals, NEW s \in Selected(sc), NEW h,
           g' = [g EXCEPT ![s] = h], sc' = sc, h.pc = "check" => s # "UPI",
           h.out = g[s].out, h.refused = g[s].refused
    PROVE  Refusals'
<1>1. mustFail(sc.kind, s, g[s].refused) => g[s].out = "error"
  BY DEF Refusals
<1> QED
  BY <1>1, RefusalsStep

LEMMA ProceedRefusals ==
    ASSUME CrawlInv, Refusals, NEW s \in Selected(sc), NEW proxy, g[s].pc = "token",
           Proceed(s, proxy), sc' = sc
    PROVE  Refusals'
<1>1. CASE expired
  BY <1>1, ReturnsRefusals DEF Proceed
<1>2. CASE ~expired
  <2> DEFINE h == [g[s] EXCEPT !.pc = "check", !.minted = proxy]
  <2>1. g \in [Selected(sc) -> Goroutine] /\ g[s] \in Goroutine
    BY DEF CrawlInv, CrawlTypeOK
  <2>2. g' = [g EXCEPT ![s] = h]
    BY <1>2, <2>1 DEF Proceed
  <2>3. h.out = g[s].out /\ h.refused = g[s].refused
    BY <2>1 DEF Goroutine
  <2>4. s # "UPI"
    BY DEF CrawlInv, TokenOrder
  <2> HIDE DEF h
  <2> QED
    BY <2>2, <2>3, <2>4, OthersRefusals
<1> QED
  BY <1>1, <1>2

LEMMA RefusalsInductive == CrawlInv /\ Refusals /\ [CrawlNext]_crawlVars => Refusals'
<1> SUFFICES ASSUME CrawlInv, Refusals, [CrawlNext]_crawlVars PROVE Refusals'
  OBVIOUS
<1>0. g \in [Selected(sc) -> Goroutine] /\ sc \in Scenarios
  BY DEF CrawlInv, CrawlTypeOK
<1>1. ASSUME NEW s \in DOMAIN g, Go(s) PROVE Refusals'
  <2>0. s \in Selected(sc) /\ g[s] \in Goroutine
    BY <1>0
  <2>1. CASE PooledToken(s)
    BY <2>0, <2>1, ProceedRefusals DEF PooledToken
  <2>2. CASE FetchPage(s)
    <3>1. /\ g[s].pc = "token" /\ sc' = sc
          /\ \/ Proceed(s, TokenProxy(s, sc.named))
             \/ g' = [g EXCEPT ![s].tries = @ + 1]
             \/ \E r \in {"no", "quietly", "openly"} : Returns(s, "error", r)
      BY <2>2 DEF FetchPage, RefusedPage
    <3>2. CASE g' = [g EXCEPT ![s].tries = @ + 1]
      <4> DEFINE h == [g[s] EXCEPT !.tries = @ + 1]
      <4>1. g' = [g EXCEPT ![s] = h]
        BY <1>0, <3>2
      <4>2. h.out = g[s].out /\ h.refused = g[s].refused /\ h.pc = "token"
        BY <2>0, <3>1 DEF Goroutine
      <4> HIDE DEF h
      <4> QED
        BY <2>0, <3>1, <4>1, <4>2, OthersRefusals
    <3> QED
      BY <2>0, <3>1, <3>2, ProceedRefusals, ReturnsRefusals
  <2>3. CASE Answer(s)
    <3>1. PICK a \in rule(s).answers : Returns(s, verdict(rule(s), a), Refused(a))
      BY <2>3 DEF Answer
    <3>2. s # "UPI" /\ sc' = sc /\ Refused(a) \in {"no", "quietly", "openly"}
      BY <2>0, <2>3 DEF Answer, Refusals, Refused
    <3>3. mustFail(sc.kind, s, Refused(a)) => verdict(rule(s), a) = "error"
      BY <1>0, <2>0, <3>2, SelectedSites, RefusalIsAnError DEF rule
    <3> QED
      BY <2>0, <3>1, <3>2, <3>3, ReturnsRefusals
  <2>4. CASE RequestFails(s)
    BY <2>0, <2>4, ReturnsRefusals, NoRefusal DEF RequestFails
  <2>5. CASE Record(s)
    <3> DEFINE h == [g[s] EXCEPT !.pc = "recorded"]
    <3>1. g' = [g EXCEPT ![s] = h] /\ sc' = sc
      BY <1>0, <2>5 DEF Record
    <3>2. h.out = g[s].out /\ h.refused = g[s].refused /\ h.pc = "recorded"
      BY <2>0 DEF Goroutine
    <3> HIDE DEF h
    <3> QED
      BY <2>0, <3>1, <3>2, OthersRefusals
  <2> QED
    BY <1>1, <2>1, <2>2, <2>3, <2>4, <2>5 DEF Go
<1>2. ASSUME NEW out \in {"exists", "absent", "unknown"}, UPIReturns(out) PROVE Refusals'
  BY <1>0, <1>2, ReturnsRefusals, NoRefusal DEF UPIReturns
<1>3. CASE Return \/ Expire \/ UNCHANGED crawlVars
  <2>1. UNCHANGED <<sc, g>>
    BY <1>3 DEF Return, Expire, crawlVars
  <2> QED
    BY <2>1 DEF Refusals
<1> QED
  BY <1>1, <1>2, <1>3 DEF CrawlNext

\* Of all registered crawlers only Google's and Discord's make a verdict of an
\* open refusal, and only those of TakesSilence one of an answer that says
\* nothing, through both steps, retries and the deadline
\* (errNoConditionMatched and the crawlers' conditions).
THEOREM RefusalIsNoVerdict == Spec => []NoVerdictFromRefusal
<1>1. ASSUME CrawlInv, Refusals PROVE NoVerdictFromRefusal
  <2> SUFFICES ASSUME NEW i \in DOMAIN results,
                      mustFail(sc.kind, results[i].site, g[results[i].site].refused)
               PROVE  results[i].out \in {"failed", "timeout"}
    BY DEF NoVerdictFromRefusal
  <2>1. results[i].site \in Selected(sc)
    BY <1>1, ResultsType
  <2>2. g[results[i].site].out = "error"
    BY <1>1, <2>1 DEF Refusals
  <2>3. g[results[i].site].out = "error" <=> results[i].out \in {"failed", "timeout"}
    BY <1>1, Zenon DEF CrawlInv, OneResultEach
  <2> QED
    BY <2>2, <2>3
<1>2. CrawlSpec => [](CrawlInv /\ Refusals)
  BY CrawlInitially, CrawlInductive, RefusalsInitially, RefusalsInductive, PTL DEF CrawlSpec
<1> QED
  BY <1>1, <1>2, UPICallIsOneSite, PTL DEF ImplementsCrawl
=============================================================================
