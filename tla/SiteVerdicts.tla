---------------------------- MODULE SiteVerdicts ----------------------------
(***************************************************************************)
(* The site crawlers (internal/crawler/*.go): which answer of a site makes *)
(* a crawler say that the account exists, that it does not, or neither.    *)
(*                                                                         *)
(* An answer is a status and what the body holds, seen through the rule of *)
(* the crawler that reads it:                                              *)
(*   "registered", "unregistered"  a sign the crawler looks for            *)
(*   "unknown"    the field it reads, with a value it has no rule for      *)
(*   "null"       that field, null                                         *)
(*   "missing"    well formed, without anything the crawler looks for      *)
(*   "garbled"    not what the crawler can decode                          *)
(*   "captcha"    a challenge in a form this crawler looks for             *)
(* The first sign in the order of the code's tests names a body with two.  *)
(* A challenge or a notice that the crawler does not look for is "missing" *)
(* or "garbled" to it: there is nothing else it could tell it from.        *)
(* 429 stands for every status that no crawler asks for by number.         *)
(***************************************************************************)
EXTENDS Naturals

Statuses == {200, 204, 400, 403, 404, 409, 422, 429, 500}
Bodies == {"registered", "unregistered", "unknown", "null", "missing",
           "garbled"}

\* What a request with a body in its answer can get; 204 has none.
Content == (Statuses \ {204}) \X Bodies
Answers == Content \cup {<<204, "none">>}
\* The same, with the challenges of a site whose crawler knows some.
Challenged == Answers \cup ((Statuses \ {204}) \X {"captcha"})
\* What a HEAD request can get.
HeadAnswers == Statuses \X {"none"}

\* Step 1 of a two-step crawler: pages with everything the token needs, or not.
Pages == Statuses \X {"full", "partial"}
Full(statuses) == statuses \X {"full"}

\* One request: the answers that mean yes, and those that mean no.  Any other
\* answer is errNoConditionMatched or an error of its own.
SiteOn(answers, yes, no) ==
    [answers |-> answers, yes |-> yes, no |-> no, steps |-> 1, mint |-> {},
     again |-> {}, attempts |-> 1]
Site(yes, no) == SiteOn(Answers, yes, no)

\* Two requests: "mint" are the pages a token is made from, "again" the pages
\* after which GenerateToken fetches once more, "attempts" times at most.
Retrying(mint, again, attempts, site) ==
    [site EXCEPT !.steps = 2, !.mint = mint, !.again = again, !.attempts = attempts]
TokenSite(mint, site) == Retrying(mint, {}, 1, site)

\* Most crawlers: one field (or text) of an answer with one status.
Reads(statuses) == Site(statuses \X {"registered"}, statuses \X {"unregistered"})
Plain == Reads({200})

-----------------------------------------------------------------------------
(* Two-step crawlers                                                       *)

Eventbrite == TokenSite(Full(Statuses), Plain)  \* exists and user_id / neither
Trivago == TokenSite(Full(Statuses), Plain)
Oyorooms == TokenSite(Full(Statuses), Reads({422}))  \* error.code 68 / 70
Zoho == TokenSite(Full(Statuses), Plain)
Vimeo == TokenSite(Full(Statuses), Reads(Statuses))
\* user_exists: 1 or true is yes, whatever else is there is no.
Shopclues == TokenSite(Full(Statuses),
    Site({200} \X {"registered"}, {200} \X {"unregistered", "unknown", "null"}))
Snapdeal == TokenSite(Full(Statuses), Plain)
Tumblr == TokenSite(Full({200}), Plain)
Quora == TokenSite(Full({200}), Reads(Statuses))
\* "is already taken" is a 400; an empty object is a 400 or a 200.
Codecademy == TokenSite(Full(Statuses),
    Site({400} \X {"registered"}, {200, 400} \X {"unregistered"}))
\* msTokenAttempts: the page without sFT and sCtx is worth another fetch.
MicrosoftToken == [mint |-> Full({200}), again |-> {200} \X {"partial"}, attempts |-> 4]
Microsoft == Retrying(MicrosoftToken.mint, MicrosoftToken.again,
                      MicrosoftToken.attempts, Plain)
\* "JavaScript is not available." and too many attempts are errors.
TwitterPhone == TokenSite(Full({200}),
    SiteOn(Challenged, {<<200, "registered">>}, {<<200, "unregistered">>}))
AppleEmail == TokenSite(Full(Statuses \ {403}), Plain)

-----------------------------------------------------------------------------
(* One-request crawlers                                                    *)

\* Texts of any answer but a 500.
ShaadiPhone == Reads(Statuses \ {500})
IndianExpress == Reads(Statuses \ {500})

\* 204 with a cookie ("registered") is yes, anything else is no: any status,
\* and any answer without the cookie ("missing").
GoogleAnswers == Statuses \X {"registered", "missing"}
GoogleEmail == SiteOn(GoogleAnswers, {<<204, "registered">>},
                      GoogleAnswers \ {<<204, "registered">>})

\* Two notices are known and are errors; any other answer that decodes without
\* an account has none.
Facebook == SiteOn(Challenged, {<<200, "registered">>},
                   {200} \X {"unregistered", "null", "missing"})

NetflixEmail == Plain
TwitterEmail == Plain
Patreon == Plain
Atlassian == Plain
Flickr == Plain
Flipkart == Plain
jssoCheck == Plain
Gaana == jssoCheck
TOI == jssoCheck           \* "unregistered" includes UNVERIFIED_*
TimesPrime == jssoCheck    \* UNVERIFIED_* is "unknown"
WhatsappWappsure == Plain
wordpressAuthOptions == Plain
Wordpress == wordpressAuthOptions
Gravatar == wordpressAuthOptions
Altbalaji == Plain
Duolingo == Plain
Firefox == Plain
Github == Plain
Irctc == Plain
Nobroker == Plain
Policybazar == Plain
Spicejet == Plain
Spotify == Plain
Strava == Plain
Yatra == Plain
Zoomcar == Plain

\* data of an answer that names its source_field: nothing, null, {} and [] are
\* no, anything else is yes.
Pinterest == Site({200} \X {"registered", "unknown"},
                  {200} \X {"unregistered", "null", "missing"})

\* An empty or null body is no; an answer that is not an array counts by its text.
Adobe == Site({200} \X (Bodies \ {"unregistered", "null"}),
              {200} \X {"unregistered", "null"})

Envato == Site(Statuses \X {"registered"}, {<<204, "none">>})
Bitmoji == Site({<<200, "registered">>}, {<<204, "none">>})
HeadProbe == SiteOn(HeadAnswers, {<<200, "none">>}, {<<404, "none">>})
Naukri == HeadProbe
Bodybuilding == HeadProbe

\* error is 0 when the answer has no such field.
ShaadiEmail == Site({200} \X {"registered"},
                    {200} \X {"unregistered", "null", "missing"})

\* A code that is not EMAIL_ALREADY_REGISTERED, and a captcha_key, are no.
Discord == SiteOn(Challenged, Statuses \X {"registered"},
                  Statuses \X {"unregistered", "unknown", "null", "captcha"})

Freelancer == Site({<<409, "registered">>}, {<<200, "unregistered">>})

\* The absence of error_type is the negative sign, whatever else there is.
Instagram == Site({200, 400} \X {"registered"},
                  {200} \X {"unregistered", "null", "missing"})

\* isPasscodeSet counts whatever its value; "Please enable cookies." is an error.
Byju == SiteOn(Challenged, {200} \X {"registered", "unknown", "null"},
               {<<400, "unregistered">>})

\* truthy(present) of the first checkDetail; "null" when that has none.
Housing == Site({200} \X {"registered", "unknown"}, {200} \X {"unregistered", "null"})

\* Everything that decodes and is not the negative text is yes, a notice too.
Jeevansathi == Site({200} \X {"registered", "unknown", "null", "missing"},
                    {200} \X {"unregistered"})
monsterVerdict == Site({200} \X {"registered", "unknown", "null", "missing"},
                       {200} \X {"unregistered"})
Monster == monsterVerdict

Scripbox == Site({200} \X {"registered", "unknown"}, {<<404, "unregistered">>})

-----------------------------------------------------------------------------
\* The crawlers main registers, by kind and website.
PhoneCrawlers ==
    [FLIPKART |-> Flipkart, INSTAGRAM |-> Instagram, POLICYBAZAR |-> Policybazar,
     BYJU |-> Byju, MONSTER |-> Monster, SPICEJET |-> Spicejet,
     ALTBALAJI |-> Altbalaji, HOUSING |-> Housing, NOBROKER |-> Nobroker,
     JEEVANSATHI |-> Jeevansathi, INDIANEXPRESS |-> IndianExpress,
     YATRA |-> Yatra, IRCTC |-> Irctc, GAANA |-> Gaana, TOI |-> TOI,
     TIMES_PRIME |-> TimesPrime, SHAADI |-> ShaadiPhone, FACEBOOK |-> Facebook,
     SNAPDEAL |-> Snapdeal, OYOROOMS |-> Oyorooms, ZOHO |-> Zoho,
     SHOPCLUES |-> Shopclues, MICROSOFT |-> Microsoft, TWITTER |-> TwitterPhone,
     WHATSAPP |-> WhatsappWappsure]
EmailCrawlers ==
    [SPOTIFY |-> Spotify, FREELANCER |-> Freelancer, MONSTER |-> Monster,
     ALTBALAJI |-> Altbalaji, ZOOMCAR |-> Zoomcar, DUOLINGO |-> Duolingo,
     SCRIPBOX |-> Scripbox, FIREFOX |-> Firefox, WORDPRESS |-> Wordpress,
     GRAVATAR |-> Gravatar, STRAVA |-> Strava, GITHUB |-> Github,
     PINTEREST |-> Pinterest, TWITTER |-> TwitterEmail, ADOBE |-> Adobe,
     ENVATO |-> Envato, PATREON |-> Patreon, BITMOJI |-> Bitmoji,
     DISCORD |-> Discord, NAUKRI |-> Naukri, BODYBUILDING |-> Bodybuilding,
     ATLASSIAN |-> Atlassian, FLICKR |-> Flickr, SHAADI |-> ShaadiEmail,
     GAANA |-> Gaana, JEEVANSATHI |-> Jeevansathi, FLIPKART |-> Flipkart,
     INSTAGRAM |-> Instagram, IRCTC |-> Irctc, HOUSING |-> Housing, TOI |-> TOI,
     TIMES_PRIME |-> TimesPrime, GOOGLE |-> GoogleEmail, NETFLIX |-> NetflixEmail,
     FACEBOOK |-> Facebook, SNAPDEAL |-> Snapdeal, EVENTBRITE |-> Eventbrite,
     TRIVAGO |-> Trivago, VIMEO |-> Vimeo, ZOHO |-> Zoho, SHOPCLUES |-> Shopclues,
     TUMBLR |-> Tumblr, QUORA |-> Quora, CODECADEMY |-> Codecademy,
     MICROSOFT |-> Microsoft, APPLE |-> AppleEmail]
Registered(kind) == IF kind = "phone" THEN PhoneCrawlers ELSE EmailCrawlers

\* Mutant of verdict: an answer without a rule is a "no".
verdictNoError(rule, answer) == IF answer \in rule.yes THEN "exists" ELSE "absent"

\* What a crawler makes of a site's answer.
verdict(rule, answer) ==
    IF answer \in rule.yes THEN "exists" ELSE IF answer \in rule.no THEN "absent" ELSE "error"

\* SiteEgress and ProxyForSite: a site's vendor if it is configured, else the
\* default; WhatsApp's vendor and Tumblr's token page are reached directly.
SiteEgress(site) ==
    IF site = "APPLE" THEN "nimble" ELSE IF site = "MICROSOFT" THEN "smartproxy"
    ELSE "default"
ProxyForSite(site, named) ==
    IF SiteEgress(site) \in named THEN SiteEgress(site) ELSE "default"
CheckProxy(site, named) ==
    IF site = "WHATSAPP" THEN "direct" ELSE ProxyForSite(site, named)
TokenProxy(site, named) ==
    IF site = "TUMBLR" THEN "direct" ELSE ProxyForSite(site, named)
=============================================================================
