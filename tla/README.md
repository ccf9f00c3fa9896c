# go-you: a TLA+ model of the persona service

go-you answers `POST /v1/persona`: for a phone and/or an email it crawls many
sites, looks up meta, breach and static data, asks an ML service for scores, and
assembles one JSON document. This directory models the parts of it in which
concurrency, caching, failure and time make correctness hard to see or to test.

## The system

| component | state | operations | interacts with |
|---|---|---|---|
| token pool (`internal/crawler/tokenpool`) | warm tokens with use counts and creation times; one refill loop per pool with its wait; started flag | `Start`, `Stop`, `run`, `refillOnce` (filter, mint, add, shrink), `Get` | two-step crawlers take tokens (`tokenVia`); generators call the sites; `main` starts and stops it |
| config fetcher (`internal/appconfig/fetcher.go`) | `configMap`, the audit id reached | `Start` (seed, paged load), `fetchUpdates` every 5 s, `refreshKey`, `Get` | MySQL tables changed by others; every component calls `Get` |
| persona pipeline (`internal/handler`) | per request: lanes, response under assembly | `Handle`, `Build`, `runLanes`, `applyIntelligence`, `computeTopLevelStatus` | crawler runner, meta, static data, ML service, caches |
| persona cache (`handler/cache_decorator.go`, `internal/personacache`) | DynamoDB items with a lifetime | `Gate` (read), `Run` (write-back goroutine), `Get`, `Put` | shared by all requests and all instances |
| meta cache (`internal/metacache`) | DynamoDB items keyed by identifier only | `Get`, `Put` | phone and email lanes of all tenants |
| common data (`internal/commondata`) | the enrich document per phone, email and name | `Fetch` (read, fan out, merge, write back) | the persona table, the enrich vendor |
| crawler runner (`crawler/runner.go`) | results of one batch | `Run`, `RunSites` | one goroutine per site under the request's deadline |
| site crawlers (`internal/crawler/*.go`) | none (shared HTTP transports) | `Check`, `GenerateToken`, `CheckWithToken` | the sites |
| UPI aggregation (`crawler/upi`) | profiles under aggregation | TPI, LITE and ENRICHED stages with early exits | UPI sources |
| intelligence (`internal/intelligence`) | none | `Run` | the ML service |
| transform (`handler/transform*.go`) | none | client view of a response | |
| meta, breach, static data, auth, analytics | none | lookups and one event per response | vendors, MySQL, Kinesis |

What is hard about it: a pool counted under one lock and filled under another;
a poll that follows an audit log while the tables change between its queries;
values read outside the lock and stored later; sections written back by
goroutines nobody waits for, which share memory with the rest of the request;
lifetimes counted from clocks read at different moments; retries with back-off;
shutdown in the middle of any of this. The hazards, each at its line, are listed
in `PROJECT.json`.

## Modules

| module | models | state ↔ code |
|---|---|---|
| `TokenPool` | one pool, its loop(s), generators, `Start`/`Stop`, the crawlers that use it | `tokens` = `Pool.tokens` (use count, age); `pc`, `wait`, `timer`, `attempted`, `pending`, `succeeded` = the locals of `run` and `refillOnce`; `started`, `cancelled`, `stopped` = `Manager`; `check` = a crawler's copy of a token; `lag` = how long ago `filter` read its clock; `late` (history) = cycles begun after the cancellation |
| `TokenPoolProofs` | theorems about it | |
| `ConfigFetcher` | the fetcher, the three tables, callers of `Get` | `base`, `over`, `audit` = the tables; `configMap`, `auditID` = `Fetcher`; `lpc`, `mode`, `offset`, `lastPage`, `latest`, `todo` = the locals of `Start` and `fetchUpdates`; `rpc`, `rkey`, `rval` = each thread inside `refreshKey`; `missed`, `harmed` = history |
| `ConfigFetcherProofs` | theorems about it | |
| `PersonaPipeline` | requests through `Handle` and `Build`, the cache decorator, the persona table | `pc`, `lane` = where a request and its lanes are; `dec` = `cacheDecorator`; `resp`, `common`, `status` = `PersonaResponse`; `ml` = `intelligence.Output`; `putter`, `doc` = the write-back goroutine; `cache` = the table; `start` = when a crawl began |
| `SiteVerdicts` | the site crawlers, one rule each: which answers of the site mean yes, which mean no, and how a two-step crawler gets its token | no state; `PhoneCrawlers` and `EmailCrawlers` are the two registries |
| `CrawlRunner` | one section's crawl: selection, a goroutine per site, deadline, collection, the accounts shown to the client | `sc` = the tenant's configuration and the registered crawlers; `expired` = the context's deadline; `g` = the goroutines with their token; `results`, `returned` = the locals of `run`; `shown` = the client's section; `refused` (history) = the site did not answer the question at one of the steps: openly (status or known challenge) or quietly (nothing the crawler looks for) |
| `UPIEngine` | one call of the UPI crawler: sampling, the paid sources, the LITE and ENRICHED fan-outs, early exits, aggregation | `meta` = the sampled configuration; `uphase`, `tpiLeft`, `tasks`, `arrived` = where `aggregate` is and what its collectors hold; `lite`, `enriched`, `agg` = its locals; `uexpired` = the leaf timeout; `fan` (history) = the probes of the last fan-out |
| `PhoneCrawl` | the two together: UPI is one of the sites, the request's deadline is also the call's | |
| `YouConfig` | the gates of a tenant's `youConfig` | a record of the switches that are on |
| `LookupPromise` | what a lookup with a shared cache promises, without the cache (abstract) | |
| `CommonData` | the common_data lane of several requests and the enrich documents they share | `doc` = the enrich rows of the persona table; `e` = one `Fetch`: its time, what it read, what its loop has still to visit (`left`), its goroutines (`running`), who holds its lock (`mu`), its results, its background write; `alive` = no concurrent map write has ended the process |
| `MetaLane` | the phone and email meta lanes and the meta cache | `mdoc` = the meta table; `ml` = one lane: phase, meta, background write |
| `Lookups` | `CommonData` and `MetaLane` side by side, with a clock | `clock` |
| `PersonaProofs` | theorems about `PersonaPipeline` | |
| `CrawlProofs`, `UPIProofs` | theorems about `PhoneCrawl`: about the crawl, without looking into the UPI call, and about the verdict of that call | |
| `LookupProofs`, `MetaProofs` | theorems about the common_data lane and about the meta lanes of `Lookups` | |
| `MCTokenPool`, `MCPersonaPipeline`, `MCPhoneCrawl`, `MCLookups` | instances for TLC (`ConfigFetcher` needs none) | |

Each action is one atomic piece of the code: a critical section, a query, a
network call's return, a goroutine's start or end. The steps between which the
code holds no lock are separate actions, so that anything may happen in between.

What is abstracted, beyond names and formatting:

* Time in `TokenPool` is a tick that ages every token and timer; ages and use
  counts saturate just above the limits that tell them apart. `MaxLag` bounds how
  long `filter` may wait for the lock after reading its clock.
* A token's content, a generator's network exchange and the check it serves are
  outcomes (success or failure).
* A configuration row is absent or NULL, valid JSON (one of `Values`), or text
  that is not JSON, which `parseValue` turns into an empty object. Pages are taken
  in key order with `LIMIT`/`OFFSET` over the current table.
* A section is who it was crawled for, when the crawl began, its status code and
  the source of each `intelligence_data` field. The crawlers, meta, breach and
  static lookups of one section are one step, whose failures are folded into the
  section, as the code does. `parsePhone` is a function given with the
  instance that maps spellings to one identifier or to nothing.
* The data race between `json.Marshal` in the write-back goroutine and
  `mergeIntelligenceData` is a choice, per field, between the old and the new
  value. A torn string header could also crash the process; `Crash` covers that.
* The top-level `intelligence_data` and `prediction` are not followed. In
  `PersonaPipeline` the crawl of a section, its meta lane and the common_data lane
  are single steps; `PhoneCrawl` and `Lookups` are what happens inside them.
* A site's answer is a status and what the body holds for the rule that reads it
  (a sign for yes, a sign for no, an unknown value, null, a missing field, not
  decodable, or a challenge that this crawler tests for). A challenge it does not test
  for is to it a body without what it looks for. Requests, headers and signatures are left out; a request
  may fail at any step. Statuses no crawler asks for by number are one status.
* A UPI profile is its source, suffix, app, verdict and whether it has a name.
  Weighted sampling is any sample, as every weight above zero allows it.
* An enrichment value is named by the request whose call returned it, a meta by the
  lane whose lookups returned it, so that a property can say whose answer is served
  and how old it is. What a meta contains is a function of the vendors' answers.
* The text `EnrichKey` hashes is the sequence of its parts between colons (`Pieces`), so
  fields with a colon in them and absent fields can collide as they do in the code;
  md5 is taken for injective.
* The loop of `Fetch` in the common_data lane writes `results` without the lock. If it
  does so while a goroutine is between its lock and its unlock, either both writes land
  (`Serve`) or the process is lost (`ConcurrentWrite`, `alive`): Go ends a process in which
  it detects two writers of a map, and nothing is claimed of one in which it does not.
* The lookups of one meta `Fetch` are one step: each fills in a field of its own,
  which is read only after the barrier.
* A lane that is off begins as done. Only requests whose two lookups of a lane are
  of interest share an instance (`LookupCases`).

## Runs

| run | properties | bounds | result |
|---|---|---|---|
| `token_pool` | `TypeOK`, `PoolBound`, `BackoffOnlyWhenShort`, `OneLateCycle`, `NoRefillAfterStop`, `ShortPoolRetries`, `SpentTokenEvicted`, `StopReturns` | Size 2, 3 token identities, TTL and UseLimit 1, back-off 1 to 3, 2 Start calls, 1 crawler | holds |
| `token_pool_overuse` | `NeverOverused` | the same pool, 2 crawlers | violated: finding 1 |
| `config_protocol` | `TypeOK`, `StaleIsPending`, `WarmStart`, `Converges` | 2 keys, pages of 1, override table, 2 writes, no failure | holds |
| `config_faults` | `AuditMonotone`, `NeverUnresolved` | 1 key, a blank row, every query may fail, one `Get`, 2 writes | holds |
| `config_advance` | `AdvanceAfterRefresh` | 1 key, every query may fail, 2 writes | violated: finding 2 |
| `config_race` | `StaleIsPending` | 1 key, one concurrent `Get`, 3 writes, no failure | violated: finding 3 |
| `persona_serve` | `TypeOK`, `ServedToOwner`, `EveryRequestAnswered` | 2 requests, 2 tenants, two spellings of a phone, an invalid one, one email, common data, 1 crash | holds |
| `persona_cache` | `FreshEnough`, `StaticWins` | 2 requests for one key, lifetime 1, clock to 1, `digital_age` and `linked_ids` | holds |
| `persona_intel` | `OwnIntelligence` | 2 requests, `linked_ids` | violated: finding 4 |
| `crawl_sections` | `CrawlTypeOK`, `OneResultEach`, `NoVerdictFromRefusal`, `TokenSpentWhereMinted`, `ShownAsConfigured`, `NoOnlyIfAllDeny`, `SuffixByPriority`, `PhonePeAgrees`, `ImplementsCrawl`, `RunReturns` | every registered crawler alone with every answer, pairs and selections of five, four UPI configurations with two or three suffixes | holds |
| `crawl_upi_name` | `NamePreferred` | UPI alone, the same configurations | violated: finding 5 |
| `lookup_caches` | `LookupTypeOK`, `AgeBounded`, `NoCheckLost`, `EnrichPromise`, `MetaPromise`, `LookupsEnd` | ten sets of up to three requests, lifetimes 2, clock to 2 | holds |

Why the bounds are enough: a pool of two has full, partly successful
and failed cycles, is empty, one short and full when it is counted, and the third
token identity is what an overfilled pool would hold; a
back-off of 1 to 3 is reached, capped and reset; the second `Start` is what
would break the bound on the pool. Two keys in pages of one make a page
boundary, a last full page and an empty page, and two writes put one change on
each side of any query. Two requests are two writers of a cached section, or a
writer and a reader; the clock reaches the second in which an item expires, and a
write-back may land one tick after its gate read the clock. A crawler shares
nothing with another but the results, the deadline and the selection, so alone it
shows all its verdicts and in a pair all its interleavings; the selections
put each gate (site, kind, client response, global list, default list) on both
sides. The UPI configurations have a source that is not ported, one that
answers about another suffix than it was asked, two sources on one suffix, equal
priorities, fewer sources than suffixes and more, and all three early exits. Three
requests on one enrich document are a first call, a renewal by a request that only
read the check, and a request that reads it after the first document would have
expired; a clock to 2 reaches the second of expiry of a lifetime of 2. Two tenants with
different checks merge into one document; a name that reads like an email and a name with
a colon in it lead to another request's document; one number is given in two forms, and an
address has no domain.
Deadlock is not checked for the fetcher
(an idle tick changes nothing) and the others (all requests may be answered).

Fairness: Go's scheduler runs every runnable goroutine, so each loop
(`LoopStep`), the fetcher's loop and each request's own steps (`Serve`) are weakly
fair, and so are time and the return of `Stop` once its loops have ended. The
generators' and crawlers' exchanges end because their HTTP clients have timeouts
and the request a deadline. Nobody is obliged to call `Start`, `Stop`, `Get` or
to send a request, no generator to succeed, no write-back to land, and no writer
to write. A hanging DynamoDB read is excluded: `Gate` uses a context without a
deadline. In `PhoneCrawl` every site's goroutine, the UPI call and the return of
`run` are weakly fair. In `Lookups` only what carries the request's deadline or a
client's timeout is: the steps of a common_data `Fetch` and of a phone meta lane, and the cache
read and the end of an email meta lane. Nothing is assumed of the background writes,
which run on `context.Background()`, nor of an email's DNS lookups, which take no
context. `LookupsEnd` therefore lets an email lane wait for them, and shows that no lane
waits for a write. The deadline itself need not pass and the clock need not advance:
`RunReturns` and `LookupsEnd` hold without.

What the detailed specifications implement: `EnrichPromise` and `MetaPromise` are
`LookupPromise!PromiseSpec` under the mappings `Promise` and `Shared`. A request's
subject is the text its phone, email and name join to (its kind and identifier, for meta),
its items are the checks its tenant has enabled, its answer is everything in `results`,
enabled or not, the facts are the calls that returned a value, and the cache is not part of
the mapping: it may not make a difference to what may be
answered. `EnrichPromise` also says when that text stands for the request itself
(`OwnFields`): among requests whose fields are present in the same places and hold no colon,
and among requests with the same fields. `ImplementsCrawl` says that the runner cannot tell the UPI call, with all
its phases, from a site that returns some verdict in one step.

### Findings

1. `Pool.Get` does not look at use counts or ages; a token at its limit is handed
   out until the next cycle filters it. The comment in `manager.go` on a limit of
   one says this never happens.
2. `fetchUpdates` stores the new audit id although a `refreshKey` failed; its
   comment says only after a successful refresh.
3. A `Get` on a missing key can store an old row over the one the loop has just
   stored, and the audit id is already past that change.
4. The write-back goroutine shares the section with `applyIntelligence`: the table
   may hold ml_service values, which later hits take for static signals.
5. `aggProfile` restricts the candidate suffixes to those of the hits with a name, then
   takes the first hit with the winning suffix, with or without a name: when two
   sources report one suffix, the order in which they arrive decides whether the name
   is lost.

Met while modelling, without a run of their own:

* `commondata.go:219` and `228` write the `results` map without the lock while the goroutines
  started before write it under the lock; `exposed` in `Lookups` says which requests can meet this.
* `EnrichKey` gives one document to two requests whose present fields join to one text: an
  email given as a name, or a colon in a name.
* The header of `tier1.go` (lines 14-17) says that a captcha is surfaced as an error. Google
  takes any answer but a 204 with a cookie for a no, and Facebook (line 268) any decodable
  notice it does not know. Instagram, Jeevansathi, Monster, Pinterest, Adobe and Shaadi's email crawler
  also decide on an answer without what they look for, and Discord takes a captcha for a verdict.
  `NoVerdictFromRefusal` names them all (`DeafToRefusal`, `TakesSilence`) and holds of the others.
* A UPI call may say no although a paid source failed (`engine.go:84-91`), although suffixes went
  to a source that is not ported (`engine.go:190-193`), and although a LITE source had found the
  number, once the ENRICHED phase is over.
* The comment at `youconfig.go:238` says that `IsPhoneInfoCachingEnabled` includes the tenant's
  caching switch, which the code does not look at; the one at `youconfig.go:52` says that UPI and
  WHATSAPP are never crawled, but they are registered as crawlers.
* A meta whose lookups all failed is cached for two days like any other, and so is the error of an
  address without a domain.

Finding 2 has a second form: when the override query fails, `refreshKey` stores
the base value although an override exists, and the round still counts as done.

## Proofs

Everything is proved for all values of the constants, from the named assumptions
of the modules alone.

`TokenPoolProofs` proves the type invariant and the four safety properties of the
pool. None of `PoolBound`, `BackoffOnlyWhenShort` and `OneLateCycle` is inductive.
`IInv` adds: at most one loop has been started (`OneLoop`), without which two loops
could each count the same missing token; what a loop has attempted is what
succeeded, failed or is pending, and never more than the pool lacked when it was
counted (`CycleCounts`), which carries the bound from the count to the adds although
the lock was released; how many cycles have begun since the cancellation, by
program counter (`LateCycles`); and that a returned `Stop` means every loop is gone
(`StopOrder`). One lemma per action shows that it keeps `IInv`; four
lemmas describe the pool operations (`filter`/`shrink`, `add`, counts, defaults).
`NoRefillAfterStop` is an action property: from `StopOrder`, no step of a generator
is possible.

`ConfigFetcherProofs` proves the type invariant, and `NoLostChange`: if no `Get` is
in flight and refreshKey's two queries succeed, `StaleIsPending` holds whatever the
other queries do. Its invariant `Pending` says where a change can be: in the log
after the audit id, still to do in this round, or read by the thread in
`refreshKey` and not changed since (`StaleAhead`, `WorkAudited`, `ReadCurrent`), given
the order of the loop's phases and of the ids (`LoopOrder`, `IdOrder`). The two
assumptions of the theorem are findings 2 and 3: the runs
`config_advance` and `config_race` show that neither can be dropped.

Three more facts of the fetcher are proved. `AuditNeverGoesBack`: a round ends ahead
of where it began (`RoundAhead`), so a failed `latestAuditID` cannot set the id back.
`ResolvedStays`: nothing takes a key out of the map. `StartIsWarm`: after `Start` every
key whose row nobody has changed is in the map with its value, for any number of keys
and any page limit, with `Get`s in flight and rows inserted between two pages. Its
invariant `Warm` says that what a thread has read of an untouched key is its value
(`Reading`), and that the pages leave no such key behind (`LeavesNone`): a key whose place
in the order is at or below the offset has been loaded or is about to be. Inserting a row
moves keys to later places only (`RankGrows`). The last page ends the load because the
places of n rows are exactly 1..n (`RankCovers`: the places are an injection between
two finite sets of one size, so no induction is needed) and hence a page shorter than its
limit reaches the last row (`PageSize`). A deletion moves keys to earlier places, which is
why `WarmStart` excludes it. The theorem assumes that refreshKey's own queries succeed, as
a failed one is not repeated until the key changes again.

`PersonaProofs` proves the four safety properties of the pipeline, for any number of
requests, tenants and spellings and any lifetime. None is inductive, as each speaks of a
response or of a replay, and the cache connects requests that never meet. `PersonaInv`
follows a section from its crawl to its replay: `LaneInv` (a lane that runs or has run
has the key of its own request, and a section of its own no older than its gate's clock), `PutInv` (the same of
what the write-back goroutine has marshalled), `ItemInv` (an item is filed
under the key of whom its section was crawled for, and expires at most a lifetime after
the crawl began) and `RequestInv` (a request goes on only when its lanes have ended).
`FreshEnough` then follows for a read at any time, because the expiry is counted from a clock
that was read before the crawl, however late `PutItem` lands. For `StaticWins` every
section, wherever it is, is `Sound`: only `digital_age` and `linked_ids` come from static data,
and whichever of them did still does. A marshalling that mixes old and new fields, item by
item, preserves that, so the race is harmless for this property.

`CrawlProofs` first proves `ImplementsCrawl` (`UPICallIsOneSite`): every step of the
composed system is a step of `CrawlSpec` or leaves its variables alone. Everything
else is then proved about `CrawlSpec`, without looking into the UPI call, and carried
over. The invariant `CrawlInv` adds to the types and `OneResultEach` how a goroutine
gets its token (`TokenOrder`: one that asks for a token has a crawler with two steps,
and a token at hand was made through the token's proxy) and that a recorded goroutine
has its result in (`Collected`, without which nothing says that `run` has all of them
when it returns). The types need a fact about all crawlers: none
tries its token page more than four times (`Attempts`, from the rules of
`SiteVerdicts`). `ShownAsConfigured` follows from `Collected` and from the list of
pooled sites having no site with a crawler. `NoVerdictFromRefusal` has its own
invariant (`Refusals`) and rests on two facts about the rules of `SiteVerdicts`, checked crawler by
crawler: which never decide on an open refusal (`OpenlyCrawlers`) and which never on an
answer without what they look for (`QuietlyCrawlers`). The scenarios are any tenant's websites and any
subset of the registered crawlers (`ScenariosAssumption`).

`UPIProofs` proves what the verdict of a UPI call may be, for every configuration the
sampling yields, any mix of sources and any order in which probes return. The invariant
`UPIInv` says that a finished call's aggregate is that of the list which decided it (LITE for
an early exit, ENRICHED otherwise), that these lists hold nothing but answers to probes,
and that a configuration without a LITE phase has no LITE profiles. `DenialIsUnanimous` needs
one more (`FanInv`): every probe that a fan-out started is still to be made, or reported by a
profile that has been delivered or waits to be, a failed probe as an error (`told`), so no probe is lost between `Probe`, `Deliver` and the
list that decides. The rest is about
`aggProfile` for lists of any length: when it denies (`AggNo`), when it
finds (`AggYes`), and that the suffix it takes is one no rival outranks (`BestSuffix`). The
operators speak of sets of indices (the first, the best), so no induction over lists is needed. A suffix may
be configured twice with different priorities: the best of its entries counts.
`SuffixesAreShared` is about `splitList` alone: each suffix goes to one source and to no
other, and the shares differ by at most one. Existence is the least chunk that
ends at or after the suffix, uniqueness that the chunks' ends never decrease (`ChunkEnds`).

`LookupProofs` proves, for any finite set of requests, any tenants and any lifetime,
that the enrich cache makes no difference to what is answered (`EnrichPromise`), how
old an answer may be (`AgeBounded`) and what a write may lose (`NoCheckLost`). `EnrichInv`
says where every value is from: a check in a document was returned to some
request for the same key that has finished writing (`Origin`, in `Stored` for the
document and in `Read` for what a request has read of it), so that no error is ever
stored; a request's result is its own or the one it read (`Served`); it knows
nothing before it has read, and writes only when it has answered (`Phases`). For the
age, `Stored` also bounds the document's expiry by a lifetime less a second for each request
that has written, and a second: `AgeBounded` speaks of reads, is not inductive, and follows
because a read before the expiry inherits the bound. No assumption is made about the texts:
`OwnFields` is derived from what the join of two requests of one form can be
(`PiecesAssumption` only says that texts have parts). The race only ever stops everything
(`alive`), so no step has to be taken back in these proofs.

`MetaProofs` proves `MetaPromise` in the same way for any number of requests and
any gates: `LaneOrder` says in which phase a lane has a meta of its own, `Filed` that a
stored meta was looked up for the identifier it is filed under. One table serves both kinds
because a number is never an address (`IdentifierKinds`, from `AddressesAssumption`). The forms
of a number and the addresses, one without a domain among them, are the ones of `MetaLane`. `LookupsTyped` joins both
invariants and adds what `Fetch` makes of every answer: the types of the
number of disconnections and of the latest month, which exists because the dates are finite
(`LatestMonth`, from `AnswersAssumption`).

Only model-checked:

* every liveness property (`ShortPoolRetries`, `SpentTokenEvicted`, `StopReturns`,
  `Converges`, `EveryRequestAnswered`, `RunReturns`, `LookupsEnd`), as fairness is out
  of the prover's reach;
* which suffixes a phase is given (`removeSuffixes`, `repeatSuffixes`, the common
  sources first): what filters over lists of any length compute is induction over
  data. The runs exercise them; the theorems hold whatever they return.

## Not modelled

* Crawl transport, TLS fingerprints, cookie jars, vendors' payloads and signatures:
  I/O whose outcome is an answer or a failure.
* Breach and static data: functions of a document, with no state and no failure path
  beyond "no data", which is an outcome of the section.
* The features sent to the ML service and the merge by path of its other fields, the
  names and pruning of fields in the client's response, `verified_names`: they move data that
  no property here tells apart.
* Authentication, middleware, analytics and wiring: one lookup, log lines and one
  event per response; the Recoverer's limits and the order of shutdown are in
  `Crash` and `StopCancel`.
* The programs under `cmd/` other than the server: test clients.

## Plan

1. `CachedPersona`, an abstract specification of the persona cache (a read returns
   nothing or some section produced for the key within its lifetime), and
   `PersonaPipeline` proved to implement it from `PersonaInv`.
2. The merge of a document in `NoCheckLost` for writes that overlap: which checks may be
   lost, and that those of the last writer never are.
