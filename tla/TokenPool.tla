------------------------------ MODULE TokenPool ------------------------------
(***************************************************************************)
(* The warm-token pool of one (website, kind):                             *)
(* internal/crawler/tokenpool/{tokenpool,manager}.go, and its use on the   *)
(* request path through crawler.tokenVia.                                  *)
(*                                                                         *)
(* A background loop keeps up to Size tokens warm; requests take tokens    *)
(* from the pool, or mint one inline on a miss; Start and Stop bring the   *)
(* loop up and down.  Time is relative: a token carries its age and a      *)
(* sleeping loop the time left on its timer, so the state space is finite  *)
(* while time never stops.                                                 *)
(***************************************************************************)
EXTENDS Integers, FiniteSets

CONSTANTS
    Config,      \* the pool's Config as registered, before withDefaults
    maxBackoff,  \* the longest wait between two cycles (5 minutes)
    CycleCap,    \* the most tokens minted by one cycle (10)
    TokenIds,    \* identities of minted tokens, reused once evicted
    Requests,    \* concurrent checks of the website
    MaxStarts,   \* bound: loops that calls of Start could have spawned
    MaxLag       \* bound: ticks between filter's time.Now() and its lock

\* Config.withDefaults: unset fields get values a loop can run with.
withDefaults(c) ==
    [Size      |-> IF c.Size < 0 THEN 0 ELSE c.Size,
     TTL       |-> IF c.TTL <= 0 THEN 300 ELSE c.TTL,
     UseLimit  |-> IF c.UseLimit <= 0 THEN 5 ELSE c.UseLimit,
     MaxThread |-> IF c.MaxThread <= 0 THEN 5 ELSE c.MaxThread,
     Sleep     |-> IF c.Sleep <= 0 THEN 5 ELSE c.Sleep]

cfg == withDefaults(Config)

Loops == 1..MaxStarts

ASSUME ConfigAssumption ==
    /\ Config \in [Size : Int, TTL : Int, UseLimit : Int,
                   MaxThread : Int, Sleep : Int]
    /\ maxBackoff \in Nat
    /\ cfg.Sleep <= maxBackoff
    /\ CycleCap \in Nat \ {0}

ASSUME BoundsAssumption ==
    /\ MaxStarts \in Nat \ {0}
    /\ MaxLag \in Nat

\* A count that stops where the code no longer tells its values apart.
UsageCap == cfg.UseLimit + 1
AgeCap == cfg.TTL + MaxLag + 1
UpTo(n, cap) == IF n < cap THEN n ELSE cap

VARIABLES
    tokens,     \* Pool.tokens: usages and age of every token in the pool
    pc,         \* where each loop's goroutine is
    lag,        \* time since filter read the clock
    attempted,  \* tokens the current cycle set out to mint
    pending,    \* generator goroutines still running
    succeeded,  \* generator goroutines that added a token
    wait,       \* the loop's current pause between cycles
    timer,      \* time left until time.After(wait) fires
    started,    \* Manager.started
    cancelled,  \* the loops' context is done
    stopped,    \* Stop has returned
    late,       \* history: cycles begun after the cancellation
    check       \* the token each request holds, and how it got it

cycleVars == <<attempted, pending, succeeded>>
mgrVars == <<started, cancelled, stopped>>
loopVars == <<pc, lag, cycleVars, wait, timer, late>>
vars == <<tokens, loopVars, mgrVars, check>>

live == DOMAIN tokens
Token == [usages : 0..UsageCap, age : 0..AgeCap]

PC == {"none", "begin", "filter", "size", "shrink", "gen", "sleep", "exited"}

Idle == [from |-> "idle", use |-> 0, age |-> 0]
Checks == [from : {"idle", "pool", "inline", "fresh", "failed"},
           use : 0..UsageCap, age : 0..AgeCap]

PoolType ==
    /\ live \subseteq TokenIds
    /\ IsFiniteSet(live)
    /\ tokens \in [live -> Token]

LoopType ==
    /\ pc \in [Loops -> PC]
    /\ lag \in [Loops -> 0..MaxLag]
    /\ attempted \in [Loops -> 0..cfg.Size]
    /\ pending \in [Loops -> 0..cfg.Size]
    /\ succeeded \in [Loops -> 0..cfg.Size]
    /\ wait \in [Loops -> Nat]
    /\ timer \in [Loops -> Nat]
    /\ late \in [Loops -> 0..2]

ManagerType == {started, cancelled, stopped} \subseteq BOOLEAN

\* The state of a pool is well typed: usage counts and ages stay within what the
\* limits tell apart, no cycle has more generators than it asked for, and a
\* request holds a token from the pool or one of its own (Pool, Token).
TypeOK ==
    /\ PoolType
    /\ LoopType
    /\ ManagerType
    /\ check \in [Requests -> Checks]

\* NewPool and NewManager: an empty pool, no loop yet.
Init ==
    /\ tokens = [t \in {} |-> [usages |-> 0, age |-> 0]]
    /\ pc = [l \in Loops |-> "none"]
    /\ lag = [l \in Loops |-> 0]
    /\ attempted = [l \in Loops |-> 0]
    /\ pending = [l \in Loops |-> 0]
    /\ succeeded = [l \in Loops |-> 0]
    /\ wait = [l \in Loops |-> cfg.Sleep]
    /\ timer = [l \in Loops |-> 0]
    /\ started = FALSE
    /\ cancelled = FALSE
    /\ stopped = FALSE
    /\ late = [l \in Loops |-> 0]
    /\ check = [r \in Requests |-> Idle]

-----------------------------------------------------------------------------
(* Manager.Start and Manager.Stop                                          *)

\* Mutant of Start: every call spawns a loop.
StartAgain(l) ==
    /\ pc[l] = "none"
    /\ started' = TRUE
    /\ pc' = [pc EXCEPT ![l] = "begin"]
    /\ UNCHANGED <<tokens, lag, cycleVars, wait, timer, late, cancelled,
                   stopped, check>>

\* Manager.Start: the first call spawns the pool's loop, later ones return.
Start(l) ==
    /\ ~started
    /\ pc[l] = "none"
    /\ started' = TRUE
    /\ pc' = [pc EXCEPT ![l] = "begin"]
    /\ UNCHANGED <<tokens, lag, cycleVars, wait, timer, late, cancelled,
                   stopped, check>>

\* The first half of Manager.Stop (or of the server's shutdown): cancel.
StopCancel ==
    /\ started
    /\ ~cancelled
    /\ cancelled' = TRUE
    /\ UNCHANGED <<tokens, loopVars, started, stopped, check>>

\* Mutant of StopReturn: Stop does not wait for the loops.
StopAtOnce ==
    /\ cancelled
    /\ ~stopped
    /\ stopped' = TRUE
    /\ UNCHANGED <<tokens, loopVars, started, cancelled, check>>

\* The second half: m.wg.Wait() returns when every loop has ended.
StopReturn ==
    /\ cancelled
    /\ ~stopped
    /\ \A l \in Loops : pc[l] \in {"none", "exited"}
    /\ stopped' = TRUE
    /\ UNCHANGED <<tokens, loopVars, started, cancelled, check>>

-----------------------------------------------------------------------------
(* Pool.run and Pool.refillOnce                                            *)

\* filter reads the clock before it takes the lock.
FilterNow(l) ==
    /\ pc[l] = "begin"
    /\ pc' = [pc EXCEPT ![l] = "filter"]
    /\ lag' = [lag EXCEPT ![l] = 0]
    /\ late' = [late EXCEPT ![l] = IF cancelled THEN UpTo(@ + 1, 2) ELSE @]
    /\ UNCHANGED <<tokens, cycleVars, wait, timer, mgrVars, check>>

\* Pool.tokens cut down to the tokens in S.
Keep(S) == [t \in S |-> tokens[t]]

\* Mutant of kept: only the use limit evicts.
keptForever(l) == {t \in live : tokens[t].usages < cfg.UseLimit}

\* The tokens filter keeps, judged at the clock value it read.
kept(l) ==
    {t \in live : /\ tokens[t].age - lag[l] <= cfg.TTL
                  /\ tokens[t].usages < cfg.UseLimit}

\* filter, under the lock.
filter(l) ==
    /\ pc[l] = "filter"
    /\ tokens' = Keep(kept(l))
    /\ pc' = [pc EXCEPT ![l] = "size"]
    /\ lag' = [lag EXCEPT ![l] = 0]
    /\ UNCHANGED <<cycleVars, wait, timer, late, mgrVars, check>>

\* refillOnce: how many tokens this cycle sets out to mint.
need == UpTo(UpTo(cfg.Size - Cardinality(live), CycleCap), cfg.MaxThread)

\* Mutant of SpawnGens: one goroutine too many (i <= need).
SpawnExtraGen(l) ==
    /\ pc[l] = "size"
    /\ need > 0
    /\ pc' = [pc EXCEPT ![l] = "gen"]
    /\ attempted' = [attempted EXCEPT ![l] = need]
    /\ pending' = [pending EXCEPT ![l] = need + 1]
    /\ succeeded' = [succeeded EXCEPT ![l] = 0]
    /\ UNCHANGED <<tokens, lag, wait, timer, late, mgrVars, check>>

\* A short pool: spawn the generator goroutines.
SpawnGens(l) ==
    /\ pc[l] = "size"
    /\ need > 0
    /\ pc' = [pc EXCEPT ![l] = "gen"]
    /\ attempted' = [attempted EXCEPT ![l] = need]
    /\ pending' = [pending EXCEPT ![l] = need]
    /\ succeeded' = [succeeded EXCEPT ![l] = 0]
    /\ UNCHANGED <<tokens, lag, wait, timer, late, mgrVars, check>>

\* A full pool: nothing to mint, go and shrink.
NothingNeeded(l) ==
    /\ pc[l] = "size"
    /\ need <= 0
    /\ pc' = [pc EXCEPT ![l] = "shrink"]
    /\ UNCHANGED <<tokens, lag, cycleVars, wait, timer, late, mgrVars, check>>

\* Mutant of nextWait: a success does not reset the wait.
nextWaitNoReset(l) ==
    IF attempted[l] > 0 /\ succeeded[l] = 0
    THEN UpTo(2 * wait[l], maxBackoff)
    ELSE wait[l]

\* The end of a cycle in run: double the wait after a cycle that minted
\* nothing, reset it otherwise.
nextWait(l) ==
    IF attempted[l] > 0 /\ succeeded[l] = 0
    THEN UpTo(2 * wait[l], maxBackoff)
    ELSE cfg.Sleep

\* Mutant of EnterSelect: sleep first, look at the context later.
SleepFirst(l) ==
    /\ wait' = [wait EXCEPT ![l] = nextWait(l)]
    /\ timer' = [timer EXCEPT ![l] = nextWait(l)]
    /\ pc' = [pc EXCEPT ![l] = "sleep"]
    /\ attempted' = [attempted EXCEPT ![l] = 0]
    /\ succeeded' = [succeeded EXCEPT ![l] = 0]
    /\ pending' = [pending EXCEPT ![l] = 0]

\* Mutant of EnterSelect: a cycle that minted nothing ends the loop.
GiveUp(l) ==
    /\ wait' = [wait EXCEPT ![l] = nextWait(l)]
    /\ timer' = [timer EXCEPT ![l] = nextWait(l)]
    /\ pc' = [pc EXCEPT ![l] =
                IF cancelled \/ (attempted[l] > 0 /\ succeeded[l] = 0)
                THEN "exited" ELSE "sleep"]
    /\ attempted' = [attempted EXCEPT ![l] = 0]
    /\ succeeded' = [succeeded EXCEPT ![l] = 0]
    /\ pending' = [pending EXCEPT ![l] = 0]

\* The wait is set and the select is entered: a context that is already done
\* is seen at once, the fresh timer is not yet ready.  The cycle's counts are
\* locals of the loop body and go out of scope.
EnterSelect(l) ==
    /\ wait' = [wait EXCEPT ![l] = nextWait(l)]
    /\ timer' = [timer EXCEPT ![l] = nextWait(l)]
    /\ pc' = [pc EXCEPT ![l] = IF cancelled THEN "exited" ELSE "sleep"]
    /\ attempted' = [attempted EXCEPT ![l] = 0]
    /\ succeeded' = [succeeded EXCEPT ![l] = 0]
    /\ pending' = [pending EXCEPT ![l] = 0]

\* shrink drops the oldest tokens beyond Size, which ends the cycle.
shrink(l) ==
    /\ pc[l] = "shrink"
    /\ \E keep \in SUBSET live :
          /\ Cardinality(keep) = UpTo(Cardinality(live), cfg.Size)
          /\ \A k \in keep, d \in live \ keep : tokens[k].age <= tokens[d].age
          /\ tokens' = Keep(keep)
    /\ EnterSelect(l)
    /\ UNCHANGED <<lag, late, mgrVars, check>>

\* One generator goroutine: GenerateToken failed or returned nothing.
GenFail(l) ==
    /\ pc[l] = "gen"
    /\ pending[l] > 0
    /\ pending' = [pending EXCEPT ![l] = @ - 1]
    /\ UNCHANGED <<tokens, pc, lag, attempted, succeeded, wait, timer,
                   late, mgrVars, check>>

\* One generator goroutine: the token is minted and added to the pool.
add(l, t) ==
    /\ pc[l] = "gen"
    /\ pending[l] > 0
    /\ t \notin live
    /\ tokens' = [u \in live \cup {t} |-> IF u = t THEN [usages |-> 0, age |-> 0]
                                          ELSE tokens[u]]
    /\ pending' = [pending EXCEPT ![l] = @ - 1]
    /\ succeeded' = [succeeded EXCEPT ![l] = @ + 1]
    /\ UNCHANGED <<pc, lag, attempted, wait, timer, late, mgrVars, check>>

\* wg.Wait() in refillOnce returns and run ends the cycle.
GensDone(l) ==
    /\ pc[l] = "gen"
    /\ pending[l] = 0
    /\ EnterSelect(l)
    /\ UNCHANGED <<tokens, lag, late, mgrVars, check>>

\* select: the timer fired.
Wake(l) ==
    /\ pc[l] = "sleep"
    /\ timer[l] = 0
    /\ pc' = [pc EXCEPT ![l] = "begin"]
    /\ UNCHANGED <<tokens, lag, cycleVars, wait, timer, late, mgrVars, check>>

\* select: the context is done.
LoopExit(l) ==
    /\ pc[l] = "sleep"
    /\ cancelled
    /\ pc' = [pc EXCEPT ![l] = "exited"]
    /\ UNCHANGED <<tokens, lag, cycleVars, wait, timer, late, mgrVars, check>>

-----------------------------------------------------------------------------
(* The request path: tokenVia, Manager.GetToken, Pool.Get                  *)

\* Pool.Get, hit: any token of the pool, its usage counted.
Get(r) ==
    /\ check[r] = Idle
    /\ \E t \in live :
          /\ tokens' = [tokens EXCEPT ![t].usages = UpTo(@ + 1, UsageCap)]
          /\ check' = [check EXCEPT ![r] =
                          [from |-> "pool",
                           use |-> UpTo(tokens[t].usages + 1, UsageCap),
                           age |-> tokens[t].age]]
    /\ UNCHANGED <<loopVars, mgrVars>>

\* Pool.Get, miss: the check goes on to mint a token of its own.
GetMiss(r) ==
    /\ check[r] = Idle
    /\ live = {}
    /\ check' = [check EXCEPT ![r].from = "inline"]
    /\ UNCHANGED <<tokens, loopVars, mgrVars>>

\* tokenVia: the inline GenerateToken returns, with a token or an error.
InlineGen(r) ==
    /\ check[r].from = "inline"
    /\ \/ check' = [check EXCEPT ![r] = [from |-> "fresh", use |-> 1, age |-> 0]]
       \/ check' = [check EXCEPT ![r].from = "failed"]
    /\ UNCHANGED <<tokens, loopVars, mgrVars>>

\* The check is over; its copy of the token is dropped, never given back.
CheckDone(r) ==
    /\ check[r].from \in {"pool", "fresh", "failed"}
    /\ check' = [check EXCEPT ![r] = Idle]
    /\ UNCHANGED <<tokens, loopVars, mgrVars>>

-----------------------------------------------------------------------------
\* One unit of time passes for every token, timer and delayed filter.
Tick ==
    /\ \A l \in Loops : pc[l] = "filter" => lag[l] < MaxLag
    /\ tokens' = [t \in live |-> [tokens[t] EXCEPT !.age = UpTo(@ + 1, AgeCap)]]
    /\ timer' = [l \in Loops |-> IF pc[l] = "sleep" /\ timer[l] > 0
                                 THEN timer[l] - 1 ELSE timer[l]]
    /\ lag' = [l \in Loops |-> IF pc[l] = "filter" THEN lag[l] + 1 ELSE lag[l]]
    /\ UNCHANGED <<pc, cycleVars, wait, mgrVars, late, check>>

LoopStep(l) ==
    \/ FilterNow(l)
    \/ filter(l)
    \/ SpawnGens(l)
    \/ NothingNeeded(l)
    \/ shrink(l)
    \/ GenFail(l)
    \/ \E t \in TokenIds : add(l, t)
    \/ GensDone(l)
    \/ Wake(l)
    \/ LoopExit(l)

Request(r) == Get(r) \/ GetMiss(r) \/ InlineGen(r) \/ CheckDone(r)

Next ==
    \/ \E l \in Loops : Start(l) \/ LoopStep(l)
    \/ StopCancel
    \/ StopReturn
    \/ \E r \in Requests : Request(r)
    \/ Tick

Spec == Init /\ [][Next]_vars

\* The scheduler runs every loop and generator that can move, time passes,
\* and Stop returns when it can.  Nothing obliges anyone to call Start, Stop
\* or Get, nor a generator to succeed.
Fairness ==
    /\ WF_vars(Tick)
    /\ WF_vars(StopReturn)
    /\ \A l \in Loops : WF_vars(LoopStep(l))

FairSpec == Spec /\ Fairness

-----------------------------------------------------------------------------
(* Properties                                                              *)

\* The pool never holds more than Size tokens, the ones its generators are
\* still minting included: refillOnce decides how many to mint outside the
\* lock under which they are added, so this rests on one loop per pool
\* (Start's idempotence) and on a cycle waiting for its own generators.
PoolBound ==
    \A l \in Loops : Cardinality(live) + pending[l] <= cfg.Size

\* run backs off only a pool that is short of tokens, and never beyond
\* maxBackoff: "any success (or a full pool that needs nothing) resets the
\* wait to the normal Sleep".
BackoffOnlyWhenShort ==
    \A l \in Loops :
        /\ wait[l] \in cfg.Sleep..maxBackoff
        /\ pc[l] = "sleep" /\ wait[l] > cfg.Sleep => Cardinality(live) < cfg.Size

\* The select of run, entered with a context that is done, ends the loop: a
\* cancellation that races with the timer lets at most one more cycle begin.
OneLateCycle == \A l \in Loops : late[l] <= 1

\* Manager.Stop "waits for them to exit": once it has returned no generator
\* adds a token behind its back.
NoRefillAfterStop == [][stopped => live' \subseteq live]_vars

\* The loop always comes back to a short pool, however often minting failed
\* before: it tries again, or it was told to stop.
ShortPoolRetries ==
    started /\ Cardinality(live) < cfg.Size
        ~> cancelled \/ Cardinality(live) = cfg.Size
                     \/ \E l \in Loops : pending[l] > 0

\* filter evicts every token that outlived its TTL or reached its UseLimit,
\* back-off or not, unless the loop was told to stop.
SpentTokenEvicted ==
    \A t \in TokenIds :
        (t \in live /\ (tokens[t].age > cfg.TTL \/ tokens[t].usages >= cfg.UseLimit))
            ~> cancelled \/ t \notin live

\* Manager.Stop returns: no interleaving of the cancellation with a cycle, a
\* back-off or a generator keeps the loop alive.
StopReturns == cancelled ~> stopped

\* What manager.go says of a pool with UseLimit 1: the "token is evicted after
\* a single use", "so a stale Zoho token is never presented".
NeverOverused ==
    \A r \in Requests : check[r].from = "pool" => check[r].use <= cfg.UseLimit
=============================================================================
