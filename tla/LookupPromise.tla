--------------------------- MODULE LookupPromise ---------------------------
(***************************************************************************)
(* What a lookup with a shared cache promises, without the cache. Requests *)
(* ask for items of a subject. The provider answers some attempts, each    *)
(* with a fact about the subject that was asked about; others fail. A      *)
(* request is answered once and for all, with exactly the items it asked   *)
(* for, each a fact about its own subject, no matter which request learnt  *)
(* it, or an error if the request's own attempt failed.                    *)
(***************************************************************************)
CONSTANTS Requests,  \* the requests, which also name the facts they learn
          Err        \* the answer for an item that could not be looked up

VARIABLES asked,     \* the subject and the items of each request
          facts,     \* what the provider has answered: <<subject, item, learner>>
          failed,    \* the attempts that failed: <<request, item>>
          answered,  \* the requests that have their answer
          answer     \* the answer of each, a function on the items

promiseVars == <<asked, facts, failed, answered, answer>>

\* A request that asks for nothing needs no answer.
PromiseInit == /\ facts = {} /\ failed = {}
               /\ answered = {r \in Requests : asked[r].items = {}}

\* The provider answers a request that still waits.
Learn(r) ==
    /\ r \notin answered
    /\ \E i \in asked[r].items : facts' = facts \cup {<<asked[r].subject, i, r>>}
    /\ UNCHANGED <<asked, failed, answered>>

\* Attempts of a request that still waits fail.
Fail(r) ==
    /\ r \notin answered
    /\ \E I \in SUBSET asked[r].items : failed' = failed \cup {<<r, i>> : i \in I}
    /\ UNCHANGED <<asked, facts, answered>>

Reply(r) ==
    /\ r \notin answered
    /\ answered' = answered \cup {r}
    /\ DOMAIN answer'[r] = asked[r].items
    /\ \A i \in asked[r].items :
          IF answer'[r][i] = Err THEN <<r, i>> \in failed
                                 ELSE <<asked[r].subject, i, answer'[r][i]>> \in facts
    /\ UNCHANGED <<asked, facts, failed>>

\* The answer of an answered request never changes.
Settled == \A r \in answered : answer'[r] = answer[r]

PromiseNext == Settled /\ \E r \in Requests : Learn(r) \/ Fail(r) \/ Reply(r)

PromiseSpec == PromiseInit /\ [][PromiseNext]_promiseVars
=============================================================================
