------------------------------ MODULE MetaLane ------------------------------
(***************************************************************************)
(* The meta lanes of a request (internal/handler/orchestrator.go): the     *)
(* operator, postpaid and revocation lookups of a phone number             *)
(* (internal/meta/phone.go), the domain lookups of an email                *)
(* (internal/meta/email.go), and the EmailPhoneMeta cache in front of them *)
(* (internal/metacache), keyed by the number or the address alone.         *)
(*                                                                         *)
(* The calls of one Fetch run side by side and each fills in a field of its*)
(* own, which nobody reads before the barrier: a Fetch is one step that    *)
(* chooses every answer.                                                   *)
(***************************************************************************)
EXTENDS CommonData

CONSTANTS MetaTTL,        \* lifetime of a cached meta
          Operators,      \* what Freecharge may answer
          Disconnections, \* the revocation dates Outris may list
          Domains         \* what the lookups of a domain may find

ASSUME MetaTTLAssumption == MetaTTL \in Nat \ {0}
ASSUME LanesAssumption == /\ None \notin Requests \X {"phone", "email"}
                          /\ Err \notin Requests \X {"phone", "email"}
ASSUME AnswersAssumption ==
    \A d \in Disconnections : /\ IsFiniteSet(d.dates)
                              /\ \A x \in d.dates : x.y \in Nat /\ x.m \in Nat

VARIABLES mdoc,  \* the meta stored under each identifier
          ml     \* the lanes: one per request and kind

metaVars == <<mdoc, ml>>

-----------------------------------------------------------------------------
(* Phone meta                                                              *)

\* The configured names of an operator id and of a circle id; an id without a
\* name leaves no operator, but an unknown circle is called that. A failed call
\* and a body that does not parse leave both empty.
freecharge(a) ==
    IF ~a.ok THEN [operator |-> "", circle |-> ""]
    ELSE [operator |-> IF a.operatorId \in a.operators THEN a.operatorId ELSE "",
          circle |-> IF a.circleId \in a.circles THEN a.circleId
                     ELSE IF a.circleId # "" THEN "Unknown" ELSE ""]

\* Airtel and Jio say prepaid with a 400.
postpaidAirtel(status) ==
    CASE status = "200" -> "true" [] status = "400" -> "false" [] OTHER -> "nil"

postpaidJio(status) ==
    CASE status = "200" -> "true" [] status = "400" -> "false" [] OTHER -> "nil"

\* VI says it in the body of a 200; a number it does not know is not postpaid.
postpaidVI(body) ==
    CASE body = "POSTPAID" -> "true"
      [] body \in {"PREPAID", "NOT_FOUND"} -> "false"
      [] OTHER -> "nil"

BillStatuses == {"200", "400", "other", "failed"}
VIBodies == {"POSTPAID", "PREPAID", "otherType", "NOT_FOUND", "failed"}

\* Any operator that says so makes the number postpaid.
postpaid(airtel, jio, vi) ==
    LET said == {postpaidAirtel(airtel), postpaidJio(jio), postpaidVI(vi)} IN
    IF "true" \in said THEN "true" ELSE IF "false" \in said THEN "false" ELSE "nil"

\* The distinct months of the dates that parse, and the latest of them. The
\* lane is off, or its call fails, when a is not a set of dates.
revocations(a) ==
    LET months == {[y |-> d.y, m |-> d.m] : d \in {x \in a.dates : x.parses}}
        latest == CHOOSE k \in months :
                      \A o \in months : o.y < k.y \/ (o.y = k.y /\ o.m <= k.m)
    IN  IF ~a.ok \/ months = {} THEN [total |-> 0, year |-> 0, month |-> 0]
        ELSE [total |-> Cardinality(months), year |-> latest.y, month |-> latest.m]

\* PhoneMetaService.Fetch: what it may return for the lane l.
phoneMeta(l) ==
    {[by |-> l, operator |-> freecharge(o), postpaid |-> pp, revocations |-> revocations(d)] :
        o \in Operators,
        pp \in IF postpaidOn(rq[l[1]].yc)
               THEN {postpaid(a, j, v) : a \in BillStatuses, j \in BillStatuses, v \in VIBodies}
               ELSE {"nil"},
        d \in Disconnections}

-----------------------------------------------------------------------------
(* Email meta                                                              *)

\* A trusted domain is not asked about; otherwise the validator's answer, which
\* may be a boolean or a string, and any string but true means false.
isDisposable(a) ==
    CASE a.trusted -> "false"
      [] a.validator \in {"true", "false"} -> a.validator
      [] a.validator = "otherText" -> "false"
      [] OTHER -> "nil"

\* A domain is registered if WHOIS knows it; no API key, a failed call and a
\* body that does not parse count as not registered.
whois(a) == a.whois = "record"

\* The records that begin with a known marker; a DNS error counts as none.
ynFromTXT(records, marker) == IF marker \in records THEN "Yes" ELSE "No"

validMX(a) == IF a.mx = "some" THEN "Yes" ELSE "No"

websiteExists(a) == a.website = "200"

\* The addresses in use, and those with a domain after the last @.
Addresses == {"", "a@x", "b@x", "nodomain"}
WithDomain == {"a@x", "b@x"}

\* EmailMetaService.Fetch: what it may return for the lane l. An address without
\* a domain is not looked up and gets a meta that says so. The DNS answers are
\* dropped for a domain that does not seem to be registered.
emailMeta(l) ==
    IF rq[l[1]].email \notin WithDomain THEN {[by |-> l, disposable |-> "nil", error |-> TRUE]}
    ELSE {[by |-> l, disposable |-> isDisposable(a), registered |-> whois(a),
           spf |-> IF whois(a) THEN ynFromTXT(a.txt, "v=spf1") ELSE "No",
           dmarc |-> IF whois(a) THEN ynFromTXT(a.dmarc, "v=DMARC1") ELSE "No",
           mx |-> IF whois(a) THEN validMX(a) ELSE "No",
           website |-> websiteExists(a)] : a \in Domains}

-----------------------------------------------------------------------------
(* The lanes and their cache                                               *)

MetaKinds == {"phone", "email"}
Lanes == Requests \X MetaKinds

\* The forms in which a number may be given, and the international form.
International == [p \in {"98", "+9198", "77"} |-> IF p = "77" THEN "+9177" ELSE "+9198"]

\* Empty for a number that is none.
parsePhone(raw) == IF raw \in DOMAIN International THEN International[raw] ELSE ""

identifier(l) == IF l[2] = "phone" THEN parsePhone(rq[l[1]].phone) ELSE rq[l[1]].email

\* The section exists and its meta gate is on.
metaOn(l) ==
    /\ identifier(l) # ""
    /\ IF l[2] = "phone" THEN phoneMetaOn(rq[l[1]].yc) ELSE emailMetaOn(rq[l[1]].yc)

metaCaching(l) ==
    /\ rq[l[1]].metaCache
    /\ IF l[2] = "phone" THEN IsPhoneInfoCachingEnabled(rq[l[1]].yc)
                         ELSE IsEmailInfoCachingEnabled(rq[l[1]].yc)

metaFetch(l) == IF l[2] = "phone" THEN phoneMeta(l) ELSE emailMeta(l)

NoMeta == [by |-> None]
Freecharged == {o \in Operators : o.ok}
OperatorNames == {""} \cup {o.operatorId : o \in Freecharged}
CircleNames == {"", "Unknown"} \cup {o.circleId : o \in Freecharged}
PhoneMeta == [by : Lanes, operator : [operator : OperatorNames, circle : CircleNames],
              postpaid : {"true", "false", "nil"},
              revocations : [total : Nat, year : Nat, month : Nat]]
EmailMeta == [by : Lanes, disposable : {"nil"}, error : {TRUE}] \cup
             [by : Lanes, disposable : {"true", "false", "nil"}, registered : BOOLEAN,
              spf : {"Yes", "No"}, dmarc : {"Yes", "No"}, mx : {"Yes", "No"},
              website : BOOLEAN]
Identifiers == {"+9198", "+9177"} \cup Addresses

\* An address is not a number.
ASSUME AddressesAssumption == \A x \in LookupCases : \A r \in Requests : x[r].email \in Addresses

\* A lane that is off is never started.
MetaInit == /\ mdoc = [i \in Identifiers |-> [meta |-> NoMeta, ttl |-> 0]]
            /\ ml = [l \in Lanes |-> [phase |-> IF metaOn(l) THEN "start" ELSE "done",
                                      meta |-> NoMeta, put |-> "none"]]

\* Mutant of metaKey: the write is filed under the address of the request.
metaKeyEmail(l) == rq[l[1]].email

\* The key of the cache: the identifier alone, without the tenant.
metaKey(l) == identifier(l)

\* metacache.Get: expiry is judged by the time of the read.
stored(l) == IF clock >= mdoc[metaKey(l)].ttl THEN NoMeta ELSE mdoc[metaKey(l)].meta

\* The cache read, which may fail; a hit is the lane's answer, and
\* without one the lookups start.
MetaRead(l) ==
    /\ ml[l].phase = "start"
    /\ \/ ml' = [ml EXCEPT ![l].phase = "fetch"]
       \/ /\ metaCaching(l) /\ stored(l) # NoMeta
          /\ ml' = [ml EXCEPT ![l].phase = "done", ![l].meta = stored(l)]
    /\ UNCHANGED mdoc

\* The lookups, whatever they come to.
MetaFetch(l) ==
    /\ ml[l].phase = "fetch"
    /\ \E m \in metaFetch(l) : ml' = [ml EXCEPT ![l].phase = "fetched", ![l].meta = m]
    /\ UNCHANGED mdoc

\* The meta becomes the lane's answer, and the write starts in the background.
MetaDone(l) ==
    /\ ml[l].phase = "fetched"
    /\ ml' = [ml EXCEPT ![l].phase = "done",
                        ![l].put = IF metaCaching(l) THEN "pending" ELSE "none"]
    /\ UNCHANGED mdoc

\* metacache.Put at the time of the write; or it fails, or the process ends.
MetaPut(l) ==
    /\ ml[l].put = "pending"
    /\ ml' = [ml EXCEPT ![l].put = "done"]
    /\ mdoc' \in {mdoc, [mdoc EXCEPT ![metaKey(l)] = [meta |-> ml[l].meta,
                                                      ttl |-> clock + MetaTTL]]}

MetaStep(l) == MetaRead(l) \/ MetaFetch(l) \/ MetaDone(l) \/ MetaPut(l)

-----------------------------------------------------------------------------
(* Properties                                                              *)

\* The lanes in the terms of LookupPromise. A lookup always has something to
\* return, if only fields that are empty or a meta that says error.
metaAsked == [l \in Lanes |-> [subject |-> <<l[2], identifier(l)>>,
                               items |-> IF metaOn(l) THEN {"meta"} ELSE {}]]
metaFacts == {<<<<l[2], identifier(l)>>, "meta", l>> : l \in {k \in Lanes : ml[k].meta.by = k}}
metaAnswered == {l \in Lanes : ml[l].phase = "done"}
metaAnswer == [l \in Lanes |-> IF metaOn(l) THEN [i \in {"meta"} |-> ml[l].meta.by]
                                ELSE [i \in {} |-> None]]

Shared == INSTANCE LookupPromise WITH
              Requests <- Lanes, asked <- metaAsked, facts <- metaFacts, failed <- {},
              answered <- metaAnswered, answer <- metaAnswer

\* A lane answers with a meta that some lookup of its own identifier and kind
\* returned, its own or, through the cache, that of another request in whatever
\* form the number was given. Of a replayed meta this says no more than that: it
\* may come from a tenant without the postpaid lookups, or from lookups that
\* failed.
MetaPromise == Shared!PromiseSpec
=============================================================================
