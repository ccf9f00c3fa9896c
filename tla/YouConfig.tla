----------------------------- MODULE YouConfig -----------------------------
(***************************************************************************)
(* The feature gates of a tenant's youConfig (internal/appconfig/          *)
(* youconfig.go) and the lane gates the handler derives from them          *)
(* (internal/handler/persona.go).                                          *)
(*                                                                         *)
(* A nested object of the configuration is the set of its keys that hold   *)
(* true; "disabled" stands for an explicit enabled:false, which is not the *)
(* same as no "enabled" key at all. A nested "x": {"enabled": true} is the *)
(* key "x.enabled". parsed is FALSE for a tenant whose configuration does  *)
(* not parse: the handler then works with a nil youConfig.                 *)
(***************************************************************************)

YouConfiguration == [parsed : BOOLEAN,
                     caching : BOOLEAN,
                     intelligence : SUBSET {"enabled", "enriched_data_api"},
                     commonIntelligence :
                        SUBSET {"enabled", "demat_check", "mutual_fund_check",
                                "credit_card_check", "fintech_count",
                                "phone_to_address", "phone_to_address_with_raw.enabled"},
                     phoneInfo : SUBSET {"disabled", "postpaid", "caching"},
                     emailInfo : SUBSET {"disabled", "domain_intelligence.enabled",
                                         "caching"}]

\* An absent key, or one that does not hold a boolean, counts as false.
boolAt(m, key) == key \in m

EnrichedDataAPIEnabled(yc) ==
    boolAt(yc.intelligence, "enabled") /\ boolAt(yc.intelligence, "enriched_data_api")

DematCheckEnabled(yc) ==
    boolAt(yc.commonIntelligence, "enabled") /\ boolAt(yc.commonIntelligence, "demat_check")

MutualFundCheckEnabled(yc) ==
    boolAt(yc.commonIntelligence, "enabled") /\ boolAt(yc.commonIntelligence, "mutual_fund_check")

CreditCardCheckEnabled(yc) ==
    boolAt(yc.commonIntelligence, "enabled") /\ boolAt(yc.commonIntelligence, "credit_card_check")

FintechCountEnabled(yc) ==
    boolAt(yc.commonIntelligence, "enabled") /\ boolAt(yc.commonIntelligence, "fintech_count")

PhoneToAddressEnabled(yc) ==
    /\ boolAt(yc.commonIntelligence, "enabled")
    /\ \/ boolAt(yc.commonIntelligence, "phone_to_address")
       \/ boolAt(yc.commonIntelligence, "phone_to_address_with_raw.enabled")

\* False for a nil configuration, like the two gates of the meta cache.
IsCachingEnabled(yc) == yc.parsed /\ yc.caching

\* An absent "enabled" counts as true here.
IsPhoneInfoEnabled(yc) == "disabled" \notin yc.phoneInfo

isEmailInfoEnabled(yc) == "disabled" \notin yc.emailInfo

IsPostpaidEnabled(yc) == IsPhoneInfoEnabled(yc) /\ boolAt(yc.phoneInfo, "postpaid")

IsDomainIntelligenceEnabled(yc) ==
    isEmailInfoEnabled(yc) /\ boolAt(yc.emailInfo, "domain_intelligence.enabled")

IsPhoneInfoCachingEnabled(yc) == yc.parsed /\ boolAt(yc.phoneInfo, "caching")

IsEmailInfoCachingEnabled(yc) == yc.parsed /\ boolAt(yc.emailInfo, "caching")

-----------------------------------------------------------------------------
(* The gates of the handler: a nil youConfig turns the meta lanes on.      *)

phoneMetaOn(yc) == yc.parsed => IsPhoneInfoEnabled(yc)

emailMetaOn(yc) == yc.parsed => IsDomainIntelligenceEnabled(yc)

postpaidOn(yc) == yc.parsed => IsPostpaidEnabled(yc)
=============================================================================
