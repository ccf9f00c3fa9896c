---------------------------- MODULE MCPhoneCrawl ----------------------------
(***************************************************************************)
(* Small instances: every crawler on its own, a few pairs, and UPI.        *)
(***************************************************************************)
EXTENDS PhoneCrawl

Entry(client) == [enabled |-> TRUE, phone |-> "absent", email |-> "on", client |-> client]
Off == [enabled |-> FALSE, phone |-> "on", email |-> "on", client |-> "on"]
EmailOnly == [enabled |-> TRUE, phone |-> "off", email |-> "on", client |-> "on"]

\* A tenant without a configuration: every registered crawler runs.
Bare(kind, sites, named) ==
    [kind |-> kind, available |-> sites, named |-> named, parsed |-> FALSE,
     websites |-> [s \in {} |-> Off], global |-> "absent", disabled |-> {}]

\* A tenant with one.
Tenant(kind, sites, entries, global, disabled) ==
    [kind |-> kind, available |-> sites, named |-> {}, parsed |-> TRUE,
     websites |-> entries, global |-> global, disabled |-> disabled]

Alone == {Bare("phone", {s}, {"smartproxy"}) : s \in DOMAIN PhoneCrawlers}
           \cup {Bare("email", {s}, {"nimble"}) : s \in DOMAIN EmailCrawlers}

Five == {"YATRA", "BYJU", "GAANA", "TOI", "IRCTC"}
Together ==
    {Bare("phone", {"MICROSOFT", "FLIPKART"}, {}),
     Tenant("phone", Five, [s \in Five \ {"IRCTC"} |->
                CASE s = "GAANA" -> Off [] s = "BYJU" -> Entry("off")
                  [] s = "TOI" -> EmailOnly [] OTHER -> Entry("on")], "absent", {}),
     Tenant("phone", Five, [s \in {"YATRA", "BYJU", "TOI"} |-> Entry("absent")],
            "set", {"TOI"}),
     Tenant("email", {"TOI", "DISCORD", "TUMBLR"},
            [s \in {"TOI", "DISCORD"} |-> IF s = "TOI" THEN EmailOnly ELSE Entry("on")],
            "absent", {})}

WithUPI == {Bare("phone", {"UPI"}, {}),
            Tenant("phone", {"UPI", "BYJU"}, [s \in {"UPI", "PHONEPE"} |-> Entry("on")],
                   "set", {})}

MCScenarios == Alone \cup Together \cup WithUPI
MCUPIScenarios == {Bare("phone", {"UPI"}, {})}

Src(name, type, commonLite, commonEnriched) ==
    [name |-> name, type |-> type, enabled |-> TRUE,
     commonLite |-> commonLite, commonEnriched |-> commonEnriched]
Sfx(name, pri) == [name |-> name, pri |-> pri]

\* As in the default configuration, cut to size: no LITE phase, some sources
\* not ported, two of three sampled.
Default ==
    [suffixes |-> <<Sfx("ybl", 1), Sfx("ibl", 3), Sfx("paytm", 1)>>,
     sources |-> <<Src("EMT_UPI", "ENRICHED", FALSE, FALSE),
                   Src("PAYU_UPI", "ENRICHED", FALSE, TRUE),
                   Src("CONFIRMTKT_UPI", "ENRICHED", FALSE, FALSE)>>,
     tpi |-> <<"CASH_FREE_UPI">>, organic |-> TRUE, lite |-> FALSE,
     enriched |-> TRUE, liteSeq |-> FALSE, liteCount |-> 3, enrichedCount |-> 2,
     haCount |-> 2, suffixCount |-> 2,
     liteSources |-> <<>>, enrichedSources |-> <<>>]

\* A LITE phase with a common source, then two ENRICHED sources.
WithLite ==
    [Default EXCEPT
        !.suffixes = <<Sfx("ybl", 1), Sfx("ibl", 3)>>,
        !.sources = <<Src("JUST_PAY_UPI", "LITE", FALSE, FALSE),
                      Src("BRB_RAZORPAY_UPI", "LITE", TRUE, FALSE),
                      Src("MMT_UPI", "ENRICHED", FALSE, FALSE),
                      Src("EMT_UPI", "ENRICHED", FALSE, FALSE)>>,
        !.tpi = <<>>, !.lite = TRUE, !.liteSeq = TRUE, !.liteCount = 2,
        !.suffixCount = 2]

\* The paid source alone, unless it fails; the emulator after it.
PaidFirst ==
    [Default EXCEPT !.organic = FALSE, !.suffixes = <<Sfx("ybl", 1), Sfx("xyz", 2)>>,
        !.sources = <<Src("PHONEPE_EMULATOR", "ENRICHED", FALSE, FALSE),
                      Src("GIVE_UPI", "ENRICHED", FALSE, TRUE)>>]

\* Nothing but the paid source.
PaidOnly == [Default EXCEPT !.enriched = FALSE]

MCUPIConfigs == {Default, WithLite, PaidFirst, PaidOnly}
MCHandles == {"ybl", "ibl"}
=============================================================================
