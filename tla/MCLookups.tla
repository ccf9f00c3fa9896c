----------------------------- MODULE MCLookups -----------------------------
(***************************************************************************)
(* Small instances: tenants with different checks and gates, three requests*)
(* on one document, fields that join to one text, two on one number, emails*)
(* with and without a domain.                                              *)
(***************************************************************************)
EXTENDS Lookups

CONSTANTS r1, r2, r3

\* A tenant that has turned everything off, and what others turn on.
NoTenant == [parsed |-> TRUE, caching |-> TRUE, intelligence |-> {},
             commonIntelligence |-> {}, phoneInfo |-> {"disabled"}, emailInfo |-> {}]
Vintage == [NoTenant EXCEPT !.intelligence = {"enabled", "enriched_data_api"}]
Demat == [NoTenant EXCEPT !.commonIntelligence = {"enabled", "demat_check"}]
Both == [Demat EXCEPT !.intelligence = {"enabled", "enriched_data_api"}]
Others == [NoTenant EXCEPT !.caching = FALSE, !.commonIntelligence =
              {"enabled", "mutual_fund_check", "credit_card_check", "fintech_count",
               "phone_to_address_with_raw.enabled"}]
Postpaid == [NoTenant EXCEPT !.phoneInfo = {"postpaid", "caching"}]
Plain == [NoTenant EXCEPT !.phoneInfo = {"caching"}]
Uncached == [NoTenant EXCEPT !.phoneInfo = {}]
Mail == [NoTenant EXCEPT !.emailInfo = {"domain_intelligence.enabled", "caching"}]
Unparsed == [NoTenant EXCEPT !.parsed = FALSE]

EnrichOn == [enabled |-> TRUE, serviceIDs |-> Checks]
NoVintageID == [enabled |-> TRUE, serviceIDs |-> Checks \ {"vintage"}]
EnrichOff == [enabled |-> FALSE, serviceIDs |-> Checks]

Of(phone, email, name, yc, enrich) ==
    [phone |-> phone, email |-> email, name |-> name, yc |-> yc, enrich |-> enrich,
     enrichCache |-> TRUE, metaCache |-> TRUE]
Idle == Of("", "", "", NoTenant, EnrichOff)

Case(x1, x2, x3) == [r \in Requests |-> IF r = r1 THEN x1 ELSE IF r = r2 THEN x2 ELSE x3]

MCLookupCases ==
    {Case(Of("98", "", "", Vintage, EnrichOn), Of("98", "", "", Demat, EnrichOn),
          Of("98", "", "", Vintage, EnrichOn)),
     Case(Of("98", "", "", Both, EnrichOn), Of("98", "", "", Both, NoVintageID), Idle),
     Case(Of("98", "", "m", Vintage, EnrichOn), Of("98", "", "n", Vintage, EnrichOn), Idle),
     Case(Of("98", "a@x", "", Vintage, EnrichOn), Of("98", "", "a@x", Vintage, EnrichOn), Idle),
     Case(Of("98", "a@x", "", Demat, EnrichOn), Of("", "", "98:a@x", Both, EnrichOn), Idle),
     Case(Of("98", "", "", Others, EnrichOn), Of("77", "", "", Uncached, EnrichOff), Idle),
     Case(Of("98", "", "", Postpaid, EnrichOff), Of("+9198", "", "", Plain, EnrichOff), Idle),
     Case(Of("77", "", "", Plain, EnrichOff), Of("98", "", "", Plain, EnrichOff), Idle),
     Case(Of("", "a@x", "", Mail, EnrichOff), Of("98", "a@x", "", Mail, EnrichOff),
          Of("0", "b@x", "", Unparsed, EnrichOff)),
     Case(Of("", "nodomain", "", Mail, EnrichOff), Of("", "nodomain", "", Mail, EnrichOff), Idle)}

MCPieces == [t \in {"", "0", "98", "+9198", "77", "m", "n", "a@x", "b@x", "nodomain", "98:a@x"} |->
                CASE t = "" -> <<>> [] t = "98:a@x" -> <<"98", "a@x">> [] OTHER -> <<t>>]

MCOperators == {[ok |-> FALSE], 
                [ok |-> TRUE, operatorId |-> "1", circleId |-> "9", operators |-> {"1"},
                 circles |-> {}]}
Date(y, m, parses) == [y |-> y, m |-> m, parses |-> parses]
MCDisconnections ==
    {[ok |-> FALSE, dates |-> {}],
     [ok |-> TRUE, dates |-> {Date(2023, 11, TRUE), Date(2024, 2, TRUE), Date(2025, 1, FALSE)}]}
MCDomains ==
    {[trusted |-> TRUE, validator |-> "true", whois |-> "record", txt |-> {"v=spf1"},
      dmarc |-> {}, mx |-> "some", website |-> "200"],
     [trusted |-> FALSE, validator |-> "otherText", whois |-> "failed", txt |-> {"v=spf1"},
      dmarc |-> {"v=DMARC1"}, mx |-> "some", website |-> "404"]}
=============================================================================
