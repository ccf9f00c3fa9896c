-------------------------- MODULE MCPersonaPipeline --------------------------
(***************************************************************************)
(* Small instances of the persona pipeline.  Two spellings of one phone, an *)
(* invalid phone, one email.                                               *)
(***************************************************************************)
EXTENDS PersonaPipeline, TLC

CONSTANTS t1, t2

MCRawPhones == {"", "9607639515", "+919607639515", "12345"}
MCParsePhone == [p \in MCRawPhones |->
                    IF p \in {"9607639515", "+919607639515"} THEN "+919607639515" ELSE ""]
MCEmails == {"", "a@b.in"}

R(t, p, e, c, i) == [tenant |-> t, phone |-> p, email |-> e, caching |-> c, intel |-> i]

\* Both identifiers, one of them, another spelling, an invalid one, none; the
\* two tenants share the phone.
MCServe == {R(t1, "9607639515", "a@b.in", TRUE, TRUE),
            R(t1, "", "", TRUE, FALSE),
            R(t1, "+919607639515", "", FALSE, TRUE),
            R(t2, "+919607639515", "", TRUE, FALSE),
            R(t2, "12345", "a@b.in", TRUE, FALSE)}

\* A phone whose section is cached, with and without intelligence.
MCCaching == {R(t, "9607639515", "", TRUE, i) : t \in Tenants, i \in BOOLEAN}

\* Requests are interchangeable (in the runs of invariants).
MCSymmetry == Permutations(Requests)
=============================================================================
