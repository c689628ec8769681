--------------------------- MODULE MCQuotaLedger ---------------------------
(***************************************************************************)
(* A small ledger: one per-minute and one per-day key, facts of both       *)
(* confidences, one malformed (remaining above limit) and one without a    *)
(* reset.                                                                  *)
(***************************************************************************)
EXTENDS QuotaLedger

MCKeys == {"rpm", "rpd"}
MCMinuteKeys == {"rpm"}
MCCosts == {2}
MCActuals == {1}
MCFact(l, r, at, c) ==
    [limit |-> l, remaining |-> r, resetAt |-> at, confidence |-> c]
MCFacts == {MCFact(1, 1, 1, "estimated"), MCFact(2, 3, 0, "authoritative")}
=============================================================================
