--------------------------- MODULE MCQuotaRouting ---------------------------
(***************************************************************************)
(* Two requests over two attempts that draw on one per-minute pool.  The   *)
(* published default of the pool is too small for a request, so that only  *)
(* the bootstrap probe lets one pass; a response may report a pool that is *)
(* large enough, without a reset, or an exhausted one.                     *)
(***************************************************************************)
EXTENDS QuotaRouting, TLC

CONSTANTS r1, r2, a1, a2

MCRequests == {r1, r2}
MCAttempts == {a1, a2}
MCKeys == {"rpm"}
MCMinuteKeys == {"rpm"}
MCKeysOf == a1 :> {"rpm"} @@ a2 :> {"rpm"}
MCCosts == {2}
MCCostOf == "rpm" :> 2
MCPublished == "rpm" :> 1
MCActuals == {1}
MCFacts == {}
MCReports == {[limit |-> 2, remaining |-> 2, left |-> 0],
              [limit |-> 2, remaining |-> 0, left |-> 1]}
PoolSymmetry == Permutations(MCRequests) \cup Permutations(MCAttempts)
=============================================================================
