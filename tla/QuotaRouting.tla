---------------------------- MODULE QuotaRouting ----------------------------
(***************************************************************************)
(* The requests that use the quota ledger                                  *)
(* (internal/router/router_quota_routing.go, and the quota part of         *)
(* executeUpstreamAttempt).  The ledger is the module QuotaLedger: a call  *)
(* to one of its methods is that module's action, taken together with the  *)
(* step of the calling request, because the caller holds no lock between   *)
(* two calls.                                                              *)
(*                                                                         *)
(* quotaRankAndReserve makes two passes over the attempts of a request.    *)
(* In pass "fit" it asks of each attempt whether it is cooling and whether *)
(* quotaCanFit; in pass "reserve" it calls ReserveAll for the attempts     *)
(* that passed, until one succeeds.  The order of the attempts is that of  *)
(* the ranking, here any.  Each pass starts every attempt with             *)
(* ensureBootstrapQuota, whose Snapshot and Observe are two lock sections. *)
(*                                                                         *)
(* The code reads time.Now() once per call of quotaRankAndReserve and uses *)
(* that value in all the ledger calls below it; here each call uses the    *)
(* clock at its own lock section.                                          *)
(*                                                                         *)
(* A definition that no action uses, placed before the one it resembles,   *)
(* is a deliberate fault that shows that a property can fail.              *)
(***************************************************************************)
EXTENDS QuotaLedger, FiniteSets

CONSTANTS
    Requests,   \* goroutines serving requests
    Attempts,   \* the attempts of every plan
    KeysOf,     \* the bucket keys of an attempt
    CostOf,     \* what a request costs on a key
    Published,  \* the published default limit of a key
    Reports,    \* [limit, remaining, left]: what a response says of a key,
                \* left being the time to its reset, 0 when it says none
    Window,     \* how long a published default is valid
    Cooldown    \* what setQuotaCooldown adds to the clock

VARIABLES
    req,      \* the request a goroutine serves:
              \*   pc      where it is
              \*   pass    the loop of quotaRankAndReserve it is in
              \*   left    attempts the pass has yet to visit
              \*   cur     the attempt being visited, or in flight
              \*   fits    attempts that passed the first loop
              \*   todo    keys still to look at
              \*   key     the key observeIfUnknown found unknown
              \*   amounts result of quotaReservations
              \*   ticket  its QuotaTicket, Nil when it has none
              \*   facts   what the response said, by key
    cooling,  \* s.quotaCooldowns: until when an attempt cools
    calm      \* history: since the request started, nothing but its own
              \* calls changed the ledger, and the clock stood still

ledger == <<buckets, observation, reserved, probeSettled, gen, now>>
allVars == <<vars, req, cooling, calm>>

NoKey == "none"
NoFacts == [k \in {} |-> NoObservation]
NoAmounts == [k \in Keys |-> 0]
NoAttempt == "none"

ASSUME RequestsAssumption ==
    /\ KeysOf \in [Attempts -> SUBSET Keys]
    /\ CostOf \in [Keys -> Costs]
    /\ Published \in [Keys -> 0 .. MaxLimit]
    /\ Reports \subseteq [limit : 0 .. MaxLimit, remaining : Nat, left : Nat]
    /\ Window \in Nat \ {0}
    /\ Cooldown \in Nat \ {0}

Fresh == [pc |-> "idle", pass |-> "fit", left |-> {}, cur |-> NoAttempt,
          fits |-> {}, todo |-> {}, key |-> NoKey, amounts |-> NoAmounts,
          ticket |-> Nil, facts |-> NoFacts]

RInit ==
    /\ Init
    /\ req = [r \in Requests |-> Fresh]
    /\ cooling = [a \in Attempts |-> 0]
    /\ calm = [r \in Requests |-> FALSE]

----------------------------------------------------------------------------
(* A ledger call of r is seen by the other requests. *)
Disturbs(r) == calm' = [q \in Requests |-> calm[q] /\ (q = r \/ ledger' = ledger)]

Quiet == UNCHANGED <<vars, cooling, calm>>

Start(r) ==
    /\ req[r].pc = "idle"
    /\ req' = [req EXCEPT ![r] = [Fresh EXCEPT !.pc = "visit", !.left = Attempts]]
    /\ calm' = [calm EXCEPT ![r] = TRUE]
    /\ UNCHANGED <<vars, cooling>>

(* quotaAttemptAvailable of a cooling attempt: the first loop skips it. *)
SkipCooling(r, a) ==
    /\ req[r].pc = "visit" /\ req[r].pass = "fit" /\ a \in req[r].left
    /\ cooling[a] > now
    /\ req' = [req EXCEPT ![r].left = @ \ {a}]
    /\ Quiet

(* Either loop turns to attempt a and calls quotaReservations, which       *)
(* starts with the keys that have a published default.                     *)
Visit(r, a) ==
    /\ req[r].pc = "visit" /\ a \in req[r].left
    /\ req[r].pass = "fit" => cooling[a] <= now
    /\ req' = [req EXCEPT ![r].pc = "bootstrap", ![r].cur = a,
                          ![r].left = @ \ {a},
                          ![r].todo = {k \in KeysOf[a] : Published[k] > 0}]
    /\ Quiet

(* The first loop is over: try to reserve what fits. *)
Rank(r) ==
    /\ req[r].pc = "visit" /\ req[r].pass = "fit" /\ req[r].left = {}
    /\ req' = [req EXCEPT ![r].pass = "reserve", ![r].left = req[r].fits]
    /\ Quiet

(* No attempt left and no ticket: the request is answered without one. *)
Exhausted(r) ==
    /\ req[r].pc = "visit" /\ req[r].pass = "reserve" /\ req[r].left = {}
    /\ req' = [req EXCEPT ![r] = Fresh]
    /\ calm' = [calm EXCEPT ![r] = FALSE]
    /\ UNCHANGED <<vars, cooling>>

----------------------------------------------------------------------------
(* observeIfUnknown, up to its Snapshot ... *)
LookUp(r, k) ==
    /\ req[r].pc = "bootstrap" /\ k \in req[r].todo
    /\ Snapshot(k)
    /\ req' = [req EXCEPT ![r].todo = @ \ {k},
                          ![r].pc = IF buckets'[k] = Nil THEN "install" ELSE @,
                          ![r].key = IF buckets'[k] = Nil THEN k ELSE NoKey]
    /\ Disturbs(r)
    /\ UNCHANGED cooling

(* ... and its Observe of the published default. *)
Default(k) ==
    [limit |-> Published[k], remaining |-> Published[k],
     resetAt |-> now + Window, confidence |-> "estimated"]

Install(r) ==
    /\ req[r].pc = "install"
    /\ Observe(req[r].key, Default(req[r].key))
    /\ req' = [req EXCEPT ![r].pc = "bootstrap", ![r].key = NoKey]
    /\ Disturbs(r)
    /\ UNCHANGED cooling

KnownKeys(a) == {k \in KeysOf[a] : Purged[k] # Nil}

(* Keys: quotaReservations prices the keys the ledger knows. *)
Price(r) ==
    LET known == KnownKeys(req[r].cur) IN
    /\ req[r].pc = "bootstrap" /\ req[r].todo = {}
    /\ buckets' = Purged
    /\ UNCHANGED <<now, observation, reserved, probeSettled, gen,
                   ticket, cost, held, nextTicketID>>
    /\ req' = [req EXCEPT ![r].pc = req[r].pass,
                          ![r].todo = IF req[r].pass = "fit" THEN known ELSE {},
                          ![r].amounts = [k \in Keys |->
                              IF k \in known THEN CostOf[k] ELSE 0]]
    /\ Disturbs(r)
    /\ UNCHANGED cooling

MayTakeUnprobed(g, k, c) ==
    \/ g = Nil
    \/ observation[k][g].remaining - reserved[k][g] >= c
    \/ observation[k][g].confidence = "estimated"

(* The test of quotaCanFit on the snapshot of one key. *)
MayTake(g, k, c) ==
    \/ g = Nil
    \/ observation[k][g].remaining - reserved[k][g] >= c
    \/ /\ observation[k][g].confidence = "estimated"
       /\ reserved[k][g] = 0
       /\ ~probeSettled[k][g]

CheckKey(r, k) ==
    /\ req[r].pc = "fit" /\ k \in req[r].todo
    /\ Snapshot(k)
    /\ IF MayTake(buckets'[k], k, req[r].amounts[k])
       THEN req' = [req EXCEPT ![r].todo = @ \ {k}]
       ELSE req' = [req EXCEPT ![r].pc = "visit", ![r].todo = {}]
    /\ Disturbs(r)
    /\ UNCHANGED cooling

Fits(r) ==
    /\ req[r].pc = "fit" /\ req[r].todo = {}
    /\ req' = [req EXCEPT ![r].pc = "visit", ![r].fits = @ \cup {req[r].cur}]
    /\ Quiet

Reserve(r) ==
    /\ req[r].pc = "reserve"
    /\ ReserveAll(req[r].amounts)
    /\ req' = [req EXCEPT ![r].pc = "ready", ![r].ticket = nextTicketID']
    /\ Disturbs(r)
    /\ UNCHANGED cooling

Refused(r) ==
    /\ req[r].pc = "reserve"
    /\ ReserveRefused(req[r].amounts)
    /\ req' = [req EXCEPT ![r].pc = "visit"]
    /\ Disturbs(r)
    /\ UNCHANGED cooling

----------------------------------------------------------------------------
Send(r) ==
    /\ req[r].pc = "ready"
    /\ req' = [req EXCEPT ![r].pc = "sent"]
    /\ Quiet

NotSentKeeps(r) ==
    /\ req[r].pc = "ready"
    /\ req' = [req EXCEPT ![r] = Fresh]
    /\ Quiet

(* The attempt ends before the request leaves (a breaker refuses it, the   *)
(* request cannot be built): the deferred cleanup releases the ticket.     *)
NotSent(r) ==
    /\ req[r].pc = "ready"
    /\ Release(req[r].ticket)
    /\ req' = [req EXCEPT ![r] = Fresh]
    /\ Disturbs(r)
    /\ UNCHANGED cooling

NextMinute == (now \div Minute + 1) * Minute

(* A reported quota as observeAndSettleQuota records it: a per-minute one  *)
(* without a reset lasts until the end of the minute.                      *)
Reported(k, p) ==
    [limit |-> p.limit, remaining |-> p.remaining, confidence |-> "authoritative",
     resetAt |-> IF p.left > 0 THEN now + p.left
                 ELSE IF k \in MinuteKeys THEN NextMinute ELSE NoReset]

(* setQuotaCooldown never shortens a cooldown. *)
CoolDown(a) ==
    cooling' = [cooling EXCEPT ![a] = IF now + Cooldown > @ THEN now + Cooldown ELSE @]

(* A response reports some keys, a transport failure none.  A 429 or a 413 *)
(* also starts a cooldown (after the settlement in the code, which holds   *)
(* no lock over both).                                                     *)
Answered(r) ==
    /\ req[r].pc = "sent"
    /\ \E said \in SUBSET KeysOf[req[r].cur] : \E p \in Reports :
          req' = [req EXCEPT ![r].pc = "observe", ![r].todo = said,
                            ![r].facts = [k \in said |-> Reported(k, p)]]
    /\ CoolDown(req[r].cur) \/ UNCHANGED cooling
    /\ UNCHANGED <<vars, calm>>

Learn(r, k) ==
    /\ req[r].pc = "observe" /\ k \in req[r].todo
    /\ Observe(k, req[r].facts[k]) \/ ObserveExpired(k, req[r].facts[k])
    /\ req' = [req EXCEPT ![r].todo = @ \ {k}]
    /\ Disturbs(r)
    /\ UNCHANGED cooling

SettlementNoFacts(r, k, used) == [kind |-> "actual", actual |-> used]

(* What one held key is settled with. *)
Settlement(r, k, used) ==
    IF k \in DOMAIN req[r].facts
    THEN [kind |-> "observed", fact |-> req[r].facts[k]]
    ELSE [kind |-> "actual", actual |-> used]

Settle(r) ==
    /\ req[r].pc = "observe" /\ req[r].todo = {}
    /\ \E used \in Actuals :
          Reconcile(req[r].ticket, [k \in Keys |-> Settlement(r, k, used)])
    /\ req' = [req EXCEPT ![r] = Fresh]
    /\ Disturbs(r)
    /\ UNCHANGED cooling

Clock ==
    /\ Tick
    /\ calm' = [r \in Requests |-> FALSE]
    /\ UNCHANGED <<req, cooling>>

RNext ==
    \/ Clock
    \/ \E r \in Requests :
          \/ Start(r) \/ Rank(r) \/ Exhausted(r)
          \/ Install(r) \/ Price(r) \/ Fits(r)
          \/ Reserve(r) \/ Refused(r)
          \/ Send(r) \/ NotSent(r) \/ Answered(r) \/ Settle(r)
          \/ \E a \in Attempts : SkipCooling(r, a) \/ Visit(r, a)
          \/ \E k \in Keys : LookUp(r, k) \/ CheckKey(r, k) \/ Learn(r, k)

RSpec == RInit /\ [][RNext]_allVars

----------------------------------------------------------------------------
(* The requests have the shape their code gives them, over a well-typed    *)
(* ledger; a request holds a ticket exactly while it may have to settle it. *)
RTypeOK ==
    /\ TypeOK
    /\ \A r \in Requests :
          /\ req[r].left \cup req[r].fits \subseteq Attempts
          /\ req[r].amounts \in [Keys -> Costs \cup {0}]
          /\ (req[r].ticket # Nil) = (req[r].pc \in {"ready", "sent", "observe"})
    /\ cooling \in [Attempts -> 0 .. MaxTime + Cooldown]

(* Every live ticket of the ledger belongs to exactly one request that is  *)
(* still running, and no request holds a dead one: whatever way a request  *)
(* ends (refused by a breaker, failed in transport, answered with or       *)
(* without quota facts) it leaves nothing reserved behind it and settles   *)
(* no ticket twice.                                                        *)
TicketsHaveOwners ==
    \A t \in TicketIDs :
        Cardinality({r \in Requests : req[r].ticket = t}) =
            (IF ticket[t] = "live" THEN 1 ELSE 0)

(* An attempt that passed quotaCanFit is refused by ReserveAll only when   *)
(* another request or the clock got in between: the advance check, which   *)
(* the code writes a second time over snapshots, and the reservation agree *)
(* on what fits and on what is the one bootstrap probe.                    *)
RefusedOnlyByRace ==
    [][\A r \in Requests :
          req[r].pc = "reserve" /\ req'[r].pc = "visit" => ~calm[r]]_allVars

(* A settlement never charges a balance the provider has just reported:    *)
(* what a response said of a key is what the ledger says of it right after *)
(* the request is settled.                                                 *)
ReportIsFinal ==
    [][\A r \in Requests, k \in Keys :
          /\ req[r].pc = "observe" /\ req'[r].pc = "idle"
          /\ k \in DOMAIN req[r].facts
          /\ req[r].amounts[k] > 0
          => IF Expired(req[r].facts[k])
             THEN buckets'[k] = Nil
             ELSE /\ buckets'[k] # Nil
                  /\ observation'[k][buckets'[k]] = Normalise(req[r].facts[k])]_allVars
=============================================================================
