---------------------------- MODULE QuotaLedger ----------------------------
(***************************************************************************)
(* The in-memory quota ledger of internal/router/router_quota.go.  Every   *)
(* exported method takes the ledger mutex once, so each is one action; the *)
(* callers (concurrent requests) are free to call them in any order and    *)
(* with handles of tickets that were already consumed.                     *)
(*                                                                         *)
(* A *quotaBucket is an object of its own: tickets keep the POINTER they   *)
(* reserved against, and a reset only unlinks the object from the map.     *)
(* The objects ever installed under key k are numbered 1..gen[k];          *)
(* buckets[k] is the one the map holds now, Nil when it holds none, and    *)
(* held[t][k] the one ticket t points to, Nil when the key was unknown     *)
(* when t was issued.  The fields of object g of key k are                 *)
(* observation[k][g], reserved[k][g] and probeSettled[k][g].               *)
(*                                                                         *)
(* A definition that no action uses, placed before the one it resembles,   *)
(* is a deliberate fault that shows that a property can fail.              *)
(***************************************************************************)
EXTENDS Integers, PrefixSums

CONSTANTS
    Keys,        \* QuotaBucketKey values
    MinuteKeys,  \* the keys whose Window is QuotaWindowMinute
    Costs,       \* non-zero costs a caller reserves on a key
    Actuals,     \* consumptions a caller settles with
    Facts,       \* observations a provider adapter can report
    Minute,      \* clock units per minute
    MaxLimit,    \* bound on the limit of an observation
    MaxGen,      \* bound on the objects installed under one key
    MaxTicketID, \* bound on the tickets issued (2^64 - 1 in the code)
    MaxTime      \* bound on the clock

Confidence == {"authoritative", "estimated"}
Fact == [limit : Nat, remaining : Nat, resetAt : Nat, confidence : Confidence]

ASSUME BoundsAssumption ==
    /\ MaxGen \in Nat
    /\ MaxTicketID \in Nat
    /\ MaxTime \in Nat
    /\ MaxLimit \in Nat
    /\ Minute \in Nat \ {0}
    /\ MinuteKeys \subseteq Keys

ASSUME InputsAssumption ==
    /\ Costs \subseteq Nat \ {0}
    /\ Actuals \subseteq Nat
    /\ Facts \subseteq Fact
    /\ \A f \in Facts : f.limit <= MaxLimit
    /\ \A c \in Costs : c <= MaxLimit

VARIABLES
    now,          \* time.Now()
    buckets,      \* l.buckets
    observation,  \* quotaBucket.observation of every object
    reserved,     \* quotaBucket.reserved
    probeSettled, \* quotaBucket.probeSettled
    gen,          \* number of objects ever installed under a key
    ticket,       \* life of a ticket id: l.tickets holds it iff it is "live"
    cost,         \* quotaTicketState.holds[k].cost, 0 when k is not held
    held,         \* quotaTicketState.holds[k].bucket
    nextTicketID  \* l.nextTicketID

vars == <<now, buckets, observation, reserved, probeSettled, gen,
          ticket, cost, held, nextTicketID>>

Nil == 0
NoReset == 0      \* a zero time.Time in ResetAt
Gens == 1 .. MaxGen
TicketIDs == 1 .. MaxTicketID

(* QuotaObservation; Source is never read by the ledger. *)
QuotaObservation ==
    [limit : Nat, remaining : Nat, resetAt : Nat, confidence : Confidence,
     observedAt : Nat]

NoObservation == [limit |-> 0, remaining |-> 0, resetAt |-> NoReset,
                  confidence |-> "authoritative", observedAt |-> 0]

Min(m, n) == IF m <= n THEN m ELSE n

(* What the caller settles one held key with: nothing (the estimate is     *)
(* charged), an actual consumption, or the provider's observation.         *)
Settlements ==
    [kind : {"omitted"}] \cup [kind : {"actual"}, actual : Actuals]
        \cup [kind : {"observed"}, fact : Facts]

----------------------------------------------------------------------------
Expired(o) == o.resetAt # NoReset /\ o.resetAt <= now

(* purgeExpiredLocked: the map without the objects whose reset has passed. *)
Purged ==
    [k \in Keys |->
        IF buckets[k] # Nil /\ Expired(observation[k][buckets[k]])
        THEN Nil ELSE buckets[k]]

NormaliseUnclamped(f) ==
    [limit |-> f.limit, remaining |-> f.remaining,
     resetAt |-> f.resetAt, confidence |-> f.confidence, observedAt |-> now]

(* normaliseQuotaObservation: a malformed remaining is cut to the limit. *)
Normalise(f) ==
    [limit |-> f.limit, remaining |-> Min(f.remaining, f.limit),
     resetAt |-> f.resetAt, confidence |-> f.confidence, observedAt |-> now]

(* The object an observation of key k is written to: the linked one, or a  *)
(* new &quotaBucket{} when the map has none.                               *)
Slot(bk, k) == IF bk[k] = Nil THEN gen[k] + 1 ELSE bk[k]

FitsOrProbesBusy(bk, k, c) ==
    bk[k] # Nil =>
        \/ observation[k][bk[k]].remaining - reserved[k][bk[k]] >= c
        \/ observation[k][bk[k]].confidence = "estimated" /\ ~probeSettled[k][bk[k]]

FitsOrProbesAgain(bk, k, c) ==
    bk[k] # Nil =>
        \/ observation[k][bk[k]].remaining - reserved[k][bk[k]] >= c
        \/ observation[k][bk[k]].confidence = "estimated" /\ reserved[k][bk[k]] = 0

(* The ReserveAll test on one key. *)
FitsOrProbes(bk, k, c) ==
    bk[k] # Nil =>
        \/ observation[k][bk[k]].remaining - reserved[k][bk[k]] >= c
        \/ /\ observation[k][bk[k]].confidence = "estimated"
           /\ reserved[k][bk[k]] = 0
           /\ ~probeSettled[k][bk[k]]

----------------------------------------------------------------------------
Init ==
    /\ now = 0
    /\ buckets = [k \in Keys |-> Nil]
    /\ observation = [k \in Keys |-> [g \in Gens |-> NoObservation]]
    /\ reserved = [k \in Keys |-> [g \in Gens |-> 0]]
    /\ probeSettled = [k \in Keys |-> [g \in Gens |-> FALSE]]
    /\ gen = [k \in Keys |-> 0]
    /\ ticket = [t \in TicketIDs |-> "unissued"]
    /\ cost = [t \in TicketIDs |-> [k \in Keys |-> 0]]
    /\ held = [t \in TicketIDs |-> [k \in Keys |-> Nil]]
    /\ nextTicketID = 0

Tick ==
    /\ now < MaxTime
    /\ now' = now + 1
    /\ UNCHANGED <<buckets, observation, reserved, probeSettled, gen,
                   ticket, cost, held, nextTicketID>>

(* Observe of a fact whose reset has already passed: the key is forgotten. *)
ObserveExpired(k, f) ==
    /\ Expired(f)
    /\ buckets' = [Purged EXCEPT ![k] = Nil]
    /\ UNCHANGED <<now, observation, reserved, probeSettled, gen,
                   ticket, cost, held, nextTicketID>>

Observe(k, f) ==
    LET g == Slot(Purged, k) IN
    /\ ~Expired(f)
    /\ g <= MaxGen
    /\ buckets' = [Purged EXCEPT ![k] = g]
    /\ observation' = [observation EXCEPT ![k][g] = Normalise(f)]
    /\ gen' = [gen EXCEPT ![k] = IF g > @ THEN g ELSE @]
    /\ UNCHANGED <<now, reserved, probeSettled, ticket, cost, held, nextTicketID>>

(* Snapshot and Keys purge; Snapshot also drops a minute bucket that was   *)
(* observed without a reset in an earlier minute.                          *)
Snapshot(k) ==
    LET g == Purged[k]
        stale == /\ k \in MinuteKeys
                 /\ g # Nil
                 /\ observation[k][g].resetAt = NoReset
                 /\ now \div Minute > observation[k][g].observedAt \div Minute
    IN
    /\ buckets' = IF stale THEN [Purged EXCEPT ![k] = Nil] ELSE Purged
    /\ UNCHANGED <<now, observation, reserved, probeSettled, gen,
                   ticket, cost, held, nextTicketID>>

(* ReserveAll(amounts): all the keys with a non-zero amount, or none. *)
ReserveAll(amounts) ==
    LET bk == Purged
        t == nextTicketID + 1 IN
    /\ t <= MaxTicketID
    /\ \A k \in Keys : amounts[k] > 0 => FitsOrProbes(bk, k, amounts[k])
    /\ buckets' = bk
    /\ reserved' = [k \in Keys |-> [g \in Gens |->
                       IF g = bk[k] THEN reserved[k][g] + amounts[k]
                                    ELSE reserved[k][g]]]
    /\ nextTicketID' = t
    /\ ticket' = [ticket EXCEPT ![t] = "live"]
    /\ cost' = [cost EXCEPT ![t] = amounts]
    /\ held' = [held EXCEPT ![t] =
                   [k \in Keys |-> IF amounts[k] > 0 THEN bk[k] ELSE Nil]]
    /\ UNCHANGED <<now, observation, probeSettled, gen>>

ReserveRefused(amounts) ==
    /\ \E k \in Keys : amounts[k] > 0 /\ ~FitsOrProbes(Purged, k, amounts[k])
    /\ buckets' = Purged
    /\ UNCHANGED <<now, observation, reserved, probeSettled, gen,
                   ticket, cost, held, nextTicketID>>

UnreservedLinked(t) ==
    [k \in Keys |-> [g \in Gens |->
        IF buckets[k] = g
        THEN reserved[k][g] - Min(reserved[k][g], cost[t][k])
        ELSE reserved[k][g]]]

(* releaseHoldsLocked: every object the ticket points to gets its cost back. *)
Unreserved(t) ==
    [k \in Keys |-> [g \in Gens |->
        IF held[t][k] = g
        THEN reserved[k][g] - Min(reserved[k][g], cost[t][k])
        ELSE reserved[k][g]]]

Release(t) ==
    /\ ticket[t] = "live"
    /\ buckets' = Purged
    /\ reserved' = Unreserved(t)
    /\ ticket' = [ticket EXCEPT ![t] = "released"]
    /\ UNCHANGED <<now, observation, probeSettled, gen, cost, held, nextTicketID>>

(* Release or Reconcile with a handle that was consumed before, and        *)
(* Reconcile naming a key the ticket does not hold: false, after a purge.  *)
ConsumeRefused(t) ==
    /\ ticket[t] # "unissued"
    /\ buckets' = Purged
    /\ UNCHANGED <<now, observation, reserved, probeSettled, gen,
                   ticket, cost, held, nextTicketID>>

Holds(t, k) == cost[t][k] > 0

PayingLinked(t, k, bk) == bk[k]

(* The object a settlement without an observation is charged to. *)
Paying(t, k, bk) == held[t][k]

(* Reconcile(t, settlements) on held keys.  Per key, in this order: the    *)
(* reservation is returned to the object the ticket points to, then an     *)
(* observation replaces what the MAP holds (or unlinks it when already     *)
(* expired), and otherwise the object the ticket points to is charged.     *)
Reconcile(t, s) ==
    LET bk == Purged
        Observed(k) == Holds(t, k) /\ s[k].kind = "observed"
        Installs(k) == Observed(k) /\ ~Expired(s[k].fact)
        Charged(k) == Holds(t, k) /\ s[k].kind # "observed"
        Charge(k) == IF s[k].kind = "actual" THEN s[k].actual ELSE cost[t][k]
    IN
    /\ ticket[t] = "live"
    /\ \A k \in Keys : Installs(k) => Slot(bk, k) <= MaxGen
    /\ ticket' = [ticket EXCEPT ![t] = "reconciled"]
    /\ reserved' = Unreserved(t)
    /\ probeSettled' = [k \in Keys |-> [g \in Gens |->
                           probeSettled[k][g] \/ held[t][k] = g]]
    /\ buckets' = [k \in Keys |->
                      IF Installs(k) THEN Slot(bk, k)
                      ELSE IF Observed(k) THEN Nil ELSE bk[k]]
    /\ gen' = [k \in Keys |->
                  IF Installs(k) /\ bk[k] = Nil THEN gen[k] + 1 ELSE gen[k]]
    /\ observation' = [k \in Keys |-> [g \in Gens |->
            IF Installs(k) /\ g = Slot(bk, k) THEN Normalise(s[k].fact)
            ELSE IF Charged(k) /\ g = Paying(t, k, bk)
            THEN [observation[k][g] EXCEPT !.remaining = @ - Min(@, Charge(k))]
            ELSE observation[k][g]]]
    /\ UNCHANGED <<now, cost, held, nextTicketID>>

Next ==
    \/ Tick
    \/ \E k \in Keys, f \in Facts : Observe(k, f)
    \/ \E k \in Keys, f \in Facts : ObserveExpired(k, f)
    \/ \E k \in Keys : Snapshot(k)
    \/ \E amounts \in [Keys -> Costs \cup {0}] : ReserveAll(amounts)
    \/ \E amounts \in [Keys -> Costs \cup {0}] : ReserveRefused(amounts)
    \/ \E t \in TicketIDs : Release(t)
    \/ \E t \in TicketIDs : ConsumeRefused(t)
    \/ \E t \in TicketIDs, s \in [Keys -> Settlements] : Reconcile(t, s)

Spec == Init /\ [][Next]_vars

----------------------------------------------------------------------------
(* The ledger's variables have the types of the Go structs; a remaining    *)
(* balance is never negative and never above the limit it came with,       *)
(* whatever a provider header said.                                        *)
TypeOK ==
    /\ now \in 0 .. MaxTime
    /\ buckets \in [Keys -> 0 .. MaxGen]
    /\ observation \in [Keys -> [Gens -> QuotaObservation]]
    /\ reserved \in [Keys -> [Gens -> Nat]]
    /\ probeSettled \in [Keys -> [Gens -> BOOLEAN]]
    /\ gen \in [Keys -> 0 .. MaxGen]
    /\ ticket \in [TicketIDs -> {"unissued", "live", "released", "reconciled"}]
    /\ cost \in [TicketIDs -> [Keys -> Costs \cup {0}]]
    /\ held \in [TicketIDs -> [Keys -> 0 .. MaxGen]]
    /\ nextTicketID \in 0 .. MaxTicketID
    /\ \A k \in Keys, g \in Gens :
          observation[k][g].remaining <= observation[k][g].limit

(* What ticket t contributes to object g of key k while it is live. *)
Contribution(t, k, g) ==
    IF ticket[t] = "live" /\ held[t][k] = g THEN cost[t][k] ELSE 0

(* The reserved counter of EVERY object, the unlinked ones included, is    *)
(* exactly the sum of the costs of the live tickets pointing to it: no     *)
(* release, reconcile, reset or duplicate cleanup ever leaks a reservation *)
(* or returns one twice, so the min in the code never cuts anything.       *)
Accounting ==
    \A k \in Keys, g \in Gens :
        reserved[k][g] =
            SumUpTo([t \in TicketIDs |-> Contribution(t, k, g)], MaxTicketID)

(* Reservations never grow past the larger of one limit and one request:   *)
(* with limits and costs in int64, reserved += cost cannot overflow, the   *)
(* bootstrap probe (which is let through over the limit) included.         *)
ReservedBounded ==
    \A k \in Keys, g \in Gens : reserved[k][g] <= MaxLimit

(* A ReserveAll that takes an object beyond its remaining balance is the   *)
(* bootstrap probe: the balance is an estimate, no other live ticket       *)
(* points to the object and no ticket that pointed to it was ever settled. *)
OverbookedBy(k, g) ==
    /\ reserved'[k][g] > reserved[k][g]
    /\ reserved'[k][g] > observation'[k][g].remaining

SingleBootstrapProbe ==
    [][\A k \in Keys, g \in Gens : OverbookedBy(k, g) =>
          /\ observation[k][g].confidence = "estimated"
          /\ \A t \in TicketIDs :
                held[t][k] = g => ticket[t] = "released"]_vars

(* A balance only drops because the provider reported it anew or because a *)
(* ticket that reserved on that very object is settled: a response that    *)
(* arrives after the reset of its window never eats the new window's quota. *)
ChargedOnlyByItsTickets ==
    [][\A k \in Keys, g \in Gens :
          observation'[k][g].remaining < observation[k][g].remaining =>
             \/ \E f \in Facts : observation'[k][g] = Normalise(f)
             \/ \E t \in TicketIDs :
                   /\ held[t][k] = g
                   /\ ticket[t] = "live"
                   /\ ticket'[t] = "reconciled"]_vars
=============================================================================
