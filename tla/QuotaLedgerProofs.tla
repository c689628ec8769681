------------------------- MODULE QuotaLedgerProofs -------------------------
(***************************************************************************)
(* Theorems about the quota ledger for every set of keys, costs and facts  *)
(* and every bound.  They rest on facts about prefix sums of any length,   *)
(* which come first: there, induction over the length is done with the     *)
(* least counterexample, which the well-foundedness of < on the naturals   *)
(* provides.                                                               *)
(***************************************************************************)
EXTENDS QuotaLedger, WellFoundedInduction, TLAPS

(* Every non-empty set of naturals has a least element. *)
LEMMA LeastNatural ==
    ASSUME NEW T, T \subseteq Nat, T # {}
    PROVE  \E m \in T : \A n \in T : m <= n
<1> DEFINE R == OpToRel(<, Nat)
<1>1. IsWellFoundedOn(R, Nat)
    BY NatLessThanWellFounded, Zenon
<1>2. \E m \in T : \A n \in T : ~(<<n, m>> \in R)
  <2> HIDE DEF R
  <2> QED BY <1>1, WFMin, Zenon
<1>3. PICK m \in T : \A n \in T : ~(<<n, m>> \in R)
    BY <1>2, Zenon
<1>4. \A n \in T : ~(n < m)
    BY <1>3, Zenon DEF OpToRel
<1> QED
    BY <1>4

(* p satisfies the recurrence of the prefix sums of f up to n. *)
Recurrence(p, f, n) ==
    \A i \in 0 .. n : p[i] = IF i = 0 THEN 0 ELSE p[i - 1] + f[i]

(* The recurrence has a solution for every length. *)
LEMMA RecurrenceSolvable ==
    ASSUME NEW n \in Nat, NEW f \in [1 .. n -> Nat]
    PROVE  \E p \in [0 .. n -> Nat] : Recurrence(p, f, n)
<1> DEFINE Solvable(m) == \E p \in [0 .. m -> Nat] : Recurrence(p, f, m)
           Bad == {m \in 0 .. n : ~Solvable(m)}
<1>1. SUFFICES ASSUME Bad # {} PROVE FALSE
  <2>1. n \in Bad \/ Solvable(n)
      OBVIOUS
  <2> HIDE DEF Bad
  <2> QED BY <2>1
<1>2. PICK m \in Bad : \A j \in Bad : m <= j
  <2>1. Bad \subseteq Nat
      OBVIOUS
  <2> HIDE DEF Bad
  <2> QED BY <1>1, <2>1, LeastNatural, Zenon
<1>3. m \in 0 .. n /\ ~Solvable(m)
    OBVIOUS
<1>4. m # 0
  <2>1. [i \in 0 .. 0 |-> 0] \in [0 .. 0 -> Nat]
      OBVIOUS
  <2>2. Recurrence([i \in 0 .. 0 |-> 0], f, 0)
      BY DEF Recurrence
  <2> QED BY <1>3, <2>1, <2>2, Zenon
<1>5. Solvable(m - 1)
  <2>1. m - 1 \in 0 .. n /\ ~(m <= m - 1)
      BY <1>3, <1>4
  <2>2. m - 1 \notin Bad
    <3> HIDE DEF Bad
    <3> QED BY <1>2, <2>1
  <2> QED BY <2>1, <2>2
<1>6. PICK p \in [0 .. m - 1 -> Nat] : Recurrence(p, f, m - 1)
    BY <1>5
<1> DEFINE q == [i \in 0 .. m |-> IF i = m THEN p[m - 1] + f[m] ELSE p[i]]
<1>7. q \in [0 .. m -> Nat]
    BY <1>3, <1>4
<1>8. Recurrence(q, f, m)
  <2>1. SUFFICES ASSUME NEW i \in 0 .. m
                 PROVE  q[i] = IF i = 0 THEN 0 ELSE q[i - 1] + f[i]
      BY Zenon DEF Recurrence
  <2>2. CASE i = m
      BY <1>3, <1>4, <2>2
  <2>3. CASE i # m
    <3>1. i \in 0 .. m - 1 /\ q[i] = p[i] /\ (i # 0 => q[i - 1] = p[i - 1])
        BY <1>3, <1>4, <2>3
    <3>2. p[i] = IF i = 0 THEN 0 ELSE p[i - 1] + f[i]
        BY <1>6, <3>1 DEF Recurrence
    <3> QED BY <3>1, <3>2
  <2> QED BY <2>2, <2>3
<1> QED
    BY <1>3, <1>7, <1>8, Zenon

(* PrefixSum satisfies its own recurrence, and its values are naturals. *)
LEMMA PrefixSumRecurrence ==
    ASSUME NEW n \in Nat, NEW f \in [1 .. n -> Nat]
    PROVE  /\ Recurrence(PrefixSum(f, n), f, n)
           /\ \A i \in 0 .. n : PrefixSum(f, n)[i] \in Nat
<1> DEFINE Body(p) == [i \in 0 .. n |-> IF i = 0 THEN 0 ELSE p[i - 1] + f[i]]
           s == PrefixSum(f, n)
<1>1. PICK p \in [0 .. n -> Nat] : Recurrence(p, f, n)
    BY RecurrenceSolvable
<1>2. p = Body(p)
    BY <1>1 DEF Recurrence
<1>3. s = CHOOSE q : q = Body(q)
    BY DEF PrefixSum
<1>4. s = Body(s)
  <2> HIDE DEF s, Body
  <2> QED BY <1>2, <1>3
<1> HIDE DEF s
<1>5. Recurrence(s, f, n)
    BY <1>4 DEF Recurrence
<1> DEFINE Bad == {i \in 0 .. n : s[i] \notin Nat}
<1>6. ASSUME Bad # {} PROVE FALSE
  <2>1. Bad \subseteq Nat
      OBVIOUS
  <2>2. PICK m \in Bad : \A j \in Bad : m <= j
    <3> HIDE DEF Bad
    <3> QED BY <1>6, <2>1, LeastNatural, Zenon
  <2>3. m \in 0 .. n /\ s[m] \notin Nat
      OBVIOUS
  <2>4. m # 0
      BY <1>5, <2>3 DEF Recurrence
  <2>5. m - 1 \in 0 .. n /\ ~(m <= m - 1)
      BY <2>3, <2>4
  <2>6. m - 1 \notin Bad
    <3> HIDE DEF Bad
    <3> QED BY <2>2, <2>5
  <2>7. s[m - 1] \in Nat
      BY <2>5, <2>6
  <2>8. s[m] = s[m - 1] + f[m]
    <3> HIDE DEF Bad
    <3> QED BY <1>5, <2>3, <2>4 DEF Recurrence
  <2>9. f[m] \in Nat
    <3> HIDE DEF Bad
    <3>1. m \in 1 .. n
        BY <2>3, <2>4
    <3> QED BY <3>1
  <2>10. \A a, b \in Nat : a + b \in Nat
      OBVIOUS
  <2>11. s[m - 1] + f[m] \in Nat
    <3> HIDE DEF Bad
    <3> QED BY <2>7, <2>9, <2>10, Zenon
  <2> HIDE DEF Bad
  <2> QED BY <2>3, <2>8, <2>11, Zenon
<1> QED
    BY <1>5, <1>6 DEF s

(* A sum is a natural number. *)
LEMMA SumUpToType ==
    ASSUME NEW n \in Nat, NEW f \in [1 .. n -> Nat]
    PROVE  SumUpTo(f, n) \in Nat
BY PrefixSumRecurrence DEF SumUpTo

(* Changing one summand changes the sum by the difference. *)
LEMMA SumUpdate ==
    ASSUME NEW n \in Nat, NEW f \in [1 .. n -> Nat], NEW g \in [1 .. n -> Nat],
           NEW k \in 1 .. n, \A i \in 1 .. n : i # k => g[i] = f[i]
    PROVE  SumUpTo(g, n) + f[k] = SumUpTo(f, n) + g[k]
<1> DEFINE p == PrefixSum(f, n)
           q == PrefixSum(g, n)
           Shift(i) == IF i < k THEN q[i] = p[i] ELSE q[i] + f[k] = p[i] + g[k]
           Bad == {i \in 0 .. n : ~Shift(i)}
<1>1. /\ Recurrence(p, f, n) /\ \A i \in 0 .. n : p[i] \in Nat
      /\ Recurrence(q, g, n) /\ \A i \in 0 .. n : q[i] \in Nat
    BY PrefixSumRecurrence
<1> HIDE DEF p, q
<1>2. ASSUME Bad # {} PROVE FALSE
  <2>1. Bad \subseteq Nat
      OBVIOUS
  <2>2. PICK m \in Bad : \A j \in Bad : m <= j
    <3> HIDE DEF Bad
    <3> QED BY <1>2, <2>1, LeastNatural, Zenon
  <2>3. m \in 0 .. n /\ ~Shift(m)
      OBVIOUS
  <2>4. m # 0
      BY <1>1, <2>3 DEF Recurrence
  <2>5. m - 1 \in 0 .. n /\ ~(m <= m - 1)
      BY <2>3, <2>4
  <2>6. m - 1 \notin Bad
    <3> HIDE DEF Bad
    <3> QED BY <2>2, <2>5
  <2>7. Shift(m - 1)
      BY <2>5, <2>6
  <2>8. p[m] = p[m - 1] + f[m] /\ q[m] = q[m - 1] + g[m]
      BY <1>1, <2>3, <2>4 DEF Recurrence
  <2>9. m \in 1 .. n /\ f[m] \in Nat /\ g[m] \in Nat /\ (m # k => g[m] = f[m])
      BY <2>3, <2>4
  <2>10. p[m - 1] \in Nat /\ q[m - 1] \in Nat /\ f[k] \in Nat /\ g[k] \in Nat
      BY <1>1, <2>5
  <2>11. CASE m < k
      BY <2>3, <2>7, <2>8, <2>9, <2>10, <2>11
  <2>12. CASE m = k
      BY <2>3, <2>7, <2>8, <2>9, <2>10, <2>12
  <2>13. CASE m > k
    <3>1. q[m - 1] + f[k] = p[m - 1] + g[k]
        BY <2>7, <2>9, <2>13
    <3>2. q[m] + f[k] # p[m] + g[k]
        BY <2>3, <2>9, <2>13
    <3>3. q[m] = q[m - 1] + f[m] /\ p[m] = p[m - 1] + f[m]
        BY <2>8, <2>9, <2>13
    <3> DEFINE a == q[m - 1]
               b == p[m - 1]
               c == f[m]
               d == f[k]
               e == g[k]
    <3>4. a \in Nat /\ b \in Nat /\ c \in Nat /\ d \in Nat /\ e \in Nat
        BY <2>9, <2>10
    <3>5. a + d = b + e /\ (a + c) + d # (b + c) + e
        BY <3>1, <3>2, <3>3
    <3> HIDE DEF a, b, c, d, e, Bad
    <3> QED BY <3>4, <3>5
  <2> QED BY <2>9, <2>11, <2>12, <2>13
<1>3. Shift(n)
    BY <1>2
<1> QED
    BY <1>3 DEF SumUpTo, p, q

(* A sum is at least each of its summands. *)
LEMMA SumAtLeast ==
    ASSUME NEW n \in Nat, NEW f \in [1 .. n -> Nat], NEW k \in 1 .. n
    PROVE  f[k] <= SumUpTo(f, n)
<1> DEFINE g == [f EXCEPT ![k] = 0]
<1>1. /\ g \in [1 .. n -> Nat] /\ g[k] = 0
      /\ \A i \in 1 .. n : i # k => g[i] = f[i]
    OBVIOUS
<1> HIDE DEF g
<1>2. SumUpTo(g, n) + f[k] = SumUpTo(f, n) + g[k]
    BY <1>1, SumUpdate, SMTT(20)
<1>3. SumUpTo(g, n) \in Nat /\ SumUpTo(f, n) \in Nat /\ f[k] \in Nat
    BY <1>1, SumUpToType
<1> QED
    BY <1>1, <1>2, <1>3

(* A sum of zeros is zero. *)
LEMMA SumOfZeros ==
    ASSUME NEW n \in Nat
    PROVE  SumUpTo([i \in 1 .. n |-> 0], n) = 0
<1> DEFINE z == [i \in 1 .. n |-> 0]
           p == PrefixSum(z, n)
           Bad == {i \in 0 .. n : p[i] # 0}
<1>1. z \in [1 .. n -> Nat] /\ \A i \in 1 .. n : z[i] = 0
    OBVIOUS
<1> HIDE DEF z
<1>2. Recurrence(p, z, n)
    BY <1>1, PrefixSumRecurrence
<1> HIDE DEF p
<1>3. ASSUME Bad # {} PROVE FALSE
  <2>1. Bad \subseteq Nat
      OBVIOUS
  <2>2. PICK m \in Bad : \A j \in Bad : m <= j
    <3> HIDE DEF Bad
    <3> QED BY <1>3, <2>1, LeastNatural, Zenon
  <2>3. m \in 0 .. n /\ p[m] # 0
      OBVIOUS
  <2>4. m # 0
      BY <1>2, <2>3 DEF Recurrence
  <2>5. m - 1 \in 0 .. n /\ ~(m <= m - 1)
      BY <2>3, <2>4
  <2>6. m - 1 \notin Bad
    <3> HIDE DEF Bad
    <3> QED BY <2>2, <2>5
  <2>7. p[m - 1] = 0
      BY <2>5, <2>6
  <2>8. p[m] = p[m - 1] + z[m]
      BY <1>2, <2>3, <2>4 DEF Recurrence
  <2>9. z[m] = 0
      BY <1>1, <2>3, <2>4
  <2> QED BY <2>3, <2>7, <2>8, <2>9
<1> QED
    BY <1>3 DEF SumUpTo, p, z

----------------------------------------------------------------------------
(* What a ticket holds on a key is a natural number; it is zero or a cost. *)
LEMMA AmountIsNat ==
    ASSUME NEW c \in Costs \cup {0}
    PROVE  c \in Nat /\ c <= MaxLimit
<1>1. CASE c = 0
    BY <1>1, BoundsAssumption
<1>2. CASE c \in Costs
    BY <1>2, InputsAssumption
<1> QED BY <1>1, <1>2

(* What any caller may do to the ledger: as Next, with every well-formed   *)
(* fact below the limit, every consumption and a purge at any time.  The   *)
(* steps below are proved of these calls, so that they also hold of the    *)
(* requests of QuotaRouting.                                               *)
Reportable == {f \in Fact : f.limit <= MaxLimit}

AnySettlement ==
    [kind : {"omitted"}] \cup [kind : {"actual"}, actual : Nat]
        \cup [kind : {"observed"}, fact : Reportable]

Purge ==
    /\ buckets' = Purged
    /\ UNCHANGED <<now, observation, reserved, probeSettled, gen,
                   ticket, cost, held, nextTicketID>>

LedgerCall ==
    \/ Tick
    \/ \E k \in Keys, f \in Reportable : Observe(k, f) \/ ObserveExpired(k, f)
    \/ \E k \in Keys : Snapshot(k)
    \/ Purge
    \/ \E amounts \in [Keys -> Costs \cup {0}] : ReserveAll(amounts)
    \/ \E t \in TicketIDs : Release(t)
    \/ \E t \in TicketIDs, s \in [Keys -> AnySettlement] : Reconcile(t, s)

(* The calls of the specification are calls. *)
LEMMA NextIsCall == [Next]_vars => [LedgerCall]_vars
<1>1. Facts \subseteq Reportable
    BY InputsAssumption DEF Reportable
<1>2. Settlements \subseteq AnySettlement
    BY <1>1, InputsAssumption, Zenon DEF Settlements, AnySettlement
<1>3. \A s \in [Keys -> Settlements] : s \in [Keys -> AnySettlement]
    BY <1>2
<1>4. ASSUME \/ \E amounts \in [Keys -> Costs \cup {0}] : ReserveRefused(amounts)
             \/ \E t \in TicketIDs : ConsumeRefused(t)
      PROVE  Purge
    BY <1>4 DEF ReserveRefused, ConsumeRefused, Purge
<1> QED BY <1>1, <1>3, <1>4 DEF Next, LedgerCall

(* purgeExpiredLocked only ever unlinks. *)
LEMMA PurgedType ==
    ASSUME TypeOK
    PROVE  /\ Purged \in [Keys -> 0 .. MaxGen]
           /\ \A k \in Keys : Purged[k] = Nil \/ Purged[k] = buckets[k]
BY BoundsAssumption DEF TypeOK, Purged, Nil

(* A normalised observation is well formed and within its limit. *)
LEMMA NormaliseType ==
    ASSUME TypeOK, NEW f \in Reportable
    PROVE  /\ Normalise(f) \in QuotaObservation
           /\ Normalise(f).remaining <= Normalise(f).limit
           /\ Normalise(f).limit <= MaxLimit
BY BoundsAssumption DEF TypeOK, Normalise, QuotaObservation, Reportable, Fact, Min

(* Charging an observation keeps it well formed, with the same limit. *)
LEMMA ChargeType ==
    ASSUME NEW o \in QuotaObservation, NEW c \in Nat, o.remaining <= o.limit
    PROVE  LET p == [o EXCEPT !.remaining = @ - Min(@, c)]
           IN  /\ p \in QuotaObservation
               /\ p.remaining <= p.limit
               /\ p.limit = o.limit
               /\ p.confidence = o.confidence
BY DEF QuotaObservation, Min

(* releaseHoldsLocked leaves natural reserved counters. *)
LEMMA UnreservedType ==
    ASSUME TypeOK, NEW t \in TicketIDs
    PROVE  Unreserved(t) \in [Keys -> [Gens -> Nat]]
<1>1. \A k \in Keys : cost[t][k] \in Nat
    BY AmountIsNat DEF TypeOK
<1>2. \A k \in Keys, g \in Gens : reserved[k][g] \in Nat
    BY DEF TypeOK
<1>3. \A m, n \in Nat : m - Min(m, n) \in Nat
    BY DEF Min
<1> QED BY <1>1, <1>2, <1>3, Zenon DEF Unreserved

(* The ledger is type correct: with the code's guards every map, counter   *)
(* and balance stays in its range.                                         *)
LEMMA TypeInit == Init => TypeOK
BY BoundsAssumption
   DEF Init, TypeOK, Nil, NoObservation, QuotaObservation, Confidence, NoReset,
       Gens, TicketIDs

(* Every ledger method, and the passing of time, preserves the types. *)
LEMMA TypeStep == TypeOK /\ [LedgerCall]_vars => TypeOK'
<1> SUFFICES ASSUME TypeOK, [LedgerCall]_vars PROVE TypeOK'
    OBVIOUS
<1>0. CASE UNCHANGED vars
    BY <1>0 DEF vars, TypeOK
<1>1. CASE Tick
    BY <1>1, BoundsAssumption DEF Tick, TypeOK
<1>2. ASSUME NEW k \in Keys, NEW f \in Reportable, Observe(k, f) PROVE TypeOK'
  <2> DEFINE g == Slot(Purged, k)
  <2>1. g \in Gens
    <3>1. Purged[k] \in 0 .. MaxGen /\ gen[k] \in 0 .. MaxGen
        BY PurgedType DEF TypeOK
    <3>2. Slot(Purged, k) <= MaxGen
        BY <1>2 DEF Observe
    <3> QED BY <3>1, <3>2, BoundsAssumption DEF Slot, Gens, Nil
  <2>2. buckets' \in [Keys -> 0 .. MaxGen]
      BY <1>2, <2>1, PurgedType, BoundsAssumption DEF Observe, Gens
  <2>3. observation' = [observation EXCEPT ![k][g] = Normalise(f)]
      BY <1>2 DEF Observe
  <2>4. observation' \in [Keys -> [Gens -> QuotaObservation]]
      BY <2>1, <2>3, NormaliseType DEF TypeOK
  <2>5. \A kk \in Keys, gg \in Gens :
           observation'[kk][gg].remaining <= observation'[kk][gg].limit
      BY <2>1, <2>3, NormaliseType DEF TypeOK
  <2>6. gen' \in [Keys -> 0 .. MaxGen]
      BY <1>2, <2>1, BoundsAssumption DEF Observe, TypeOK, Gens
  <2> QED BY <1>2, <2>2, <2>4, <2>5, <2>6 DEF Observe, TypeOK
<1>3. ASSUME NEW k \in Keys, NEW f \in Reportable, ObserveExpired(k, f) PROVE TypeOK'
    BY <1>3, PurgedType, BoundsAssumption DEF ObserveExpired, TypeOK, Nil
<1>4. ASSUME NEW k \in Keys, Snapshot(k) PROVE TypeOK'
    BY <1>4, PurgedType, BoundsAssumption DEF Snapshot, TypeOK, Nil
<1>5. ASSUME NEW amounts \in [Keys -> Costs \cup {0}], ReserveAll(amounts)
      PROVE  TypeOK'
  <2>1. \A k \in Keys : amounts[k] \in Nat
    <3>1. \A k \in Keys : amounts[k] \in Costs \cup {0}
        OBVIOUS
    <3> QED BY <3>1, AmountIsNat
  <2>2. reserved' \in [Keys -> [Gens -> Nat]]
      BY <1>5, <2>1 DEF ReserveAll, TypeOK
  <2>3. nextTicketID + 1 \in TicketIDs
      BY <1>5, BoundsAssumption DEF ReserveAll, TypeOK, TicketIDs
  <2>4. buckets' \in [Keys -> 0 .. MaxGen]
      BY <1>5, PurgedType DEF ReserveAll
  <2>5. [k \in Keys |-> IF amounts[k] > 0 THEN Purged[k] ELSE Nil]
           \in [Keys -> 0 .. MaxGen]
      BY PurgedType, BoundsAssumption DEF Nil
  <2>6. held' \in [TicketIDs -> [Keys -> 0 .. MaxGen]]
      BY <1>5, <2>5, Zenon DEF ReserveAll, TypeOK
  <2>7. /\ cost' \in [TicketIDs -> [Keys -> Costs \cup {0}]]
        /\ ticket' \in [TicketIDs -> {"unissued", "live", "released", "reconciled"}]
      BY <1>5, Zenon DEF ReserveAll, TypeOK
  <2>8. nextTicketID' \in 0 .. MaxTicketID
      BY <1>5, <2>3, BoundsAssumption DEF ReserveAll, TypeOK, TicketIDs
  <2> QED BY <1>5, <2>2, <2>4, <2>6, <2>7, <2>8 DEF ReserveAll, TypeOK
<1>6. CASE Purge
    BY <1>6, PurgedType DEF Purge, TypeOK
<1>7. ASSUME NEW t \in TicketIDs, Release(t) PROVE TypeOK'
    BY <1>7, PurgedType, UnreservedType DEF Release, TypeOK
<1>8. ASSUME NEW t \in TicketIDs, NEW s \in [Keys -> AnySettlement], Reconcile(t, s)
      PROVE  TypeOK'
  <2> DEFINE bk == Purged
             Observed(k) == Holds(t, k) /\ s[k].kind = "observed"
             Installs(k) == Observed(k) /\ ~Expired(s[k].fact)
             Charged(k) == Holds(t, k) /\ s[k].kind # "observed"
             Charge(k) == IF s[k].kind = "actual" THEN s[k].actual ELSE cost[t][k]
  <2>1. \A k \in Keys : /\ s[k].kind = "observed" => s[k].fact \in Reportable
                        /\ Charge(k) \in Nat
    <3>1. TAKE k \in Keys
    <3>2. s[k] \in AnySettlement
        OBVIOUS
    <3>3. cost[t][k] \in Nat
        BY AmountIsNat DEF TypeOK
    <3>4. s[k].kind = "actual" => s[k].actual \in Nat
        BY <3>2 DEF AnySettlement
    <3>5. s[k].kind = "observed" => s[k].fact \in Reportable
        BY <3>2 DEF AnySettlement
    <3> QED BY <3>3, <3>4, <3>5
  <2>2. \A k \in Keys : Installs(k) => Slot(bk, k) \in Gens
    <3>1. \A k \in Keys : Installs(k) => Slot(bk, k) <= MaxGen
        BY <1>8 DEF Reconcile
    <3> HIDE DEF Installs
    <3> QED BY <3>1, PurgedType, BoundsAssumption DEF Slot, TypeOK, Gens, Nil
  <2>3. buckets' \in [Keys -> 0 .. MaxGen]
    <3>1. buckets' = [k \in Keys |-> IF Installs(k) THEN Slot(bk, k)
                                     ELSE IF Observed(k) THEN Nil ELSE bk[k]]
        BY <1>8 DEF Reconcile
    <3> HIDE DEF Installs, Observed
    <3> QED BY <2>2, <3>1, PurgedType, BoundsAssumption DEF Gens, Nil
  <2>4. gen' \in [Keys -> 0 .. MaxGen]
    <3>1. gen' = [k \in Keys |->
                     IF Installs(k) /\ bk[k] = Nil THEN gen[k] + 1 ELSE gen[k]]
        BY <1>8 DEF Reconcile
    <3>2. \A k \in Keys : Installs(k) /\ bk[k] = Nil => gen[k] + 1 \in 0 .. MaxGen
        BY <2>2, BoundsAssumption DEF Slot, Gens
    <3> HIDE DEF Installs
    <3> QED BY <3>1, <3>2 DEF TypeOK
  <2>5. \A k \in Keys, g \in Gens :
           /\ observation'[k][g] \in QuotaObservation
           /\ observation'[k][g].remaining <= observation'[k][g].limit
    <3>1. TAKE k \in Keys, g \in Gens
    <3> DEFINE o == observation[k][g]
    <3>2. o \in QuotaObservation /\ o.remaining <= o.limit
        BY DEF TypeOK
    <3>3. observation'[k][g] =
             IF Installs(k) /\ g = Slot(bk, k) THEN Normalise(s[k].fact)
             ELSE IF Charged(k) /\ g = held[t][k]
             THEN [o EXCEPT !.remaining = @ - Min(@, Charge(k))] ELSE o
        BY <1>8 DEF Reconcile, Paying
    <3>4. CASE Installs(k) /\ g = Slot(bk, k)
        BY <2>1, <3>3, <3>4, NormaliseType
    <3>5. CASE ~(Installs(k) /\ g = Slot(bk, k)) /\ Charged(k) /\ g = held[t][k]
      <4>1. observation'[k][g] = [o EXCEPT !.remaining = @ - Min(@, Charge(k))]
          BY <3>3, <3>5
      <4> HIDE DEF o, Charge
      <4> QED BY <2>1, <3>2, <4>1, ChargeType
    <3>6. CASE /\ ~(Installs(k) /\ g = Slot(bk, k))
               /\ ~(Charged(k) /\ g = held[t][k])
        BY <3>2, <3>3, <3>6
    <3> QED BY <3>4, <3>5, <3>6
  <2>6. observation' \in [Keys -> [Gens -> QuotaObservation]]
      BY <1>8, <2>5 DEF Reconcile
  <2>7. probeSettled' \in [Keys -> [Gens -> BOOLEAN]]
      BY <1>8, Zenon DEF Reconcile, TypeOK
  <2>8. reserved' \in [Keys -> [Gens -> Nat]]
      BY <1>8, UnreservedType DEF Reconcile
  <2>9. ticket' \in [TicketIDs -> {"unissued", "live", "released", "reconciled"}]
      BY <1>8 DEF Reconcile, TypeOK
  <2> HIDE DEF bk, Observed, Installs, Charged, Charge
  <2> QED BY <1>8, <2>3, <2>4, <2>5, <2>6, <2>7, <2>8, <2>9, Zenon DEF Reconcile, TypeOK
<1> QED
    BY <1>0, <1>1, <1>2, <1>3, <1>4, <1>5, <1>6, <1>7, <1>8 DEF LedgerCall

(* The ledger is type correct in every reachable state, for every bound. *)
THEOREM TypeCorrect == Spec => []TypeOK
BY TypeInit, TypeStep, NextIsCall, PTL DEF Spec

----------------------------------------------------------------------------
(* Ticket ids above the counter were never handed out, so ReserveAll never *)
(* reuses the id of a live ticket.                                         *)
FreshIDs == \A t \in TicketIDs : t > nextTicketID => ticket[t] = "unissued"

(* The inductive invariant behind Accounting. *)
AInv == TypeOK /\ FreshIDs /\ Accounting

(* The contributions to one object, as the function that Accounting sums. *)
Contributions(k, g) == [t \in TicketIDs |-> Contribution(t, k, g)]

(* What the tickets contribute to an object are naturals, one per ticket. *)
LEMMA ContributionsType ==
    ASSUME TypeOK, NEW k \in Keys, NEW g \in Gens
    PROVE  Contributions(k, g) \in [1 .. MaxTicketID -> Nat]
<1>1. \A t \in TicketIDs : cost[t][k] \in Nat
    BY AmountIsNat DEF TypeOK
<1> QED BY <1>1 DEF Contributions, Contribution, TicketIDs

(* What a live ticket holds on an object is part of its reserved counter,  *)
(* so the min in releaseHoldsLocked and Reconcile never truncates.         *)
LEMMA HeldIsReserved ==
    ASSUME TypeOK, Accounting, NEW k \in Keys, NEW g \in Gens, NEW t \in TicketIDs
    PROVE  Contribution(t, k, g) <= reserved[k][g]
<1>1. Contributions(k, g)[t] <= SumUpTo(Contributions(k, g), MaxTicketID)
    BY ContributionsType, SumAtLeast, BoundsAssumption DEF TicketIDs
<1>2. Contributions(k, g)[t] = Contribution(t, k, g)
    BY DEF Contributions
<1>3. reserved[k][g] = SumUpTo(Contributions(k, g), MaxTicketID)
    BY DEF Accounting, Contributions
<1> QED BY <1>1, <1>2, <1>3

(* One ticket's contribution changes by d, the counter changes by d. *)
LEMMA AccountingUpdate ==
    ASSUME AInv, TypeOK', NEW t \in TicketIDs,
           \A u \in TicketIDs, k \in Keys, g \in Gens :
              u # t => Contribution(u, k, g)' = Contribution(u, k, g),
           \A k \in Keys, g \in Gens :
              reserved'[k][g] + Contribution(t, k, g)
                 = reserved[k][g] + Contribution(t, k, g)'
    PROVE  Accounting'
<1>1. SUFFICES ASSUME NEW k \in Keys, NEW g \in Gens
               PROVE  reserved'[k][g] = SumUpTo(Contributions(k, g)', MaxTicketID)
    BY DEF Accounting, Contributions
<1> DEFINE c == Contributions(k, g)
           d == Contributions(k, g)'
<1>2. c \in [1 .. MaxTicketID -> Nat]
    BY ContributionsType DEF AInv
<1>3. d \in [1 .. MaxTicketID -> Nat]
  <2>1. \A u \in TicketIDs : cost'[u][k] \in Nat
      BY AmountIsNat DEF TypeOK
  <2> QED BY <2>1 DEF Contributions, Contribution, TicketIDs
<1>4. /\ c[t] = Contribution(t, k, g)
      /\ d[t] = Contribution(t, k, g)'
      /\ \A u \in TicketIDs : u # t => d[u] = c[u]
    BY DEF Contributions
<1>5. reserved[k][g] = SumUpTo(c, MaxTicketID)
    BY DEF AInv, Accounting, Contributions
<1>6. reserved'[k][g] + c[t] = SumUpTo(c, MaxTicketID) + d[t]
    BY <1>4, <1>5
<1> HIDE DEF c, d
<1>7. SumUpTo(d, MaxTicketID) + c[t] = SumUpTo(c, MaxTicketID) + d[t]
    BY <1>2, <1>3, <1>4, SumUpdate, BoundsAssumption, Zenon DEF TicketIDs
<1>8. /\ SumUpTo(d, MaxTicketID) \in Nat /\ c[t] \in Nat
      /\ reserved'[k][g] \in Nat
  <2>1. SumUpTo(d, MaxTicketID) \in Nat
      BY <1>3, SumUpToType, BoundsAssumption
  <2>2. c[t] \in Nat
      BY <1>2 DEF TicketIDs
  <2>3. reserved'[k][g] \in Nat
      BY DEF TypeOK
  <2> QED BY <2>1, <2>2, <2>3
<1>9. reserved'[k][g] + c[t] = SumUpTo(d, MaxTicketID) + c[t]
    BY <1>6, <1>7
<1>10. \A a, b, e \in Nat : a + e = b + e => a = b
    OBVIOUS
<1>11. reserved'[k][g] = SumUpTo(d, MaxTicketID)
    BY <1>8, <1>9, <1>10
<1> QED BY <1>11 DEF d

(* Releasing a live ticket, or the release half of reconciling it. *)
LEMMA UnreservedAccounting ==
    ASSUME AInv, TypeOK', NEW t \in TicketIDs, ticket[t] = "live",
           reserved' = Unreserved(t), cost' = cost, held' = held,
           NEW st \in {"released", "reconciled"},
           ticket' = [ticket EXCEPT ![t] = st]
    PROVE  Accounting'
<1>1. \A u \in TicketIDs, k \in Keys, g \in Gens :
         u # t => Contribution(u, k, g)' = Contribution(u, k, g)
    BY DEF Contribution, AInv, TypeOK
<1>2. ASSUME NEW k \in Keys, NEW g \in Gens
      PROVE  reserved'[k][g] + Contribution(t, k, g)
                = reserved[k][g] + Contribution(t, k, g)'
  <2>1. Contribution(t, k, g)' = 0
      BY DEF Contribution, AInv, TypeOK
  <2>2. Contribution(t, k, g) <= reserved[k][g]
      BY HeldIsReserved DEF AInv
  <2>3. reserved[k][g] \in Nat /\ cost[t][k] \in Nat
      BY AmountIsNat DEF AInv, TypeOK
  <2>4. reserved'[k][g] = IF held[t][k] = g
                          THEN reserved[k][g] - Min(reserved[k][g], cost[t][k])
                          ELSE reserved[k][g]
      BY DEF Unreserved
  <2>5. CASE held[t][k] = g
    <3>1. Contribution(t, k, g) = cost[t][k]
        BY <2>5 DEF Contribution
    <3> QED BY <2>1, <2>2, <2>3, <2>4, <2>5, <3>1 DEF Min
  <2>6. CASE held[t][k] # g
    <3>1. Contribution(t, k, g) = 0
        BY <2>6 DEF Contribution
    <3> QED BY <2>1, <2>3, <2>4, <2>6, <3>1
  <2> QED BY <2>5, <2>6
<1> QED BY <1>1, <1>2, AccountingUpdate

(* A new ledger has no reservation, no ticket and no reserved amount. *)
LEMMA AccountingInit == Init => AInv
<1> SUFFICES ASSUME Init PROVE AInv
    OBVIOUS
<1>1. TypeOK
    BY TypeInit
<1>2. FreshIDs
    BY DEF Init, FreshIDs
<1>3. ASSUME NEW k \in Keys, NEW g \in Gens
      PROVE  reserved[k][g] = SumUpTo(Contributions(k, g), MaxTicketID)
  <2>1. Contributions(k, g) = [i \in 1 .. MaxTicketID |-> 0]
      BY DEF Contributions, Contribution, TicketIDs, Init
  <2>2. SumUpTo([i \in 1 .. MaxTicketID |-> 0], MaxTicketID) = 0
      BY SumOfZeros, BoundsAssumption
  <2> QED BY <2>1, <2>2 DEF Init
<1> QED BY <1>1, <1>2, <1>3 DEF AInv, Accounting, Contributions

(* Every ledger method keeps the reserved counters equal to what the live  *)
(* tickets hold; a new ticket has an identifier that was never issued.     *)
LEMMA AccountingStep == AInv /\ [LedgerCall]_vars => AInv'
<1> SUFFICES ASSUME AInv, [LedgerCall]_vars PROVE AInv'
    OBVIOUS
<1>0. TypeOK /\ TypeOK'
    BY TypeStep DEF AInv
<1>1. ASSUME UNCHANGED <<reserved, ticket, cost, held, nextTicketID>>
      PROVE  AInv'
    BY <1>0, <1>1 DEF AInv, FreshIDs, Accounting, Contribution
<1>2. CASE UNCHANGED vars
    BY <1>1, <1>2 DEF vars
<1>3. CASE \/ Tick
           \/ \E k \in Keys, f \in Reportable : Observe(k, f) \/ ObserveExpired(k, f)
           \/ \E k \in Keys : Snapshot(k)
           \/ Purge
    BY <1>1, <1>3, Zenon DEF Tick, Observe, ObserveExpired, Snapshot, Purge
<1>4. ASSUME NEW amounts \in [Keys -> Costs \cup {0}], ReserveAll(amounts)
      PROVE  AInv'
  <2>1. PICK t \in TicketIDs : t = nextTicketID + 1 /\ ticket[t] = "unissued"
      BY <1>0, <1>4, BoundsAssumption
         DEF ReserveAll, AInv, FreshIDs, TypeOK, TicketIDs
  <2>2. FreshIDs'
      BY <1>0, <1>4, <2>1 DEF ReserveAll, AInv, FreshIDs, TypeOK, TicketIDs
  <2>3. /\ ticket' = [ticket EXCEPT ![t] = "live"]
        /\ cost' = [cost EXCEPT ![t] = amounts]
        /\ held' = [held EXCEPT ![t] =
                      [k \in Keys |-> IF amounts[k] > 0 THEN Purged[k] ELSE Nil]]
        /\ reserved' = [k \in Keys |-> [g \in Gens |->
                          IF g = Purged[k] THEN reserved[k][g] + amounts[k]
                                           ELSE reserved[k][g]]]
      BY <1>4, <2>1, Zenon DEF ReserveAll
  <2>4. \A u \in TicketIDs, k \in Keys, g \in Gens :
           u # t => Contribution(u, k, g)' = Contribution(u, k, g)
      BY <1>0, <2>1, <2>3, Zenon DEF Contribution, TypeOK
  <2>5. ASSUME NEW k \in Keys, NEW g \in Gens
        PROVE  reserved'[k][g] + Contribution(t, k, g)
                  = reserved[k][g] + Contribution(t, k, g)'
    <3>1. Contribution(t, k, g) = 0
        BY <2>1, Zenon DEF Contribution
    <3>2. amounts[k] \in Nat /\ reserved[k][g] \in Nat
        BY <1>0, AmountIsNat DEF TypeOK
    <3>3. /\ ticket'[t] = "live"
          /\ cost'[t][k] = amounts[k]
          /\ held'[t][k] = IF amounts[k] > 0 THEN Purged[k] ELSE Nil
        BY <1>0, <2>1, <2>3, Zenon DEF TypeOK
    <3>4. g # Nil
        BY DEF Gens, Nil
    <3>5. Contribution(t, k, g)' = IF g = Purged[k] THEN amounts[k] ELSE 0
      <4>1. CASE amounts[k] > 0
          BY <3>3, <4>1, Zenon DEF Contribution
      <4>2. CASE amounts[k] = 0
          BY <3>3, <3>4, <4>2, Zenon DEF Contribution
      <4> QED BY <3>2, <4>1, <4>2
    <3>6. reserved'[k][g] = IF g = Purged[k] THEN reserved[k][g] + amounts[k]
                                             ELSE reserved[k][g]
        BY <2>3, Zenon
    <3> QED BY <3>1, <3>2, <3>5, <3>6
  <2>6. Accounting'
      BY <1>0, <2>1, <2>4, <2>5, AccountingUpdate, Zenon
  <2> QED BY <1>0, <2>2, <2>6, Zenon DEF AInv
<1>5. ASSUME NEW t \in TicketIDs, Release(t) PROVE AInv'
  <2>1. Accounting'
      BY <1>0, <1>5, UnreservedAccounting, Zenon DEF Release
  <2>2. FreshIDs'
      BY <1>0, <1>5, Zenon DEF Release, AInv, FreshIDs, TypeOK
  <2> QED BY <1>0, <2>1, <2>2, Zenon DEF AInv
<1>6. ASSUME NEW t \in TicketIDs, NEW s \in [Keys -> AnySettlement], Reconcile(t, s)
      PROVE  AInv'
  <2>1. Accounting'
      BY <1>0, <1>6, UnreservedAccounting, Zenon DEF Reconcile
  <2>2. FreshIDs'
      BY <1>0, <1>6, Zenon DEF Reconcile, AInv, FreshIDs, TypeOK
  <2> QED BY <1>0, <2>1, <2>2, Zenon DEF AInv
<1> QED
    BY <1>2, <1>3, <1>4, <1>5, <1>6, Zenon DEF LedgerCall

(* For every interleaving of observations, resets, reservations, releases  *)
(* and settlements, the reserved counter of every bucket object is the sum *)
(* of what its live tickets hold.                                          *)
THEOREM AccountingCorrect == Spec => []Accounting
<1>1. AInv => Accounting
    BY Zenon DEF AInv
<1> QED BY <1>1, AccountingInit, AccountingStep, NextIsCall, PTL DEF Spec

----------------------------------------------------------------------------
(* Balances never exceed the largest limit an adapter can report. *)
LimitsBounded == \A k \in Keys, g \in Gens : observation[k][g].limit <= MaxLimit

BInv == TypeOK /\ LimitsBounded /\ ReservedBounded

(* Nothing is observed or reserved in a new ledger. *)
LEMMA BoundedInit == Init => BInv
BY TypeInit, BoundsAssumption
   DEF Init, BInv, LimitsBounded, ReservedBounded, NoObservation

(* Every ledger method keeps limits and reserved counters below MaxLimit. *)
LEMMA BoundedStep == BInv /\ [LedgerCall]_vars => BInv'
<1> SUFFICES ASSUME BInv, [LedgerCall]_vars PROVE BInv'
    OBVIOUS
<1>0. TypeOK /\ TypeOK'
    BY TypeStep, Zenon DEF BInv
<1>1. ASSUME UNCHANGED <<reserved, observation>> PROVE BInv'
    BY <1>0, <1>1, Zenon DEF BInv, LimitsBounded, ReservedBounded
<1>2. CASE \/ UNCHANGED vars
           \/ Tick
           \/ \E k \in Keys, f \in Reportable : ObserveExpired(k, f)
           \/ \E k \in Keys : Snapshot(k)
           \/ Purge
    BY <1>1, <1>2, Zenon DEF vars, Tick, ObserveExpired, Snapshot, Purge
<1>3. ASSUME NEW k \in Keys, NEW f \in Reportable, Observe(k, f) PROVE BInv'
  <2>1. observation' = [observation EXCEPT ![k][Slot(Purged, k)] = Normalise(f)]
      BY <1>3, Zenon DEF Observe
  <2>2. Normalise(f).limit <= MaxLimit
      BY <1>0, NormaliseType, Zenon
  <2>3. LimitsBounded'
      BY <1>0, <2>1, <2>2, Zenon DEF BInv, LimitsBounded, TypeOK
  <2> QED BY <1>0, <1>3, <2>3, Zenon DEF Observe, BInv, ReservedBounded
<1>4. ASSUME NEW amounts \in [Keys -> Costs \cup {0}], ReserveAll(amounts)
      PROVE  BInv'
  <2>1. ASSUME NEW k \in Keys, NEW g \in Gens
        PROVE  reserved'[k][g] <= MaxLimit
    <3>1. reserved'[k][g] = IF g = Purged[k] THEN reserved[k][g] + amounts[k]
                                             ELSE reserved[k][g]
        BY <1>4, Zenon DEF ReserveAll
    <3>2. /\ amounts[k] \in Nat /\ amounts[k] <= MaxLimit
          /\ reserved[k][g] \in Nat /\ reserved[k][g] <= MaxLimit
        BY <1>0, AmountIsNat, Zenon DEF TypeOK, BInv, ReservedBounded
    <3>3. CASE g = Purged[k] /\ amounts[k] > 0
      <4>1. FitsOrProbes(Purged, k, amounts[k]) /\ Purged[k] # Nil
          BY <1>4, <3>3 DEF ReserveAll, Gens, Nil
      <4>2. \/ observation[k][g].remaining - reserved[k][g] >= amounts[k]
            \/ reserved[k][g] = 0
          BY <3>3, <4>1, Zenon DEF FitsOrProbes
      <4>3. /\ observation[k][g].remaining \in Nat
            /\ observation[k][g].remaining <= MaxLimit
        <5>1. observation[k][g] \in QuotaObservation
            BY <1>0 DEF TypeOK
        <5>2. /\ observation[k][g].remaining <= observation[k][g].limit
              /\ observation[k][g].limit <= MaxLimit
            BY <1>0, Zenon DEF TypeOK, BInv, LimitsBounded
        <5> QED BY <5>1, <5>2, BoundsAssumption DEF QuotaObservation
      <4> QED BY <3>1, <3>2, <3>3, <4>2, <4>3, BoundsAssumption
    <3>4. CASE ~(g = Purged[k] /\ amounts[k] > 0)
        BY <3>1, <3>2, <3>4
    <3> QED BY <3>3, <3>4, Zenon
  <2>2. LimitsBounded'
      BY <1>4, Zenon DEF ReserveAll, BInv, LimitsBounded
  <2> QED BY <1>0, <2>1, <2>2, Zenon DEF BInv, ReservedBounded
<1>5. ASSUME NEW t \in TicketIDs, reserved' = Unreserved(t)
      PROVE  ReservedBounded'
  <2>1. ASSUME NEW k \in Keys, NEW g \in Gens
        PROVE  reserved'[k][g] <= MaxLimit
    <3>1. reserved'[k][g] = IF held[t][k] = g
                            THEN reserved[k][g] - Min(reserved[k][g], cost[t][k])
                            ELSE reserved[k][g]
        BY <1>5, Zenon DEF Unreserved
    <3>2. /\ cost[t][k] \in Nat
          /\ reserved[k][g] \in Nat /\ reserved[k][g] <= MaxLimit
        BY <1>0, AmountIsNat DEF TypeOK, BInv, ReservedBounded
    <3> QED BY <3>1, <3>2, BoundsAssumption DEF Min
  <2> QED BY <2>1, Zenon DEF ReservedBounded
<1>6. ASSUME NEW t \in TicketIDs, Release(t) PROVE BInv'
    BY <1>0, <1>5, <1>6, Zenon DEF Release, BInv, LimitsBounded
<1>7. ASSUME NEW t \in TicketIDs, NEW s \in [Keys -> AnySettlement], Reconcile(t, s)
      PROVE  BInv'
  <2>1. ReservedBounded'
      BY <1>5, <1>7, Zenon DEF Reconcile
  <2>2. ASSUME NEW k \in Keys, NEW g \in Gens
        PROVE  observation'[k][g].limit <= MaxLimit
    <3> DEFINE o == observation[k][g]
               c == IF s[k].kind = "actual" THEN s[k].actual ELSE cost[t][k]
               in == /\ Holds(t, k) /\ s[k].kind = "observed"
                     /\ ~Expired(s[k].fact) /\ g = Slot(Purged, k)
               ch == Holds(t, k) /\ s[k].kind # "observed" /\ g = held[t][k]
    <3>1. observation'[k][g] =
             IF in THEN Normalise(s[k].fact)
             ELSE IF ch THEN [o EXCEPT !.remaining = @ - Min(@, c)] ELSE o
        BY <1>7, Zenon DEF Reconcile, Paying
    <3>2. s[k] \in AnySettlement /\ cost[t][k] \in Nat
        BY <1>0, AmountIsNat DEF TypeOK
    <3>3. /\ s[k].kind = "observed" => s[k].fact \in Reportable
          /\ s[k].kind = "actual" => s[k].actual \in Nat
        BY <3>2, Zenon DEF AnySettlement
    <3>4. o \in QuotaObservation /\ o.limit <= MaxLimit
        BY <1>0, Zenon DEF TypeOK, BInv, LimitsBounded
    <3>5. CASE in
      <4>1. Normalise(s[k].fact).limit <= MaxLimit
          BY <1>0, <3>3, <3>5, NormaliseType, Zenon
      <4> QED BY <3>1, <3>5, <4>1, Zenon
    <3>6. CASE ~in
      <4>1. observation'[k][g] = [o EXCEPT !.remaining = @ - Min(@, c)]
            \/ observation'[k][g] = o
          BY <3>1, <3>6, Zenon
      <4> HIDE DEF o, c
      <4> QED BY <3>4, <4>1, Zenon DEF QuotaObservation
    <3> QED BY <3>5, <3>6, Zenon
  <2> QED BY <1>0, <2>1, <2>2, Zenon DEF BInv, LimitsBounded
<1> QED
    BY <1>2, <1>3, <1>4, <1>6, <1>7, Zenon DEF LedgerCall

(* Reservations never exceed the larger of one limit and one cost, so the  *)
(* int64 addition in ReserveAll cannot overflow, bootstrap probe included. *)
THEOREM ReservedNeverOverflows == Spec => []ReservedBounded
<1>1. BInv => ReservedBounded
    BY Zenon DEF BInv
<1> QED BY <1>1, BoundedInit, BoundedStep, NextIsCall, PTL DEF Spec

----------------------------------------------------------------------------
(* A ticket that points to an object was issued with a cost on it, and the *)
(* object of a reconciled ticket has spent its bootstrap probe.            *)
PointersKnown ==
    \A t \in TicketIDs, k \in Keys : held[t][k] # Nil =>
        /\ ticket[t] # "unissued"
        /\ cost[t][k] > 0
        /\ ticket[t] = "reconciled" => probeSettled[k][held[t][k]]

PInv == AInv /\ PointersKnown

(* Every ledger method keeps the pointers of the tickets to objects that   *)
(* were installed before, and marks the object of a settled ticket.        *)
LEMMA PointersStep == PInv /\ [LedgerCall]_vars => PInv'
<1> SUFFICES ASSUME PInv, [LedgerCall]_vars PROVE PInv'
    OBVIOUS
<1>0. TypeOK /\ TypeOK' /\ AInv' /\ PointersKnown
    BY AccountingStep, Zenon DEF PInv, AInv
<1>1. ASSUME UNCHANGED <<probeSettled, ticket, cost, held>> PROVE PInv'
    BY <1>0, <1>1, Zenon DEF PInv, PointersKnown
<1>2. CASE \/ UNCHANGED vars
           \/ Tick
           \/ \E k \in Keys, f \in Reportable : Observe(k, f) \/ ObserveExpired(k, f)
           \/ \E k \in Keys : Snapshot(k)
           \/ Purge
    BY <1>1, <1>2, Zenon DEF vars, Tick, Observe, ObserveExpired, Snapshot, Purge
<1>3. ASSUME NEW amounts \in [Keys -> Costs \cup {0}], ReserveAll(amounts)
      PROVE  PInv'
  <2>1. ASSUME NEW t \in TicketIDs, NEW k \in Keys, held'[t][k] # Nil
        PROVE  /\ ticket'[t] # "unissued"
               /\ cost'[t][k] > 0
               /\ ticket'[t] = "reconciled" => probeSettled'[k][held'[t][k]]
    <3>1. CASE t = nextTicketID + 1
      <4>1. /\ ticket'[t] = "live"
            /\ cost'[t][k] = amounts[k]
            /\ held'[t][k] = IF amounts[k] > 0 THEN Purged[k] ELSE Nil
          BY <1>0, <1>3, <3>1, Zenon DEF ReserveAll, TypeOK
      <4> QED BY <2>1, <4>1, Zenon
    <3>2. CASE t # nextTicketID + 1
      <4>1. /\ ticket'[t] = ticket[t] /\ cost'[t] = cost[t]
            /\ held'[t] = held[t] /\ probeSettled' = probeSettled
          BY <1>0, <1>3, <3>2, Zenon DEF ReserveAll, TypeOK
      <4> QED BY <1>0, <2>1, <4>1, Zenon DEF PointersKnown
    <3> QED BY <3>1, <3>2, Zenon
  <2> QED BY <1>0, <2>1, Zenon DEF PInv, PointersKnown
<1>4. ASSUME NEW t \in TicketIDs, Release(t) PROVE PInv'
    BY <1>0, <1>4, Zenon DEF Release, PInv, PointersKnown, TypeOK
<1>5. ASSUME NEW t \in TicketIDs, NEW s \in [Keys -> AnySettlement], Reconcile(t, s)
      PROVE  PInv'
  <2>1. /\ ticket' = [ticket EXCEPT ![t] = "reconciled"]
        /\ probeSettled' = [k \in Keys |-> [g \in Gens |->
                              probeSettled[k][g] \/ held[t][k] = g]]
        /\ UNCHANGED <<cost, held>>
      BY <1>5, Zenon DEF Reconcile
  <2>2. ASSUME NEW u \in TicketIDs, NEW k \in Keys, held[u][k] # Nil
        PROVE  /\ ticket'[u] # "unissued"
               /\ cost[u][k] > 0
               /\ ticket'[u] = "reconciled" => probeSettled'[k][held[u][k]]
    <3>1. held[u][k] \in Gens
        BY <1>0, <2>2 DEF TypeOK, Gens, Nil
    <3>2. probeSettled'[k][held[u][k]]
             <=> (probeSettled[k][held[u][k]] \/ held[t][k] = held[u][k])
        BY <2>1, <3>1, Zenon
    <3>3. CASE u = t
        BY <1>0, <2>1, <2>2, <3>2, <3>3, Zenon DEF TypeOK, PointersKnown
    <3>4. CASE u # t
      <4>1. ticket'[u] = ticket[u]
          BY <1>0, <2>1, <3>4, Zenon DEF TypeOK
      <4> QED BY <1>0, <2>2, <3>2, <4>1, Zenon DEF PointersKnown
    <3> QED BY <3>3, <3>4, Zenon
  <2> QED BY <1>0, <2>1, <2>2, Zenon DEF PInv, PointersKnown
<1> QED
    BY <1>2, <1>3, <1>4, <1>5, Zenon DEF LedgerCall

(* Only ReserveAll raises a reserved counter. *)
LEMMA OnlyReserveAllReserves ==
    ASSUME TypeOK, [LedgerCall]_vars, NEW k \in Keys, NEW g \in Gens,
           reserved'[k][g] > reserved[k][g]
    PROVE  \E amounts \in [Keys -> Costs \cup {0}] : ReserveAll(amounts)
<1>0. reserved[k][g] \in Nat
    BY Zenon DEF TypeOK
<1>1. reserved' # reserved
    BY <1>0
<1>2. ASSUME NEW t \in TicketIDs, reserved' = Unreserved(t) PROVE FALSE
  <2>1. reserved'[k][g] = IF held[t][k] = g
                          THEN reserved[k][g] - Min(reserved[k][g], cost[t][k])
                          ELSE reserved[k][g]
      BY <1>2, Zenon DEF Unreserved
  <2>2. cost[t][k] \in Nat
      BY AmountIsNat, Zenon DEF TypeOK
  <2> QED BY <1>0, <2>1, <2>2 DEF Min
<1> QED
    BY <1>1, <1>2, Zenon DEF LedgerCall, vars, Tick, Observe, ObserveExpired, Snapshot,
                      Purge, Release, Reconcile

(* A reservation beyond the balance is the bootstrap probe: nobody else    *)
(* holds the object and no ticket on it was settled.                       *)
LEMMA OverbookedByProbe ==
    ASSUME PInv, [LedgerCall]_vars, NEW k \in Keys, NEW g \in Gens, OverbookedBy(k, g)
    PROVE  /\ observation[k][g].confidence = "estimated"
           /\ \A t \in TicketIDs : held[t][k] = g => ticket[t] = "released"
<1>0. TypeOK /\ Accounting /\ PointersKnown
    BY Zenon DEF PInv, AInv
<1>1. PICK amounts \in [Keys -> Costs \cup {0}] : ReserveAll(amounts)
    BY <1>0, OnlyReserveAllReserves, Zenon DEF OverbookedBy
<1>2. /\ reserved'[k][g] = IF g = Purged[k] THEN reserved[k][g] + amounts[k]
                                            ELSE reserved[k][g]
      /\ observation' = observation
    BY <1>1, Zenon DEF ReserveAll
<1>3. reserved[k][g] \in Nat /\ amounts[k] \in Nat
    BY <1>0, AmountIsNat, Zenon DEF TypeOK
<1>4. g = Purged[k] /\ amounts[k] > 0
    BY <1>2, <1>3 DEF OverbookedBy
<1>5. FitsOrProbes(Purged, k, amounts[k]) /\ Purged[k] # Nil
    BY <1>1, <1>4 DEF ReserveAll, Gens, Nil
<1>6. observation[k][g].remaining \in Nat
    BY <1>0 DEF TypeOK, QuotaObservation
<1>7. ~(observation[k][g].remaining - reserved[k][g] >= amounts[k])
    BY <1>2, <1>3, <1>4, <1>6 DEF OverbookedBy
<1>8. /\ observation[k][g].confidence = "estimated"
      /\ reserved[k][g] = 0
      /\ ~probeSettled[k][g]
    BY <1>4, <1>5, <1>7, Zenon DEF FitsOrProbes
<1>9. ASSUME NEW t \in TicketIDs, held[t][k] = g PROVE ticket[t] = "released"
  <2>1. ticket[t] # "unissued" /\ cost[t][k] > 0
      BY <1>0, <1>4, <1>5, <1>9, Zenon DEF PointersKnown
  <2>2. ticket[t] # "reconciled"
      BY <1>0, <1>4, <1>5, <1>8, <1>9 DEF PointersKnown
  <2>3. ticket[t] # "live"
    <3>1. Contribution(t, k, g) <= 0
        BY <1>0, <1>8, HeldIsReserved, Zenon
    <3>2. cost[t][k] \in Nat
        BY <1>0, AmountIsNat, Zenon DEF TypeOK
    <3> QED BY <1>9, <2>1, <3>1, <3>2 DEF Contribution
  <2> QED BY <1>0, <2>1, <2>2, <2>3, Zenon DEF TypeOK
<1> QED BY <1>8, <1>9, Zenon

(* The pointers of a new ledger are all nil. *)
LEMMA PointersInit == Init => PInv
BY AccountingInit DEF Init, PInv, PointersKnown

(* The bootstrap carve-out is a single probe: whatever the interleaving,   *)
(* an object is overbooked only while nobody else holds it and before any  *)
(* ticket on it was settled.                                               *)
THEOREM SingleBootstrapProbeCorrect == Spec => SingleBootstrapProbe
<1>1. PInv /\ [Next]_vars =>
         [\A k \in Keys, g \in Gens : OverbookedBy(k, g) =>
             /\ observation[k][g].confidence = "estimated"
             /\ \A t \in TicketIDs : held[t][k] = g => ticket[t] = "released"]_vars
    BY OverbookedByProbe, NextIsCall, Zenon
<1> QED BY <1>1, PointersInit, PointersStep, NextIsCall, PTL DEF Spec, SingleBootstrapProbe

(* A settlement that arrives after a reset is charged to the unlinked      *)
(* object its ticket points to, never to the object of the new window.     *)
THEOREM ChargedOnlyByItsTicketsCorrect == Spec => ChargedOnlyByItsTickets
<1> DEFINE Accounted(k, g) ==
              \/ \E f \in Facts : observation'[k][g] = Normalise(f)
              \/ \E t \in TicketIDs : /\ held[t][k] = g
                                      /\ ticket[t] = "live"
                                      /\ ticket'[t] = "reconciled"
<1>1. ASSUME TypeOK, [Next]_vars, NEW k \in Keys, NEW g \in Gens,
             observation'[k][g].remaining < observation[k][g].remaining
      PROVE  Accounted(k, g)
  <2>1. observation'[k][g] # observation[k][g]
    <3>1. observation[k][g].remaining \in Nat
        BY <1>1 DEF TypeOK, QuotaObservation
    <3> QED BY <1>1, <3>1
  <2>2. CASE UNCHANGED observation
      BY <2>1, <2>2, Zenon
  <2>3. ASSUME NEW kk \in Keys, NEW f \in Facts, Observe(kk, f)
        PROVE  Accounted(k, g)
    <3>1. observation' =
             [observation EXCEPT ![kk][Slot(Purged, kk)] = Normalise(f)]
        BY <2>3, Zenon DEF Observe
    <3>2. observation'[k][g] = Normalise(f)
        BY <1>1, <2>1, <3>1, Zenon DEF TypeOK
    <3> QED BY <3>2, Zenon
  <2>4. ASSUME NEW t \in TicketIDs, NEW s \in [Keys -> Settlements], Reconcile(t, s)
        PROVE  Accounted(k, g)
    <3> DEFINE in == /\ Holds(t, k) /\ s[k].kind = "observed"
                     /\ ~Expired(s[k].fact) /\ g = Slot(Purged, k)
    <3>1. CASE in
      <4>1. observation'[k][g] = Normalise(s[k].fact)
          BY <2>4, <3>1, Zenon DEF Reconcile, Paying
      <4>2. s[k].fact \in Facts
        <5>1. s[k] \in Settlements
            OBVIOUS
        <5> QED BY <3>1, <5>1, Zenon DEF Settlements
      <4> QED BY <4>1, <4>2, Zenon
    <3>2. CASE ~in
      <4>1. held[t][k] = g
          BY <2>1, <2>4, <3>2, Zenon DEF Reconcile, Paying
      <4>2. ticket[t] = "live" /\ ticket'[t] = "reconciled"
          BY <1>1, <2>4, Zenon DEF Reconcile, Paying, TypeOK
      <4> QED BY <4>1, <4>2, Zenon
    <3> QED BY <3>1, <3>2, Zenon
  <2> HIDE DEF Accounted
  <2> QED
      BY <1>1, <2>2, <2>3, <2>4, Zenon
         DEF Next, vars, Tick, ObserveExpired, Snapshot, ReserveAll,
             ReserveRefused, Release, ConsumeRefused
<1>2. TypeOK /\ [Next]_vars =>
         [\A k \in Keys, g \in Gens :
             observation'[k][g].remaining < observation[k][g].remaining =>
                \/ \E f \in Facts : observation'[k][g] = Normalise(f)
                \/ \E t \in TicketIDs : /\ held[t][k] = g
                                        /\ ticket[t] = "live"
                                        /\ ticket'[t] = "reconciled"]_vars
    BY <1>1, Zenon
<1> QED BY <1>2, TypeCorrect, PTL DEF Spec, ChargedOnlyByItsTickets

----------------------------------------------------------------------------
(* Nothing was ever reserved or settled on an object before it exists. *)
Unused ==
    \A k \in Keys :
        /\ buckets[k] <= gen[k]
        /\ \A t \in TicketIDs : held[t][k] <= gen[k]
        /\ \A g \in Gens : g > gen[k] => reserved[k][g] = 0 /\ ~probeSettled[k][g]

(* Every ledger method keeps the objects that do not exist yet blank. *)
LEMMA UnusedStep == TypeOK /\ Unused /\ [LedgerCall]_vars => Unused'
<1> SUFFICES ASSUME TypeOK, Unused, [LedgerCall]_vars PROVE Unused'
    OBVIOUS
<1>0. /\ Purged \in [Keys -> 0 .. MaxGen]
      /\ \A k \in Keys : /\ gen[k] \in Nat /\ buckets[k] \in Nat /\ Purged[k] \in Nat
                         /\ Purged[k] <= gen[k] /\ 0 <= gen[k]
  <2>1. /\ Purged \in [Keys -> 0 .. MaxGen]
        /\ \A k \in Keys : Purged[k] = Nil \/ Purged[k] = buckets[k]
      BY PurgedType, Zenon
  <2>2. \A k \in Keys : gen[k] \in Nat /\ buckets[k] \in Nat /\ Purged[k] \in Nat
      BY <2>1, BoundsAssumption DEF TypeOK
  <2> QED BY <2>1, <2>2 DEF Unused, Nil
<1>1. ASSUME UNCHANGED <<held, gen, reserved, probeSettled>>,
             \A k \in Keys : buckets'[k] \in {buckets[k], Purged[k], Nil}
      PROVE  Unused'
  <2>1. \A k \in Keys : buckets'[k] <= gen[k]
      BY <1>0, <1>1, Zenon DEF Unused, Nil
  <2> QED BY <1>1, <2>1, Zenon DEF Unused
<1>2. CASE \/ UNCHANGED vars \/ Tick \/ Purge
           \/ \E k \in Keys : Snapshot(k)
           \/ \E k \in Keys, f \in Reportable : ObserveExpired(k, f)
  <2>1. UNCHANGED <<held, gen, reserved, probeSettled>>
      BY <1>2, Zenon DEF vars, Tick, Purge, Snapshot, ObserveExpired
  <2>2. \A k \in Keys : buckets'[k] \in {buckets[k], Purged[k], Nil}
      BY <1>0, <1>2, Zenon DEF vars, Tick, Purge, Snapshot, ObserveExpired
  <2> QED BY <1>1, <2>1, <2>2, Zenon
<1>3. ASSUME NEW j \in Keys, NEW f \in Reportable, Observe(j, f) PROVE Unused'
  <2> DEFINE g == Slot(Purged, j)
  <2>1. /\ buckets' = [Purged EXCEPT ![j] = g]
        /\ gen' = [gen EXCEPT ![j] = IF g > @ THEN g ELSE @]
        /\ UNCHANGED <<held, reserved, probeSettled>>
      BY <1>3, Zenon DEF Observe
  <2>2. g \in Nat
      BY <1>0 DEF Slot
  <2> HIDE DEF g
  <2>3. /\ gen \in [Keys -> 0 .. MaxGen]
        /\ held \in [TicketIDs -> [Keys -> 0 .. MaxGen]]
      BY Zenon DEF TypeOK
  <2>4. ASSUME NEW k \in Keys
        PROVE  gen'[k] \in Nat /\ gen[k] <= gen'[k] /\ buckets'[k] <= gen'[k]
      BY <1>0, <2>1, <2>2, <2>3
  <2>5. ASSUME NEW k \in Keys, NEW t \in TicketIDs PROVE held'[t][k] <= gen'[k]
    <3>1. held[t][k] \in Nat /\ gen[k] \in Nat
        BY <2>3, BoundsAssumption
    <3>2. held'[t][k] = held[t][k] /\ held[t][k] <= gen[k]
        BY <2>1, Zenon DEF Unused
    <3>3. gen'[k] \in Nat /\ gen[k] <= gen'[k]
        BY <2>4, Zenon
    <3> QED BY <3>1, <3>2, <3>3
  <2>6. ASSUME NEW k \in Keys, NEW h \in Gens, h > gen'[k]
        PROVE  reserved'[k][h] = 0 /\ ~probeSettled'[k][h]
    <3>1. h > gen[k]
        BY <1>0, <2>4, <2>6 DEF Gens
    <3> QED BY <2>1, <3>1, Zenon DEF Unused
  <2> QED BY <2>4, <2>5, <2>6, Zenon DEF Unused
<1>4. ASSUME NEW amounts \in [Keys -> Costs \cup {0}], ReserveAll(amounts)
      PROVE  Unused'
  <2> DEFINE u == nextTicketID + 1
  <2>1. /\ buckets' = Purged /\ UNCHANGED <<gen, probeSettled>>
        /\ held' = [held EXCEPT ![u] =
                       [k \in Keys |-> IF amounts[k] > 0 THEN Purged[k] ELSE Nil]]
        /\ \A k \in Keys, g \in Gens :
              reserved'[k][g] = IF g = Purged[k] THEN reserved[k][g] + amounts[k]
                                                 ELSE reserved[k][g]
      BY <1>4, Zenon DEF ReserveAll
  <2> HIDE DEF u
  <2>2. ASSUME NEW k \in Keys, NEW t \in TicketIDs PROVE held'[t][k] <= gen[k]
    <3>0. held \in [TicketIDs -> [Keys -> 0 .. MaxGen]]
        BY Zenon DEF TypeOK
    <3>1. held'[t][k] \in {held[t][k], Purged[k], Nil}
        BY <2>1, <3>0, Zenon
    <3>2. held[t][k] <= gen[k]
        BY Zenon DEF Unused
    <3> QED BY <1>0, <3>1, <3>2, Zenon DEF Nil
  <2>3. ASSUME NEW k \in Keys, NEW g \in Gens, g > gen[k]
        PROVE  reserved'[k][g] = 0
    <3>1. g # Purged[k]
        BY <1>0, <2>3 DEF Gens
    <3>2. reserved'[k][g] = reserved[k][g]
        BY <2>1, <3>1, Zenon
    <3> QED BY <2>3, <3>2, Zenon DEF Unused
  <2> QED BY <1>0, <2>1, <2>2, <2>3, Zenon DEF Unused
<1>5. ASSUME NEW t \in TicketIDs, reserved' = Unreserved(t)
      PROVE  \A k \in Keys, g \in Gens : g > gen[k] => reserved'[k][g] = reserved[k][g]
  <2>1. ASSUME NEW k \in Keys, NEW g \in Gens, g > gen[k]
        PROVE  reserved'[k][g] = reserved[k][g]
    <3>1. held[t][k] # g
        BY <1>0, <2>1, BoundsAssumption DEF Unused, TypeOK, Gens
    <3> QED BY <1>5, <3>1, Zenon DEF Unreserved
  <2> QED BY <2>1, Zenon
<1>6. ASSUME NEW t \in TicketIDs, Release(t) PROVE Unused'
  <2>1. buckets' = Purged /\ reserved' = Unreserved(t) /\ UNCHANGED <<gen, held, probeSettled>>
      BY <1>6, Zenon DEF Release
  <2> QED BY <1>0, <1>5, <2>1, Zenon DEF Unused
<1>7. ASSUME NEW t \in TicketIDs, NEW s \in [Keys -> AnySettlement], Reconcile(t, s)
      PROVE  Unused'
  <2>1. /\ reserved' = Unreserved(t) /\ UNCHANGED held
        /\ \A k \in Keys, g \in Gens :
              probeSettled'[k][g] <=> (probeSettled[k][g] \/ held[t][k] = g)
      BY <1>7, Zenon DEF Reconcile
  <2>2. ASSUME NEW k \in Keys
        PROVE  /\ gen'[k] \in Nat /\ gen[k] <= gen'[k] /\ buckets'[k] <= gen'[k]
    <3>1. \/ buckets'[k] = Slot(Purged, k) /\ Purged[k] = Nil /\ gen'[k] = gen[k] + 1
          \/ buckets'[k] = Slot(Purged, k) /\ Purged[k] # Nil /\ gen'[k] = gen[k]
          \/ buckets'[k] \in {Nil, Purged[k]} /\ gen'[k] = gen[k]
        BY <1>7, Zenon DEF Reconcile
    <3> QED BY <1>0, <3>1 DEF Slot, Nil
  <2>3. ASSUME NEW k \in Keys, NEW u \in TicketIDs PROVE held'[u][k] <= gen'[k]
    <3>1. held[u][k] \in Nat /\ gen[k] \in Nat
        BY BoundsAssumption DEF TypeOK
    <3>2. held'[u][k] = held[u][k] /\ held[u][k] <= gen[k]
        BY <2>1, Zenon DEF Unused
    <3>3. gen'[k] \in Nat /\ gen[k] <= gen'[k]
        BY <2>2, Zenon
    <3> QED BY <3>1, <3>2, <3>3
  <2>4. ASSUME NEW k \in Keys, NEW g \in Gens, g > gen'[k]
        PROVE  reserved'[k][g] = 0 /\ ~probeSettled'[k][g]
    <3>1. g > gen[k]
        BY <1>0, <2>2, <2>4 DEF Gens
    <3>2. held[t][k] # g
        BY <1>0, <3>1, BoundsAssumption DEF Unused, TypeOK, Gens
    <3> QED BY <1>5, <2>1, <3>1, <3>2 DEF Unused
  <2> QED BY <2>2, <2>3, <2>4, Zenon DEF Unused
<1> QED BY <1>2, <1>3, <1>4, <1>6, <1>7, Zenon DEF LedgerCall
=============================================================================
