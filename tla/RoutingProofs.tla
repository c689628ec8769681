---------------------------- MODULE RoutingProofs ---------------------------
(***************************************************************************)
(* What module Routing's runs check on a small instance, for every policy, *)
(* every number of requests, sessions and reloads, and every limit.        *)
(***************************************************************************)
EXTENDS Routing, FiniteSetTheorems, TLAPS

----------------------------------------------------------------------------
(* The reload.  Parts done when it has come to a pc. *)
Parts == {"policy", "targets", "reasoning", "timeouts", "windows", "caps"}

Done == [idle |-> {}, policy |-> {}, targets |-> {"policy"},
         reasoning |-> {"policy", "targets"},
         timeouts |-> {"policy", "targets", "reasoning"},
         windows |-> {"policy", "targets", "reasoning", "timeouts"},
         caps |-> {"policy", "targets", "reasoning", "timeouts", "windows"}]

Policy == [policy : Versions, targets : Versions \cup {Nil},
           reasoning : Versions \cup {Nil}, timeouts : Versions \cup {Nil},
           windows : Versions, caps : Versions]

ReloadShapes ==
    /\ disk \in Versions
    /\ live \in Policy
    /\ reload \in [Reloaders -> [pc : DOMAIN Done, v : Versions \cup {Nil}]]
    /\ mixed \in BOOLEAN
    /\ \A k \in Reloaders : Reloading(k) => reload[k].v \in Versions

(* While nothing interferes, one reload runs at most, what it has read is  *)
(* what is on disk, and what it has set so far comes from there.           *)
Alone ==
    /\ \A j, k \in Reloaders : Reloading(j) /\ Reloading(k) => j = k
    /\ \A k \in Reloaders : Reloading(k) => reload[k].v = disk
    /\ \A k \in Reloaders : \A f \in Done[reload[k].pc] : live[f] = disk
    /\ (\A k \in Reloaders : reload[k].pc \in {"idle", "policy"}) => Whole

ReloadInv == ReloadShapes /\ (~mixed => Alone)

(* The policy that is compiled in is whole. *)
LEMMA ReloadInit == Init => ReloadInv
  <1> SUFFICES ASSUME Init PROVE ReloadInv
    OBVIOUS
  <1>1. 1 \in Versions
    BY RoutingAssumption
  <1>2. ReloadShapes
    BY <1>1, Zenon DEF Init, ReloadShapes, Policy, Resting, Reloading, Done, Nil
  <1>3. Alone
    BY DEF Init, Alone, Resting, Reloading, Done, Whole
  <1> QED
    BY <1>2, <1>3 DEF ReloadInv

(* A step of a request, which reads the configuration and never writes it. *)
Handles(r) ==
    \/ Arrive(r) \/ Gate(r) \/ ReadTargets(r) \/ MakePlan(r) \/ FilterCapable(r)
    \/ Rescue(r) \/ Fit(r) \/ Order(r) \/ Rank(r) \/ Reserve(r)
    \/ Build(r) \/ Succeed(r) \/ Fail(r) \/ Finish(r)

(* No handler of a request touches the policy or the published list. *)
LEMMA HandlersOnlyRead ==
    ASSUME NEW r \in Requests, Handles(r)
    PROVE  UNCHANGED <<disk, live, auto, reload, mixed>>
  <1>1. UNCHANGED config
    BY Zenon
    DEF Handles, Arrive, Gate, ReadTargets, MakePlan, FilterCapable, Rescue, Fit, Order, Rank,
        Reserve, Build, Succeed, Fail, Finish
  <1> QED
    BY <1>1 DEF config

(* An edit of the file, and each step of ReloadModelPolicy, leaves a       *)
(* reload that runs alone on its way to a whole policy.                    *)
LEMMA ReloadStep == ReloadInv /\ [Next]_vars => ReloadInv'
  <1> SUFFICES ASSUME ReloadInv, [Next]_vars PROVE ReloadInv'
    OBVIOUS
  <1> USE DEF ReloadInv
  <1>1. CASE UNCHANGED <<disk, live, reload, mixed>>
    BY <1>1 DEF ReloadShapes, Alone, Reloading, Whole
  <1>2. CASE Edit
    <2>1. disk' \in Versions
      BY <1>2, RoutingAssumption DEF Edit, ReloadShapes
    <2>2. ReloadShapes'
      BY <1>2, <2>1 DEF Edit, ReloadShapes, Reloading
    <2>3. ~mixed' => ~mixed /\ \A k \in Reloaders : reload[k].pc = "idle"
      BY <1>2, Zenon DEF Edit, Reloading
    <2>4. Done["idle"] = {}
      BY DEF Done
    <2>5. ~mixed' => Alone'
      BY <1>2, <2>3, <2>4 DEF Edit, Alone, Reloading, Whole
    <2> QED
      BY <2>2, <2>5
  <1>3. ASSUME NEW k \in Reloaders, BeginReload(k) PROVE ReloadInv'
    <2>1. ReloadShapes'
      BY <1>3 DEF BeginReload, ReloadShapes, Reloading, Done
    <2>2. ~mixed' => ~mixed /\ \A j \in Reloaders : reload[j].pc = "idle"
      BY <1>3, Zenon DEF BeginReload, Reloading
    <2>3. \A j \in Reloaders : reload'[j] =
             IF j = k THEN [pc |-> "policy", v |-> disk] ELSE reload[j]
      BY <1>3 DEF BeginReload, ReloadShapes
    <2>4. ~mixed' => Alone'
      BY <1>3, <2>2, <2>3 DEF BeginReload, Alone, Reloading, Done, Whole
    <2> QED
      BY <2>1, <2>4
  <1>4. ASSUME NEW k \in Reloaders, RefuseReload(k) PROVE ReloadInv'
    <2>1. ReloadShapes'
      BY <1>4 DEF RefuseReload, ReloadShapes, Reloading, Done, Resting
    <2>2. \A j \in Reloaders : reload'[j] = IF j = k THEN Resting ELSE reload[j]
      BY <1>4 DEF RefuseReload, ReloadShapes
    <2>3. ~mixed => Alone'
      BY <1>4, <2>2 DEF RefuseReload, Alone, Reloading, Done, Whole, Resting, ReloadShapes
    <2> QED
      BY <1>4, <2>1, <2>3 DEF RefuseReload
  <1>5. ASSUME NEW k \in Reloaders, SetPolicy(k) PROVE ReloadInv'
    <2>1. reload[k].v \in Versions
      BY <1>5 DEF SetPolicy, ReloadShapes, Reloading
    <2>2. live' \in Policy /\ live'["policy"] = reload[k].v
      BY <1>5, <2>1, Zenon DEF SetPolicy, Swapped, ReloadShapes, Policy
    <2>3. \A j \in Reloaders : reload'[j] =
             IF j = k THEN [pc |-> "targets", v |-> reload[k].v] ELSE reload[j]
      BY <1>5 DEF SetPolicy, ReloadShapes
    <2>4. reload' \in [Reloaders -> [pc : DOMAIN Done, v : Versions \cup {Nil}]]
      BY <1>5 DEF SetPolicy, ReloadShapes, Done
    <2>5. ReloadShapes'
      BY <1>5, <2>1, <2>2, <2>3, <2>4 DEF SetPolicy, ReloadShapes, Reloading
    <2>6. ASSUME ~mixed PROVE Alone'
      <3>1. \A j \in Reloaders : j # k => reload[j].pc = "idle"
        BY <1>5, <2>6 DEF SetPolicy, Alone, Reloading
      <3>2. reload[k].v = disk
        BY <1>5, <2>6 DEF SetPolicy, Alone, Reloading
      <3> QED
        BY <1>5, <2>2, <2>3, <3>1, <3>2 DEF SetPolicy, Alone, Reloading, Done
    <2> QED
      BY <1>5, <2>5, <2>6 DEF SetPolicy
  <1>6. ASSUME NEW k \in Reloaders, SetPart(k) PROVE ReloadInv'
    <2> DEFINE f == reload[k].pc
               next == IF f = "caps" THEN Resting ELSE [pc |-> Part[f], v |-> reload[k].v]
    <2>1. f \in DOMAIN Part
      BY <1>6 DEF SetPart
    <2>2. live' \in Policy /\ \A g \in Parts : live'[g] = IF g = f THEN disk ELSE live[g]
      BY <1>6, <2>1 DEF SetPart, Part, Parts, Loaded, ReloadShapes, Policy
    <2>3. \A j \in Reloaders : reload'[j] = IF j = k THEN next ELSE reload[j]
      BY <1>6, <2>1 DEF SetPart, ReloadShapes
    <2>4. next \in [pc : DOMAIN Done, v : Versions \cup {Nil}]
          /\ (next.pc # "idle" => next.v = reload[k].v)
      <3>1. reload[k].v \in Versions \cup {Nil}
        BY DEF ReloadShapes
      <3> HIDE DEF f
      <3>2. CASE f = "caps"
        BY <3>2 DEF Done, Resting
      <3>3. CASE f # "caps"
        <4>1. Part[f] \in DOMAIN Done
          BY <2>1, <3>3 DEF Part, Done
        <4> QED
          BY <3>1, <3>3, <4>1
      <3> QED
        BY <3>2, <3>3
    <2>5. reload' \in [Reloaders -> [pc : DOMAIN Done, v : Versions \cup {Nil}]]
      BY <1>6, <2>1, <2>3, <2>4 DEF SetPart, ReloadShapes
    <2>6. ReloadShapes'
      BY <1>6, <2>1, <2>2, <2>3, <2>4, <2>5 DEF SetPart, ReloadShapes, Reloading, Part
    <2>7. ASSUME ~mixed PROVE Alone'
      <3>1. \A j \in Reloaders : j # k => reload[j].pc = "idle"
        BY <2>1, <2>7 DEF Part, Alone, Reloading
      <3>2. reload[k].v = disk /\ \A g \in Done[f] : live[g] = disk
        BY <2>1, <2>7 DEF Part, Alone, Reloading
      <3>3. \A g \in Done[next.pc] : live'[g] = disk
        BY <2>1, <2>2, <3>2 DEF Part, Done, Parts, Resting
      <3>4. f = "caps" => \A g \in Parts : live'[g] = disk
        BY <2>2, <3>2 DEF Done, Parts
      <3>5. f = "caps" => Whole'
        BY <2>2, <3>4 DEF Whole, Policy, Parts
      <3>6. next.pc \in {"idle", "policy"} => f = "caps"
        BY <2>1 DEF Part
      <3>7. disk' = disk
        BY <1>6 DEF SetPart
      <3> QED
        BY <2>3, <2>4, <3>1, <3>2, <3>3, <3>5, <3>6, <3>7 DEF Alone, Reloading, Done
    <2> QED
      BY <1>6, <2>6, <2>7 DEF SetPart
  <1>7. ASSUME NEW r \in Requests, Handles(r) PROVE ReloadInv'
    BY <1>1, <1>7, HandlersOnlyRead, Zenon
  <1>8. CASE Refresh \/ Tick \/ Elsewhere \/ UNCHANGED vars
    <2>1. UNCHANGED <<disk, live, reload, mixed>>
      BY <1>8 DEF Refresh, Tick, Elsewhere, config, vars
    <2> QED
      BY <1>1, <2>1
  <1> QED
    BY <1>2, <1>3, <1>4, <1>5, <1>6, <1>7, <1>8, Zenon DEF Next, Handles

(* ReloadModelPolicy: however often it runs, for a policy of any size, it  *)
(* leaves no part of an older version behind unless the file is edited or  *)
(* another reload runs meanwhile.                                          *)
THEOREM ReloadsAreWhole == Spec => []ReloadedWhole
  <1>1. ReloadInv => ReloadedWhole
    BY DEF ReloadInv, Alone, ReloadedWhole, Reloading
  <1> QED
    BY <1>1, ReloadInit, ReloadStep, PTL DEF Spec
----------------------------------------------------------------------------
(* Lists.  A strict total order, as a set of pairs. *)
Orders(R, S) ==
    /\ \A x \in S : <<x, x>> \notin R
    /\ \A x, y, z \in S : <<x, y>> \in R /\ <<y, z>> \in R => <<x, z>> \in R
    /\ \A x, y \in S : x = y \/ <<x, y>> \in R \/ <<y, x>> \in R

Below(x, R, S) == {y \in S : <<y, x>> \in R}

(* In a finite set with a strict total order, the number of elements below *)
(* one grows with the order, and each number up to the last is taken:      *)
(* whence the depths of quotaRankAndReserve have no gaps.                  *)
LEMMA RanksAreDense ==
    ASSUME NEW S, IsFiniteSet(S), NEW R, Orders(R, S)
    PROVE  /\ Cardinality(S) \in Nat
           /\ \A x \in S : Cardinality(Below(x, R, S)) \in 0 .. Cardinality(S) - 1
           /\ \A x, y \in S :
                 <<x, y>> \in R => Cardinality(Below(x, R, S)) < Cardinality(Below(y, R, S))
           /\ \A n \in 0 .. Cardinality(S) - 1 : \E x \in S : Cardinality(Below(x, R, S)) = n
  <1> DEFINE N == Cardinality(S)
             rank == [x \in S |-> Cardinality(Below(x, R, S)) + 1]
  <1>1. N \in Nat
    BY FS_CardinalityType
  <1>2. ASSUME NEW x \in S
        PROVE  /\ IsFiniteSet(Below(x, R, S))
               /\ Cardinality(Below(x, R, S)) \in Nat
               /\ Cardinality(Below(x, R, S)) < N
    <2>1. Below(x, R, S) \in SUBSET S /\ x \notin Below(x, R, S)
      BY DEF Below, Orders
    <2>2. /\ IsFiniteSet(Below(x, R, S))
          /\ Cardinality(Below(x, R, S)) <= N
          /\ Cardinality(Below(x, R, S)) # N
      BY <2>1, FS_Subset
    <2>3. Cardinality(Below(x, R, S)) \in Nat
      BY <2>2, FS_CardinalityType
    <2> QED
      BY <1>1, <2>2, <2>3
  <1>3. ASSUME NEW x \in S, NEW y \in S, <<x, y>> \in R
        PROVE  Cardinality(Below(x, R, S)) < Cardinality(Below(y, R, S))
    <2>1. /\ Below(x, R, S) \in SUBSET Below(y, R, S)
          /\ x \in Below(y, R, S)
          /\ x \notin Below(x, R, S)
      BY <1>3 DEF Below, Orders
    <2>2. /\ Cardinality(Below(x, R, S)) <= Cardinality(Below(y, R, S))
          /\ Cardinality(Below(x, R, S)) # Cardinality(Below(y, R, S))
      BY <1>2, <2>1, FS_Subset
    <2> QED
      BY <1>2, <2>2
  <1>4. rank \in [S -> 1 .. N]
    BY <1>1, <1>2
  <1>5. ASSUME NEW x \in S, NEW y \in S, rank[x] = rank[y] PROVE x = y
    <2>1. Cardinality(Below(x, R, S)) = Cardinality(Below(y, R, S))
      BY <1>2, <1>5
    <2>2. Cardinality(Below(x, R, S)) \in Nat
      BY <1>2
    <2>3. <<x, y>> \notin R /\ <<y, x>> \notin R
      BY <1>3, <2>1, <2>2
    <2> QED
      BY <2>3 DEF Orders
  <1>6. rank \in Injection(S, 1 .. N)
    BY <1>4, <1>5 DEF Injection, IsInjective
  <1>7. IsFiniteSet(1 .. N) /\ Cardinality(1 .. N) = N
    <2>1. 1 \in Int /\ N \in Int
      BY <1>1
    <2>2. IsFiniteSet(1 .. N) /\ Cardinality(1 .. N) = IF 1 > N THEN 0 ELSE N - 1 + 1
      BY <2>1, FS_Interval, Zenon
    <2> QED
      BY <1>1, <2>2
  <1>8. rank \in Surjection(S, 1 .. N)
    <2> HIDE DEF rank
    <2>1. Cardinality(S) = Cardinality(1 .. N) <=> rank \in Surjection(S, 1 .. N)
      BY <1>6, <1>7, FS_Injection
    <2> QED
      BY <1>7, <2>1
  <1>9. ASSUME NEW n \in 0 .. N - 1 PROVE \E x \in S : Cardinality(Below(x, R, S)) = n
    <2>1. n + 1 \in 1 .. N
      BY <1>1
    <2>2. PICK x \in S : rank[x] = n + 1
      BY <1>8, <2>1, Zenon DEF Surjection
    <2> QED
      BY <1>1, <1>2, <2>2
  <1> QED
    BY <1>1, <1>2, <1>3, <1>9

(* A finite set can be sorted by a strict total order, so that what Sorted *)
(* chooses is a sorted list.                                               *)
LEMMA SortedIsSorted ==
    ASSUME NEW S, IsFiniteSet(S), NEW R, Orders(R, S)
    PROVE  /\ Sorted(S, R) \in Lists(S)
           /\ \A m, n \in 1 .. Cardinality(S) :
                 m < n => <<Sorted(S, R)[m], Sorted(S, R)[n]>> \in R
  <1> DEFINE N == Cardinality(S)
             Rank0(x) == Cardinality(Below(x, R, S)) + 1
             s == [n \in 1 .. N |-> CHOOSE x \in S : Rank0(x) = n]
  <1>1. N \in Nat /\ \A x \in S : Rank0(x) \in 1 .. N
    BY RanksAreDense
  <1>2. \A x, y \in S : <<x, y>> \in R => Rank0(x) < Rank0(y)
    BY <1>1, RanksAreDense
  <1>3. \A n \in 1 .. N : \E x \in S : Rank0(x) = n
    <2> TAKE n \in 1 .. N
    <2>1. n - 1 \in 0 .. N - 1
      BY <1>1
    <2>2. PICK x \in S : Cardinality(Below(x, R, S)) = n - 1
      BY <2>1, RanksAreDense, Zenon
    <2> QED
      BY <1>1, <2>2
  <1> HIDE DEF Rank0
  <1>4. \A n \in 1 .. N : s[n] \in S /\ Rank0(s[n]) = n
    BY <1>3
  <1>5. \A x \in S : s[Rank0(x)] = x
    BY <1>1, <1>2, <1>4 DEF Orders
  <1>6. s \in [1 .. N -> S]
    BY <1>4
  <1> HIDE DEF s
  <1>7. s \in Lists(S)
    BY <1>1, <1>4, <1>5, <1>6 DEF Lists, Bijection, Injection, IsInjective, Surjection
  <1>8. ASSUME NEW m \in 1 .. N, NEW n \in 1 .. N, m < n PROVE <<s[m], s[n]>> \in R
    <2>1. s[m] # s[n]
      BY <1>4, <1>8
    <2>2. <<s[n], s[m]>> \notin R
      BY <1>1, <1>2, <1>4, <1>8
    <2> QED
      BY <1>4, <2>1, <2>2 DEF Orders
  <1>9. \E t \in Lists(S) : \A m, n \in 1 .. Cardinality(S) : m < n => <<t[m], t[n]>> \in R
    BY <1>7, <1>8
  <1> QED
    BY <1>9 DEF Sorted

(* What quotaRankAndReserve sorts: the positions left of a list, grouped   *)
(* by provider, and an order of the groups.                                *)
Providers(list, left) == {list[i][1] : i \in left}
Ranking(list, left, order) ==
    /\ Len(list) \in Nat
    /\ left \subseteq 1 .. Len(list)
    /\ order \in Lists(Providers(list, left))

Numbered == {p \in Nat \X Nat : p[1] < p[2]}

(* The attempts of one provider have the depths 0, 1, 2, ..., in the order *)
(* of the list.                                                            *)
LEMMA DepthsOfGroup ==
    ASSUME NEW list, NEW left, Len(list) \in Nat, left \subseteq 1 .. Len(list)
    PROVE  /\ IsFiniteSet(left) /\ left \subseteq Nat \ {0}
           /\ \A i \in left : Depth(list, left, i) \in Nat
           /\ \A i, j \in left : list[i][1] = list[j][1] /\ i < j
                                   => Depth(list, left, i) < Depth(list, left, j)
           /\ \A i \in left : \A d \in 0 .. Depth(list, left, i) :
                 \E w \in left : list[w][1] = list[i][1] /\ Depth(list, left, w) = d
  <1> DEFINE Group(i) == {j \in left : list[j][1] = list[i][1]}
  <1>1. IsFiniteSet(left)
    <2>1. 1 \in Int /\ Len(list) \in Int
      OBVIOUS
    <2>2. IsFiniteSet(1 .. Len(list))
      BY <2>1, FS_Interval, Zenon
    <2> QED
      BY <2>2, FS_Subset, Zenon
  <1>2. ASSUME NEW i \in left
        PROVE  IsFiniteSet(Group(i)) /\ Orders(Numbered, Group(i))
    <2>1. Group(i) \in SUBSET left
      OBVIOUS
    <2>2. IsFiniteSet(Group(i))
      BY <1>1, <2>1, FS_Subset
    <2>3. Group(i) \subseteq Nat
      BY <2>1
    <2> HIDE DEF Group
    <2> QED
      BY <2>2, <2>3 DEF Orders, Numbered
  <1>3. \A i \in left : \A w \in Group(i) :
           /\ Group(w) = Group(i)
           /\ Depth(list, left, w) = Cardinality(Below(w, Numbered, Group(i)))
    <2> TAKE i \in left
    <2> TAKE w \in Group(i)
    <2>1. Group(w) = Group(i)
      OBVIOUS
    <2>2. left \subseteq Nat
      OBVIOUS
    <2>3. {j \in left : j < w /\ list[j][1] = list[w][1]} = Below(w, Numbered, Group(i))
      BY <2>2, Zenon DEF Below, Numbered
    <2> QED
      BY <2>1, <2>3, Zenon DEF Depth
  <1>4. ASSUME NEW i \in left
        PROVE  /\ i \in Group(i)
               /\ Cardinality(Group(i)) \in Nat
               /\ Depth(list, left, i) \in 0 .. Cardinality(Group(i)) - 1
               /\ Depth(list, left, i) \in Nat
    <2>1. i \in Group(i)
      OBVIOUS
    <2> HIDE DEF Group
    <2>2. /\ Cardinality(Group(i)) \in Nat
          /\ Depth(list, left, i) \in 0 .. Cardinality(Group(i)) - 1
      BY <1>2, <1>3, <2>1, RanksAreDense
    <2> QED
      BY <2>1, <2>2
  <1>5. ASSUME NEW i \in left, NEW j \in left, list[i][1] = list[j][1], i < j
        PROVE  Depth(list, left, i) < Depth(list, left, j)
    <2>1. i \in Group(i) /\ j \in Group(i) /\ <<i, j>> \in Numbered
      BY <1>5 DEF Numbered
    <2> HIDE DEF Group
    <2>2. Cardinality(Below(i, Numbered, Group(i))) < Cardinality(Below(j, Numbered, Group(i)))
      BY <1>2, <2>1, RanksAreDense
    <2> QED
      BY <1>3, <2>1, <2>2
  <1>6. ASSUME NEW i \in left, NEW d \in 0 .. Depth(list, left, i)
        PROVE  \E w \in left : list[w][1] = list[i][1] /\ Depth(list, left, w) = d
    <2>1. d \in 0 .. Cardinality(Group(i)) - 1
      BY <1>4
    <2>2. PICK w \in Group(i) : Cardinality(Below(w, Numbered, Group(i))) = d
      <3> HIDE DEF Group
      <3> QED
        BY <1>2, <2>1, RanksAreDense, Zenon
    <2> QED
      BY <1>3, <2>2
  <1>7. \A i \in left : Depth(list, left, i) \in Nat
    BY <1>4, Zenon
  <1>8. left \subseteq Nat \ {0}
    OBVIOUS
  <1> QED
    BY <1>1, <1>5, <1>6, <1>7, <1>8, Zenon

(* The turn of an attempt is the place of its provider's group. *)
LEMMA TurnOfGroup ==
    ASSUME NEW list, NEW left, NEW order, Ranking(list, left, order)
    PROVE  /\ \A i \in left : Turn(list, order, i) \in Nat \ {0}
           /\ \A i, j \in left :
                 Turn(list, order, i) = Turn(list, order, j) <=> list[i][1] = list[j][1]
           /\ \A i \in left : order[1] = list[i][1] => Turn(list, order, i) = 1
  <1> DEFINE S == Providers(list, left)
             provider == [i \in left |-> list[i][1]]
  <1>1. IsFiniteSet(left)
    BY DepthsOfGroup DEF Ranking
  <1>2. provider \in Surjection(left, S)
    <2>1. provider \in [left -> S] /\ \A x \in S : \E i \in left : provider[i] = x
      BY DEF Providers
    <2> QED
      BY <2>1 DEF Surjection
  <1>3. Cardinality(S) \in Nat
    <2> HIDE DEF provider, S
    <2> QED
      BY <1>1, <1>2, FS_Surjection, FS_CardinalityType
  <1>4. order \in [1 .. Cardinality(S) -> S] /\ IsInjective(order)
        /\ \A x \in S : \E g \in 1 .. Cardinality(S) : order[g] = x
    BY DEF Ranking, Lists, Bijection, Injection, Surjection
  <1>5. \A i \in left : list[i][1] \in S
    BY DEF Providers
  <1> HIDE DEF S
  <1>6. ASSUME NEW i \in left
        PROVE  /\ Turn(list, order, i) \in 1 .. Cardinality(S)
               /\ order[Turn(list, order, i)] = list[i][1]
    <2>1. \E g \in DOMAIN order : order[g] = list[i][1]
      BY <1>4, <1>5
    <2> QED
      BY <1>4, <2>1 DEF Turn
  <1>7. \A i \in left : Turn(list, order, i) \in Nat \ {0}
    BY <1>3, <1>6
  <1>8. \A g, h \in 1 .. Cardinality(S) : order[g] = order[h] => g = h
    BY <1>4 DEF IsInjective
  <1>9. \A i, j \in left :
           Turn(list, order, i) = Turn(list, order, j) <=> list[i][1] = list[j][1]
    BY <1>6, <1>8
  <1>10. \A i \in left : order[1] = list[i][1] => Turn(list, order, i) = 1
    <2> TAKE i \in left
    <2>1. 1 \in 1 .. Cardinality(S)
      BY <1>3, <1>6
    <2> QED
      BY <1>6, <1>8, <2>1
  <1> QED
    BY <1>7, <1>9, <1>10

(* Depth first and turn second is a strict total order of the attempts. *)
LEMMA SoonerIsOrder ==
    ASSUME NEW list, NEW left, NEW order, Ranking(list, left, order)
    PROVE  Orders(Sooner(list, left, order), left)
  <1> DEFINE D(i) == Depth(list, left, i)
             T(i) == Turn(list, order, i)
             R == Sooner(list, left, order)
  <1>1. /\ left \subseteq Nat
        /\ \A i \in left : D(i) \in Nat
        /\ \A i, j \in left : list[i][1] = list[j][1] /\ i < j => D(i) < D(j)
    <2>1. left \subseteq Nat \ {0}
      BY DepthsOfGroup, Zenon DEF Ranking
    <2> QED
      BY <2>1, DepthsOfGroup, Zenon DEF Ranking
  <1>2. \A i \in left : T(i) \in Nat
    BY TurnOfGroup
  <1>3. \A i, j \in left : <<i, j>> \in R <=> D(i) < D(j) \/ (D(i) = D(j) /\ T(i) < T(j))
    BY DEF Sooner
  <1>4. ASSUME NEW i \in left, NEW j \in left, D(i) = D(j), T(i) = T(j) PROVE i = j
    <2>1. list[i][1] = list[j][1]
      BY <1>4, TurnOfGroup
    <2>2. ~(i < j) /\ ~(j < i)
      BY <1>1, <1>4, <2>1
    <2> QED
      BY <1>1, <2>2
  <1> HIDE DEF D, T, R
  <1>5. \A x \in left : <<x, x>> \notin R
    BY <1>1, <1>2, <1>3
  <1>6. \A x, y, z \in left : <<x, y>> \in R /\ <<y, z>> \in R => <<x, z>> \in R
    BY <1>1, <1>2, <1>3
  <1>7. \A x, y \in left : x = y \/ <<x, y>> \in R \/ <<y, x>> \in R
    <2> TAKE x, y \in left
    <2>1. /\ D(x) \in Nat /\ D(y) \in Nat /\ T(x) \in Nat /\ T(y) \in Nat
          /\ D(x) = D(y) /\ T(x) = T(y) => x = y
      BY <1>1, <1>2, <1>4
    <2> QED
      BY <1>3, <2>1
  <1> QED
    BY <1>5, <1>6, <1>7 DEF Orders, R

(* The interleaved list has each attempt that is left once, and a sooner   *)
(* one before a later one.                                                 *)
LEMMA InterleavedList ==
    ASSUME NEW list, NEW left, NEW order, Ranking(list, left, order)
    PROVE  \E s \in [1 .. Cardinality(left) -> left] :
             /\ Cardinality(left) \in Nat
             /\ Interleaved(list, left, order) =
                    [n \in 1 .. Cardinality(left) |-> list[s[n]]]
             /\ \A i \in left : \E n \in 1 .. Cardinality(left) : s[n] = i
             /\ \A m, n \in 1 .. Cardinality(left) : s[m] = s[n] => m = n
             /\ \A m, n \in 1 .. Cardinality(left) :
                   m < n => <<s[m], s[n]>> \in Sooner(list, left, order)
  <1> DEFINE R == Sooner(list, left, order)
             s == Sorted(left, R)
  <1>1. IsFiniteSet(left) /\ Cardinality(left) \in Nat
    BY DepthsOfGroup, FS_CardinalityType DEF Ranking
  <1>2. Interleaved(list, left, order) = [n \in 1 .. Cardinality(left) |-> list[s[n]]]
    BY DEF Interleaved
  <1>3. Orders(R, left)
    BY SoonerIsOrder
  <1> HIDE DEF R
  <1>4. s \in Lists(left) /\ \A m, n \in 1 .. Cardinality(left) : m < n => <<s[m], s[n]>> \in R
    BY <1>1, <1>3, SortedIsSorted
  <1> HIDE DEF s
  <1>5. /\ s \in [1 .. Cardinality(left) -> left]
        /\ \A i \in left : \E n \in 1 .. Cardinality(left) : s[n] = i
        /\ \A m, n \in 1 .. Cardinality(left) : s[m] = s[n] => m = n
    BY <1>4 DEF Lists, Bijection, Injection, IsInjective, Surjection
  <1> QED
    BY <1>1, <1>2, <1>4, <1>5 DEF R

(* The interleaving of quotaRankAndReserve: two neighbours of one provider *)
(* mean that no other provider follows.  Were there a later attempt of     *)
(* another provider, that provider would have one at the depth of the      *)
(* first neighbour or at the next, which belongs between the two.          *)
LEMMA NeighboursOfOneProvider ==
    ASSUME NEW list, NEW left, NEW order, Ranking(list, left, order),
           NEW n \in Nat, NEW k \in Nat, 1 <= n, n + 1 < k, k <= Cardinality(left),
           Interleaved(list, left, order)[n][1] = Interleaved(list, left, order)[n + 1][1]
    PROVE  Interleaved(list, left, order)[k][1] = Interleaved(list, left, order)[n][1]
  <1>0. \A i \in left : \A d \in 0 .. Depth(list, left, i) :
           \E w \in left : list[w][1] = list[i][1] /\ Depth(list, left, w) = d
    <2>1. Len(list) \in Nat /\ left \subseteq 1 .. Len(list)
      BY DEF Ranking
    <2> QED
      BY <2>1, DepthsOfGroup, Zenon
  <1> DEFINE D(i) == Depth(list, left, i)
             T(i) == Turn(list, order, i)
             N == Cardinality(left)
             R == Sooner(list, left, order)
             il == Interleaved(list, left, order)
  <1>1. PICK s \in [1 .. N -> left] :
             /\ N \in Nat
             /\ il = [m \in 1 .. N |-> list[s[m]]]
             /\ \A i \in left : \E m \in 1 .. N : s[m] = i
             /\ \A l, m \in 1 .. N : s[l] = s[m] => l = m
             /\ \A l, m \in 1 .. N : l < m => <<s[l], s[m]>> \in R
    BY InterleavedList
  <1>2. n \in 1 .. N /\ n + 1 \in 1 .. N /\ k \in 1 .. N
    BY <1>1
  <1> DEFINE x == s[n]
             y == s[n + 1]
             z == s[k]
  <1>3. x \in left /\ y \in left /\ z \in left
    BY <1>2
  <1>4. /\ il[n] = list[x] /\ il[n + 1] = list[y] /\ il[k] = list[z]
        /\ list[x][1] = list[y][1]
    BY <1>1, <1>2
  <1>5. SUFFICES ASSUME list[z][1] # list[x][1] PROVE FALSE
    BY <1>4
  <1>6. \A i \in left : D(i) \in Nat /\ T(i) \in Nat
    BY DepthsOfGroup, TurnOfGroup, Zenon DEF Ranking
  <1>7. \A i, j \in left : <<i, j>> \in R <=> D(i) < D(j) \/ (D(i) = D(j) /\ T(i) < T(j))
    BY DEF Sooner
  <1>8. Orders(R, left)
    BY SoonerIsOrder
  <1>9. \A i, j \in left : T(i) = T(j) <=> list[i][1] = list[j][1]
    BY TurnOfGroup
  <1>10. \A d \in 0 .. D(z) : \E w \in left : list[w][1] = list[z][1] /\ D(w) = d
    <2> HIDE DEF z
    <2> QED
      BY <1>0, <1>3, Zenon
  <1>11. <<x, y>> \in R /\ <<y, z>> \in R
    BY <1>1, <1>2
  <1>12. \A w \in left : ~(<<x, w>> \in R /\ <<w, y>> \in R)
    <2> TAKE w \in left
    <2>1. PICK m \in 1 .. N : s[m] = w
      BY <1>1
    <2>2. CASE m <= n
      <3>1. m = n \/ <<w, x>> \in R
        BY <1>1, <1>2, <2>1, <2>2
      <3> QED
        BY <1>3, <1>8, <2>1, <3>1, Zenon DEF Orders
    <2>3. CASE m >= n + 1
      <3>1. m = n + 1 \/ <<y, w>> \in R
        BY <1>1, <1>2, <2>1, <2>3
      <3> QED
        BY <1>3, <1>8, <2>1, <3>1, Zenon DEF Orders
    <2> QED
      BY <2>2, <2>3
  <1> HIDE DEF D, T, R, x, y, z
  <1>13. D(x) < D(y) /\ T(x) = T(y) /\ D(y) <= D(z) /\ T(z) # T(x)
    BY <1>3, <1>4, <1>5, <1>6, <1>7, <1>9, <1>11
  <1>14. CASE T(x) < T(z)
    <2>1. D(x) \in 0 .. D(z)
      BY <1>3, <1>6, <1>13
    <2>2. PICK w \in left : list[w][1] = list[z][1] /\ D(w) = D(x)
      BY <1>10, <2>1
    <2>3. T(w) = T(z)
      BY <1>3, <1>9, <2>2
    <2>4. <<x, w>> \in R /\ <<w, y>> \in R
      BY <1>3, <1>6, <1>7, <1>13, <1>14, <2>2, <2>3
    <2> QED
      BY <1>12, <2>4
  <1>15. CASE T(z) < T(x)
    <2>1. D(x) + 1 \in 0 .. D(z)
      BY <1>3, <1>6, <1>13
    <2>2. PICK w \in left : list[w][1] = list[z][1] /\ D(w) = D(x) + 1
      BY <1>10, <2>1
    <2>3. T(w) = T(z)
      BY <1>3, <1>9, <2>2
    <2>4. <<x, w>> \in R /\ <<w, y>> \in R
      BY <1>3, <1>6, <1>7, <1>13, <1>15, <2>2, <2>3
    <2> QED
      BY <1>12, <2>4
  <1> QED
    BY <1>3, <1>6, <1>13, <1>14, <1>15

(* The first attempt of the first group stays in front. *)
LEMMA FirstGroupGoesFirst ==
    ASSUME NEW list, NEW left, NEW order, Ranking(list, left, order),
           1 \in left, order[1] = list[1][1]
    PROVE  Interleaved(list, left, order)[1] = list[1]
  <1> DEFINE N == Cardinality(left)
             R == Sooner(list, left, order)
  <1>1. PICK s \in [1 .. N -> left] :
             /\ N \in Nat
             /\ Interleaved(list, left, order) = [m \in 1 .. N |-> list[s[m]]]
             /\ \A i \in left : \E m \in 1 .. N : s[m] = i
             /\ \A l, m \in 1 .. N : l < m => <<s[l], s[m]>> \in R
    BY InterleavedList, Zenon
  <1>2. PICK m \in 1 .. N : s[m] = 1
    BY <1>1
  <1>3. Depth(list, left, 1) = 0
    <2>1. \A j \in left : j \in Nat \ {0}
      BY DepthsOfGroup, Zenon DEF Ranking
    <2>2. {j \in left : j < 1 /\ list[j][1] = list[1][1]} = {}
      BY <2>1
    <2> QED
      BY <2>2, FS_EmptySet DEF Depth
  <1>4. Turn(list, order, 1) = 1
    BY TurnOfGroup
  <1>5. \A i \in left : <<i, 1>> \notin R
    <2> TAKE i \in left
    <2>1. Depth(list, left, i) \in Nat /\ Turn(list, order, i) \in Nat \ {0}
      BY DepthsOfGroup, TurnOfGroup, Zenon DEF Ranking
    <2> QED
      BY <1>3, <1>4, <2>1 DEF Sooner
  <1>6. m = 1
    <2>1. 1 \in 1 .. N /\ s[1] \in left
      BY <1>1
    <2>2. ~(1 < m)
      BY <1>1, <1>2, <1>5, <2>1, Zenon
    <2> QED
      BY <1>1, <2>2
  <1> QED
    BY <1>1, <1>2, <1>6

----------------------------------------------------------------------------
(* The affinity store. *)
Entries == [session : Sessions, route : Attempts, age : Nat]

Store(p) ==
    /\ p \in Seq(Entries)
    /\ \A i, j \in 1 .. Len(p) : p[i].session = p[j].session => i = j

PinsInv == Store(pins) /\ Len(pins) <= MaxPins

(* container/list Remove takes one entry out and leaves the others alone. *)
LEMMA DropRemovesOne ==
    ASSUME NEW E, NEW p \in Seq(E), NEW i \in 1 .. Len(p)
    PROVE  /\ Drop(p, i) \in Seq(E)
           /\ Len(Drop(p, i)) = Len(p) - 1
           /\ \A j \in 1 .. Len(p) - 1 : Drop(p, i)[j] = IF j < i THEN p[j] ELSE p[j + 1]
  <1> DEFINE a == SubSeq(p, 1, i - 1)
             b == SubSeq(p, i + 1, Len(p))
  <1>1. Len(p) \in Nat /\ i \in Nat /\ \A j \in 1 .. Len(p) : p[j] \in E
    OBVIOUS
  <1>2. a \in Seq(E) /\ Len(a) = i - 1 /\ \A j \in 1 .. i - 1 : a[j] = p[j]
    BY <1>1
  <1>3. b \in Seq(E) /\ Len(b) = Len(p) - i /\ \A j \in 1 .. Len(p) - i : b[j] = p[j + i]
    BY <1>1
  <1> HIDE DEF a, b
  <1>4. /\ a \o b \in Seq(E)
        /\ Len(a \o b) = Len(a) + Len(b)
        /\ \A j \in 1 .. Len(a) + Len(b) :
              (a \o b)[j] = IF j <= Len(a) THEN a[j] ELSE b[j - Len(a)]
    <2>1. a \in Seq(E) /\ b \in Seq(E)
      BY <1>2, <1>3
    <2>2. a \o b \in Seq(E) /\ Len(a \o b) = Len(a) + Len(b)
      BY <2>1
    <2>3. \A j \in 1 .. Len(a) + Len(b) :
             (a \o b)[j] = IF j <= Len(a) THEN a[j] ELSE b[j - Len(a)]
      BY <2>1
    <2> QED
      BY <2>2, <2>3
  <1>5. ASSUME NEW j \in 1 .. Len(p) - 1
        PROVE  (a \o b)[j] = IF j < i THEN p[j] ELSE p[j + 1]
    <2>1. CASE j < i
      BY <1>1, <1>2, <1>3, <1>4, <2>1
    <2>2. CASE ~(j < i)
      <3>1. (a \o b)[j] = b[j - (i - 1)]
        BY <1>1, <1>2, <1>3, <1>4, <2>2
      <3>2. j - (i - 1) \in 1 .. Len(p) - i /\ j - (i - 1) + i = j + 1
        BY <1>1, <2>2
      <3>3. b[j - (i - 1)] = p[j + 1]
        BY <1>3, <3>2
      <3> QED
        BY <2>2, <3>1, <3>3
    <2> QED
      BY <2>1, <2>2, Zenon
  <1>6. Drop(p, i) = a \o b
    BY DEF Drop, a, b
  <1>7. Len(a \o b) = Len(p) - 1
    BY <1>1, <1>2, <1>3, <1>4
  <1> QED
    BY <1>4, <1>5, <1>6, <1>7, Zenon

(* The store without an entry of the session, which had one at most. *)
LEMMA WithoutSession ==
    ASSUME PinsInv, NEW s
    PROVE  /\ Store(Without(s))
           /\ Len(Without(s)) <= Len(pins)
           /\ At(s) # {} => /\ Entry(s) \in 1 .. Len(pins)
                            /\ pins[Entry(s)].session = s
                            /\ Len(Without(s)) < Len(pins)
           /\ \A i \in 1 .. Len(Without(s)) : Without(s)[i].session # s
  <1>1. pins \in Seq(Entries) /\ Len(pins) \in Nat /\ DOMAIN pins = 1 .. Len(pins)
    BY DEF PinsInv, Store
  <1>2. CASE At(s) = {}
    <2>1. Without(s) = pins
      BY <1>2 DEF Without
    <2>2. \A i \in 1 .. Len(pins) : pins[i].session # s
      BY <1>1, <1>2 DEF At
    <2> QED
      BY <1>1, <1>2, <2>1, <2>2 DEF PinsInv
  <1>3. CASE At(s) # {}
    <2> DEFINE e == Entry(s)
               w == Without(s)
    <2>1. e \in 1 .. Len(pins) /\ pins[e].session = s
      BY <1>1, <1>3 DEF Entry, At
    <2> HIDE DEF e
    <2>2. w = Drop(pins, e)
      BY <1>3 DEF Without, e
    <2>3. /\ w \in Seq(Entries)
          /\ Len(w) = Len(pins) - 1
          /\ \A j \in 1 .. Len(w) : w[j] = IF j < e THEN pins[j] ELSE pins[j + 1]
      BY <1>1, <2>1, <2>2, DropRemovesOne, Zenon
    <2> HIDE DEF w
    <2>4. \A i, j \in 1 .. Len(pins) : pins[i].session = pins[j].session => i = j
      BY <1>1 DEF PinsInv, Store
    <2>5. ASSUME NEW i \in 1 .. Len(w), NEW j \in 1 .. Len(w), w[i].session = w[j].session
          PROVE  i = j
      <3> DEFINE I == IF i < e THEN i ELSE i + 1
                 J == IF j < e THEN j ELSE j + 1
      <3>1. I \in 1 .. Len(pins) /\ J \in 1 .. Len(pins)
        BY <1>1, <2>3
      <3>2. w[i] = pins[I] /\ w[j] = pins[J]
        BY <2>3
      <3>3. I = J
        BY <2>4, <2>5, <3>1, <3>2
      <3> QED
        BY <1>1, <2>1, <2>3, <3>3
    <2>6. ASSUME NEW i \in 1 .. Len(w) PROVE w[i].session # s
      <3> DEFINE I == IF i < e THEN i ELSE i + 1
      <3>1. I \in 1 .. Len(pins) /\ I # e
        BY <1>1, <2>1, <2>3
      <3>2. w[i] = pins[I]
        BY <2>3
      <3> QED
        BY <2>1, <2>4, <3>1, <3>2
    <2>7. Store(w)
      BY <2>3, <2>5 DEF Store
    <2>8. Len(w) < Len(pins)
      BY <1>1, <2>3
    <2> QED
      BY <1>1, <2>1, <2>6, <2>7, <2>8 DEF e, w
  <1> QED
    BY <1>2, <1>3

(* An entry moved or pushed to the front is the session's only one, and    *)
(* the store grows only when the session had none.                         *)
LEMMA ForemostSession ==
    ASSUME PinsInv, NEW s \in Sessions, NEW a \in Attempts
    PROVE  /\ Store(Foremost(s, a))
           /\ Len(Foremost(s, a)) <= Len(pins) + 1
           /\ At(s) # {} => Len(Foremost(s, a)) <= Len(pins)
  <1> DEFINE w == Without(s)
             n == [session |-> s, route |-> a, age |-> 0]
             f == <<n>> \o w
  <1>1. n \in Entries /\ n.session = s
    BY DEF Entries
  <1>2. /\ w \in Seq(Entries)
        /\ \A i, j \in 1 .. Len(w) : w[i].session = w[j].session => i = j
        /\ Len(w) <= Len(pins)
        /\ At(s) # {} => Len(w) < Len(pins)
        /\ \A i \in 1 .. Len(w) : w[i].session # s
    BY WithoutSession DEF Store
  <1>3. Len(pins) \in Nat
    BY DEF PinsInv, Store
  <1> HIDE DEF w, n
  <1>4. /\ f \in Seq(Entries) /\ Len(w) \in Nat
        /\ Len(f) = Len(w) + 1
        /\ f[1] = n
        /\ \A i \in 2 .. Len(w) + 1 : f[i] = w[i - 1]
    BY <1>1, <1>2
  <1>5. Foremost(s, a) = f
    BY DEF Foremost, w, n
  <1> HIDE DEF f
  <1>6. ASSUME NEW i \in 1 .. Len(f), NEW j \in 1 .. Len(f), f[i].session = f[j].session
        PROVE  i = j
    <2>1. \A k \in 1 .. Len(f) : k = 1 \/ (k \in 2 .. Len(w) + 1 /\ k - 1 \in 1 .. Len(w))
      BY <1>4
    <2>2. \A k \in 2 .. Len(w) + 1 : k - 1 \in 1 .. Len(w) => f[k].session # s
      BY <1>2, <1>4
    <2>3. f[1].session = s
      BY <1>1, <1>4
    <2>4. CASE i = 1 \/ j = 1
      BY <1>6, <2>1, <2>2, <2>3, <2>4
    <2>5. CASE i # 1 /\ j # 1
      <3>1. i - 1 \in 1 .. Len(w) /\ j - 1 \in 1 .. Len(w)
        BY <2>1, <2>5
      <3>2. w[i - 1].session = w[j - 1].session
        BY <1>4, <1>6, <2>1, <2>5
      <3>3. i - 1 = j - 1
        BY <1>2, <3>1, <3>2
      <3> QED
        BY <1>4, <3>3
    <2> QED
      BY <2>4, <2>5
  <1> QED
    BY <1>2, <1>3, <1>4, <1>5, <1>6 DEF Store

(* preferred, pin and forget keep the store one route per session and      *)
(* within maxEntries.                                                      *)
LEMMA LookedKeeps ==
    ASSUME PinsInv, NEW s \in Sessions
    PROVE  /\ Store(Looked(s)) /\ Len(Looked(s)) <= MaxPins
           /\ Route(s) \in Attempts \cup {NoRoute}
  <1>1. Len(pins) \in Nat /\ Len(pins) <= MaxPins /\ pins \in Seq(Entries) /\ MaxPins \in Nat
    BY RoutingAssumption DEF PinsInv, Store
  <1>2. CASE Fresh(s)
    <2>1. At(s) # {}
      BY <1>2 DEF Fresh
    <2>2. Entry(s) \in 1 .. Len(pins)
      BY <2>1, WithoutSession
    <2>3. Route(s) \in Attempts
      <3>1. pins[Entry(s)] \in Entries
        BY <1>1, <2>2
      <3> QED
        BY <1>2, <3>1 DEF Route, Entries
    <2>4. Looked(s) = Foremost(s, Route(s))
      BY <1>2 DEF Looked
    <2>5. Store(Looked(s)) /\ Len(Looked(s)) <= Len(pins)
      BY <2>1, <2>3, <2>4, ForemostSession
    <2>6. Len(Looked(s)) \in Nat
      BY <2>5 DEF Store
    <2> QED
      BY <1>1, <2>3, <2>5, <2>6
  <1>3. CASE ~Fresh(s)
    <2>1. Looked(s) = Without(s) /\ Route(s) = NoRoute
      BY <1>3 DEF Looked, Route
    <2>2. Store(Looked(s)) /\ Len(Looked(s)) <= Len(pins)
      BY <2>1, WithoutSession
    <2>3. Len(Looked(s)) \in Nat
      BY <2>2 DEF Store
    <2> QED
      BY <1>1, <2>1, <2>2, <2>3
  <1> QED
    BY <1>2, <1>3

(* The same of pin: only a new session can make the store too long, by one *)
(* entry, and the last one goes.                                           *)
LEMMA PinnedKeeps ==
    ASSUME PinsInv, NEW s \in Sessions, NEW a \in Attempts
    PROVE  Store(Pinned(s, a)) /\ Len(Pinned(s, a)) <= MaxPins
  <1> DEFINE f == Foremost(s, a)
  <1>1. f \in Seq(Entries) /\ \A i, j \in 1 .. Len(f) : f[i].session = f[j].session => i = j
    BY ForemostSession DEF Store
  <1>2. MaxPins \in Nat \ {0}
    BY RoutingAssumption
  <1> HIDE DEF f
  <1>3. CASE Len(f) <= MaxPins
    <2>1. Pinned(s, a) = f
      BY <1>3 DEF Pinned, f
    <2> QED
      BY <1>1, <1>3, <2>1 DEF Store
  <1>4. CASE ~(Len(f) <= MaxPins)
    <2> DEFINE p == SubSeq(f, 1, MaxPins)
    <2>1. Len(f) \in Nat /\ MaxPins < Len(f) /\ \A i \in 1 .. Len(f) : f[i] \in Entries
      BY <1>1, <1>2, <1>4
    <2>2. p \in Seq(Entries) /\ Len(p) = MaxPins /\ \A i \in 1 .. MaxPins : p[i] = f[i]
      BY <1>1, <1>2, <2>1
    <2>3. Pinned(s, a) = p
      BY <1>4, Zenon DEF Pinned, f
    <2> HIDE DEF p
    <2>4. \A i \in 1 .. MaxPins : i \in 1 .. Len(f)
      BY <1>2, <2>1
    <2>5. \A i, j \in 1 .. Len(p) : p[i].session = p[j].session => i = j
      BY <1>1, <2>2, <2>4
    <2> QED
      BY <1>2, <2>2, <2>3, <2>5 DEF Store
  <1> QED
    BY <1>3, <1>4

(* The same of forget. *)
LEMMA ForgottenKeeps ==
    ASSUME PinsInv, NEW s, NEW a
    PROVE  Store(Forgotten(s, a)) /\ Len(Forgotten(s, a)) <= MaxPins
  <1>1. Store(Without(s)) /\ Len(Without(s)) <= Len(pins)
    BY WithoutSession
  <1>2. Len(Without(s)) \in Nat /\ Len(pins) \in Nat /\ MaxPins \in Nat /\ Len(pins) <= MaxPins
    BY <1>1, RoutingAssumption DEF PinsInv, Store
  <1>3. Forgotten(s, a) = Without(s) \/ Forgotten(s, a) = pins
    BY DEF Forgotten
  <1> QED
    BY <1>1, <1>2, <1>3 DEF PinsInv

(* A request, by how far it has come. *)
Listed == {"rank", "reserve", "try", "sent"}
Able == {"fit", "promote"} \cup Listed
Gated == {"caps", "rescue"} \cup Able
Steps == {"idle", "gate", "targets", "plan", "end"} \cup Gated

Profiles == {None, "vision"} \cup {k.profile : k \in Kinds}
            \cup {Config[v].default : v \in Versions}

Request ==
    [pc : Steps, kind : Kinds \cup {None}, needs : SUBSET {"vision", "tools"},
     profile : Profiles, targets : Versions \cup {Nil},
     could : SUBSET Attempts, list : Seq(Attempts),
     pref : Attempts \cup {NoRoute}, again : Attempts \cup {NoRoute},
     wait : 1 .. RequestTimeout, body : {None, "effort", "reasoning"}]

Formed(q) ==
    /\ q \in Request
    /\ IsFiniteSet(q.could)
    /\ q.pc \notin {"idle", "end"} => q.kind \in Kinds
    /\ q.pc \notin Listed => q.list = <<>>
    /\ q.pc \in {"reserve", "try", "sent"} => q.list # <<>>

(* From the plan on, the attempts have a credential and speak the format;  *)
(* past the capability filter they can do what the request needs.          *)
Eligible(q) ==
    /\ q.pc \in Gated =>
         \A a \in q.could \cup Range(q.list) : a \in Configured({a}, q.kind.path)
    /\ q.pc \in Able =>
         \A a \in q.could \cup Range(q.list) : \A c \in q.needs : MayBeAble(a[2], c)
    /\ q.pc = "sent" /\ q.body # None => MayBeAble(q.list[1][2], q.body)

(* No two neighbours have one provider while another provider follows. *)
Alternates(list) ==
    \A n, k \in 1 .. Len(list) :
        n + 1 < k /\ list[n][1] = list[n + 1][1] => list[k][1] = list[n][1]

Ordered(q) ==
    /\ q.pc = "rank" => /\ IsInjective(q.list)
                        /\ q.pref \in Range(q.list) => q.list[1] = q.pref
    /\ q.pc = "reserve" => /\ Alternates(q.list)
                           /\ q.pref = q.again /\ q.pref \in Range(q.list) => q.list[1] = q.pref

Sound(q) == Formed(q) /\ Eligible(q) /\ Ordered(q)

RequestInv ==
    /\ req \in [Requests -> Request]
    /\ \A r \in Requests : Sound(req[r])

RoutingInv ==
    /\ ReloadInv
    /\ auto \in Snapshots \cup {<<>>}
    /\ PinsInv
    /\ RequestInv

(* applySessionAffinity moves one attempt to the front of the list and     *)
(* neither loses nor doubles one.                                          *)
LEMMA PromoteMoves ==
    ASSUME NEW S, NEW N \in Nat, NEW list \in [1 .. N -> S], NEW a, IsInjective(list)
    PROVE  /\ Promote(list, a) \in [1 .. N -> S]
           /\ IsInjective(Promote(list, a))
           /\ Range(Promote(list, a)) \subseteq Range(list)
           /\ a \in Range(Promote(list, a)) => Promote(list, a)[1] = a
  <1> DEFINE p == Promote(list, a)
             i == CHOOSE n \in DOMAIN list : list[n] = a
             From(n) == IF n = 1 THEN i ELSE IF n <= i THEN n - 1 ELSE n
  <1>1. CASE a \notin Range(list)
    BY <1>1 DEF Promote
  <1>2. CASE a \in Range(list)
    <2>1. i \in 1 .. N /\ list[i] = a
      BY <1>2 DEF Range
    <2> HIDE DEF i
    <2>2. p = [n \in 1 .. N |-> IF n = 1 THEN a ELSE IF n <= i THEN list[n - 1] ELSE list[n]]
      BY <1>2 DEF Promote, i
    <2>3. \A n \in 1 .. N : From(n) \in 1 .. N
      BY <2>1
    <2>4. \A n \in 1 .. N : p[n] = list[From(n)]
      BY <2>1, <2>2
    <2>5. \A m, n \in 1 .. N : From(m) = From(n) => m = n
      BY <2>1
    <2>6. DOMAIN p = 1 .. N /\ p[1] = a
      BY <2>1, <2>2
    <2>7. p = [n \in 1 .. N |-> p[n]]
      BY <2>2
    <2> HIDE DEF p, From
    <2>8. \A n \in 1 .. N : p[n] \in S
      BY <2>3, <2>4
    <2>9. p \in [1 .. N -> S]
      BY <2>7, <2>8
    <2>10. \A m, n \in 1 .. N : list[m] = list[n] => m = n
      BY DEF IsInjective
    <2>11. IsInjective(p)
      BY <2>3, <2>4, <2>5, <2>6, <2>10 DEF IsInjective
    <2>12. Range(p) \subseteq Range(list)
      BY <2>3, <2>4, <2>6 DEF Range
    <2> QED
      BY <2>6, <2>9, <2>11, <2>12 DEF p
  <1> QED
    BY <1>1, <1>2

(* A list that rankAttemptsByScore makes of a finite set. *)
LEMMA ListOfSet ==
    ASSUME NEW S, IsFiniteSet(S), NEW list \in Lists(S)
    PROVE  Cardinality(S) \in Nat /\ list \in [1 .. Cardinality(S) -> S] /\ IsInjective(list)
  BY FS_CardinalityType DEF Lists, Bijection, Injection

(* A model that the capability index says can do something may be able to: *)
(* the published list or an override of some version says so.              *)
LEMMA IndexMayBeAble ==
    ASSUME live.caps \in Versions, auto \in Snapshots \cup {<<>>},
           NEW m, NEW needs, Satisfies(m, needs), NEW c \in needs
    PROVE  MayBeAble(m, c)
  <1>1. m \in DOMAIN auto \cup DOMAIN Overrides /\ c \in Can(m)
    BY DEF Satisfies, Known
  <1>2. CASE m \in DOMAIN auto /\ c \in auto[m]
    BY <1>2 DEF MayBeAble
  <1>3. CASE m \in DOMAIN Overrides /\ c \in Overrides[m].plus
    <2> DEFINE f == Config[live.caps].caps
               g == Config[1].caps
    <2>1. Overrides = [x \in DOMAIN f \cup DOMAIN g |-> IF x \in DOMAIN f THEN f[x] ELSE g[x]]
      BY DEF Overrides, loadCapabilityOverrides, Over
    <2>2. 1 \in Versions
      BY RoutingAssumption
    <2>3. (m \in DOMAIN f /\ c \in f[m].plus) \/ (m \in DOMAIN g /\ c \in g[m].plus)
      BY <1>3, <2>1
    <2> QED
      BY <2>2, <2>3 DEF MayBeAble
  <1> QED
    BY <1>1, <1>2, <1>3 DEF Can

(* The models of a chain, for the default executor, are finitely many      *)
(* attempts.                                                               *)
LEMMA PairsAreFinite ==
    ASSUME NEW S, IsFiniteSet(S)
    PROVE  IsFiniteSet({OpenRouter} \X S)
  <1> DEFINE f == [x \in S |-> <<OpenRouter, x>>]
  <1>1. f \in [S -> {OpenRouter} \X S] /\ \A p \in {OpenRouter} \X S : \E x \in S : f[x] = p
    OBVIOUS
  <1>2. f \in Surjection(S, {OpenRouter} \X S)
    BY <1>1, Zenon DEF Surjection
  <1> HIDE DEF f
  <1> QED
    BY <1>2, FS_Surjection

(* planModelAttempts: profile targets, or the models of a chain and the    *)
(* pin, make a finite plan of known attempts.                              *)
LEMMA PlanIsKnown ==
    ASSUME NEW tv \in Versions \cup {Nil}, NEW pv \in Versions, NEW q, q.kind \in Kinds
    PROVE  Plan(tv, pv, q) \in SUBSET Attempts /\ IsFiniteSet(Plan(tv, pv, q))
  <1>1. Targets(tv, q.profile) \in SUBSET Routes
    BY DEF Targets, Routes, Nil
  <1>2. IsFiniteSet(Targets(tv, q.profile))
    BY <1>1, FS_Subset, RoutingAssumption
  <1> DEFINE chains == Config[pv].chain
             p == IF q.profile \in DOMAIN chains THEN q.profile ELSE Config[pv].default
             C == UNION {chains[x] : x \in {p} \cap DOMAIN chains}
  <1>3. C \in SUBSET Models
    BY DEF Models
  <1>4. Chain(pv, q) = C \cup ({q.kind.pin} \ {AnyModel})
    BY DEF Chain
  <1> HIDE DEF C
  <1>5. Chain(pv, q) \in SUBSET (Models \cup ({k.pin : k \in Kinds} \ {AnyModel}))
    BY <1>3, <1>4
  <1>6. IsFiniteSet(C)
    BY <1>3, FS_Subset, RoutingAssumption
  <1>7. IsFiniteSet(C \cup {q.kind.pin})
    BY <1>6, FS_AddElement
  <1>8. IsFiniteSet(Chain(pv, q))
    <2>1. Chain(pv, q) \in SUBSET (C \cup {q.kind.pin})
      BY <1>4
    <2> QED
      BY <1>7, <2>1, FS_Subset
  <1>9. IsFiniteSet({OpenRouter} \X Chain(pv, q))
    BY <1>8, PairsAreFinite
  <1>10. {OpenRouter} \X Chain(pv, q) \in SUBSET Attempts /\ Routes \in SUBSET Attempts
    BY <1>5 DEF Attempts
  <1> QED
    BY <1>1, <1>2, <1>9, <1>10 DEF Plan

(* So is the pool of capabilityRescue. *)
LEMMA PoolIsKnown ==
    ASSUME live \in Policy
    PROVE  Pool \in SUBSET Attempts /\ IsFiniteSet(Pool)
  <1> DEFINE profiles == IF live.targets = Nil THEN <<>> ELSE Config[live.targets].targets
             chains == Config[live.policy].chain
             T == UNION {profiles[p] : p \in DOMAIN profiles}
             M == UNION {chains[p] : p \in DOMAIN chains}
  <1>1. live.targets \in Versions \cup {Nil} /\ live.policy \in Versions
    BY DEF Policy
  <1>2. T \in SUBSET Routes
    <2>1. CASE live.targets = Nil
      BY <2>1
    <2>2. CASE live.targets # Nil
      <3>1. live.targets \in Versions /\ profiles = Config[live.targets].targets
        BY <1>1, <2>2
      <3> QED
        BY <3>1 DEF Routes
    <2> QED
      BY <2>1, <2>2
  <1>3. M \in SUBSET Models
    BY <1>1 DEF Models
  <1>4. Pool = IF DOMAIN profiles # {} THEN T ELSE {OpenRouter} \X M
    BY DEF Pool
  <1> HIDE DEF profiles, T, M
  <1>5. IsFiniteSet(T) /\ IsFiniteSet(M)
    BY <1>2, <1>3, FS_Subset, RoutingAssumption
  <1>6. IsFiniteSet({OpenRouter} \X M)
    BY <1>5, PairsAreFinite
  <1>7. {OpenRouter} \X M \in SUBSET Attempts /\ T \in SUBSET Attempts
    BY <1>2, <1>3 DEF Attempts
  <1> QED
    BY <1>4, <1>5, <1>6, <1>7

(* A request that has not come, or has been answered, is sound. *)
LEMMA AnsweredIsSound == Sound(Quiet) /\ Sound(Ended)
  <1>1. RequestTimeout \in 1 .. RequestTimeout
    BY RoutingAssumption
  <1>2. Quiet \in Request /\ Ended \in Request
    <2>1. /\ "idle" \in Steps /\ "end" \in Steps /\ None \in Kinds \cup {None}
          /\ None \in Profiles /\ Nil \in Versions \cup {Nil}
          /\ {} \in SUBSET {"vision", "tools"} /\ {} \in SUBSET Attempts
          /\ <<>> \in Seq(Attempts) /\ NoRoute \in Attempts \cup {NoRoute}
          /\ None \in {None, "effort", "reasoning"}
      BY DEF Steps, Profiles
    <2>2. Quiet \in Request
      BY <1>1, <2>1 DEF Quiet, Request
    <2>3. Ended \in Request
      BY <2>1, <2>2 DEF Ended, Request
    <2> QED
      BY <2>2, <2>3
  <1>3. /\ Quiet.pc = "idle" /\ Quiet.could = {} /\ Quiet.list = <<>>
        /\ Ended.pc = "end" /\ Ended.could = {} /\ Ended.list = <<>>
    BY DEF Quiet, Ended
  <1>4. IsFiniteSet({})
    BY FS_EmptySet
  <1> QED
    BY <1>2, <1>3, <1>4 DEF Sound, Formed, Eligible, Ordered, Gated, Able, Listed

(* A step of one request leaves the others alone. *)
LEMMA OneRequestMoves ==
    ASSUME RequestInv, NEW r \in Requests, NEW q, Sound(q), req' = [req EXCEPT ![r] = q]
    PROVE  RequestInv'
  <1>1. q \in Request
    BY DEF Sound, Formed
  <1>2. req' \in [Requests -> Request]
    BY <1>1 DEF RequestInv
  <1>3. \A o \in Requests : req'[o] = IF o = r THEN q ELSE req[o]
    BY DEF RequestInv
  <1>4. \A o \in Requests : Sound(req'[o])
    BY <1>3 DEF RequestInv
  <1> QED
    BY <1>2, <1>4 DEF RequestInv

(* The filters: what they leave must be known, have passed the gates and,  *)
(* behind the capability filter, be able.                                  *)
LEMMA FilteredIsSound ==
    ASSUME NEW q, Sound(q), q.pc \in {"plan", "caps", "rescue", "fit"},
           NEW could \in SUBSET Attempts, IsFiniteSet(could),
           NEW pc \in {"caps", "rescue", "fit", "promote"},
           \A a \in could : a \in Configured({a}, q.kind.path),
           pc \in {"fit", "promote"} => \A a \in could : \A c \in q.needs : MayBeAble(a[2], c)
    PROVE  Sound([q EXCEPT !.pc = pc, !.could = could, !.targets = Nil])
  <1> DEFINE p == [q EXCEPT !.pc = pc, !.could = could, !.targets = Nil]
  <1>1. q \in Request /\ q.kind \in Kinds /\ q.list = <<>>
    BY DEF Sound, Formed, Listed
  <1>2. /\ p.pc = pc /\ p.could = could /\ p.kind = q.kind /\ p.needs = q.needs
        /\ p.list = q.list
    BY <1>1 DEF Request
  <1>3. pc \in Steps /\ pc \notin Listed
    BY DEF Steps, Gated, Able, Listed
  <1>4. p \in Request
    BY <1>1, <1>3, Zenon DEF Request
  <1> HIDE DEF p
  <1>5. Formed(p)
    BY <1>1, <1>2, <1>3, <1>4 DEF Formed, Listed
  <1>6. p.could \cup Range(p.list) = could
    BY <1>1, <1>2 DEF Range
  <1>7. Eligible(p)
    BY <1>2, <1>3, <1>6 DEF Eligible, Able, Listed
  <1>8. Ordered(p)
    BY <1>2 DEF Ordered
  <1> QED
    BY <1>5, <1>7, <1>8 DEF Sound, p

(* Arriving, choosing a profile and passing the gate of a pinned model. *)
LEMMA EarlySteps ==
    ASSUME RoutingInv, NEW r \in Requests, Arrive(r) \/ Gate(r) \/ ReadTargets(r)
    PROVE  RequestInv'
  <1> DEFINE q == req[r]
  <1>1. q \in Request /\ Sound(q) /\ live \in Policy /\ RequestInv
    BY DEF RoutingInv, RequestInv, ReloadInv, ReloadShapes
  <1>2. CASE Arrive(r)
    <2>1. PICK kind \in Kinds :
             req' = [req EXCEPT ![r] =
                      IF Strict /\ Unknown(kind.pin) THEN Ended
                      ELSE [Quiet EXCEPT !.pc = "gate", !.kind = kind,
                                         !.needs = capsRequired(kind), !.profile = Profile(kind)]]
      BY <1>2, Zenon DEF Arrive
    <2> DEFINE p == [Quiet EXCEPT !.pc = "gate", !.kind = kind,
                                  !.needs = capsRequired(kind), !.profile = Profile(kind)]
    <2>2. Quiet \in Request /\ IsFiniteSet({})
      BY AnsweredIsSound, FS_EmptySet DEF Sound, Formed
    <2>3. Profile(kind) \in Profiles
      <3>1. live.policy \in Versions
        BY <1>1 DEF Policy
      <3> QED
        BY <3>1 DEF Profile, Profiles
    <2>4. capsRequired(kind) \in SUBSET {"vision", "tools"}
      BY DEF capsRequired
    <2>5. "gate" \in Steps /\ "gate" \notin Gated /\ "gate" \notin Able /\ "gate" \notin Listed
      BY DEF Steps, Gated, Able, Listed
    <2>6. p \in Request
      BY <2>2, <2>3, <2>4, <2>5, Zenon DEF Request
    <2>7. p.pc = "gate" /\ p.kind = kind /\ p.could = {} /\ p.list = <<>>
      BY DEF Quiet
    <2> HIDE DEF p
    <2>8. Sound(p)
      BY <2>2, <2>5, <2>6, <2>7 DEF Sound, Formed, Eligible, Ordered
    <2>9. \/ req' = [req EXCEPT ![r] = Ended]
          \/ req' = [req EXCEPT ![r] = p]
      BY <2>1, Zenon DEF p
    <2> QED
      BY <1>1, <2>8, <2>9, AnsweredIsSound, OneRequestMoves
  <1>3. CASE Gate(r)
    <2> DEFINE p == [q EXCEPT !.pc = "targets"]
    <2>1. \/ req' = [req EXCEPT ![r] = Ended]
          \/ q.pc = "gate" /\ req' = [req EXCEPT ![r] = p]
      BY <1>3 DEF Gate, End, Goto
    <2>2. CASE q.pc = "gate" /\ req' = [req EXCEPT ![r] = p]
      <3>1. /\ "targets" \in Steps /\ "targets" \notin Gated /\ "targets" \notin Able
            /\ "targets" \notin Listed /\ "gate" \notin Listed
        BY DEF Steps, Gated, Able, Listed
      <3>2. p \in Request
        BY <1>1, <3>1 DEF Request
      <3>3. p.pc = "targets" /\ p.kind = q.kind /\ p.could = q.could /\ p.list = q.list
        BY <1>1 DEF Request
      <3>4. q.kind \in Kinds /\ q.list = <<>> /\ IsFiniteSet(q.could)
        BY <1>1, <2>2, <3>1 DEF Sound, Formed
      <3> HIDE DEF p, q
      <3>5. Sound(p)
        BY <3>1, <3>2, <3>3, <3>4 DEF Sound, Formed, Eligible, Ordered
      <3> QED
        BY <1>1, <2>2, <3>5, OneRequestMoves, Zenon
    <2> QED
      BY <1>1, <2>1, <2>2, AnsweredIsSound, OneRequestMoves
  <1>4. CASE ReadTargets(r)
    <2> DEFINE p == [q EXCEPT !.pc = "plan", !.targets = live.targets]
    <2>1. q.pc = "targets" /\ req' = [req EXCEPT ![r] = p]
      BY <1>4, Zenon DEF ReadTargets
    <2>2. /\ "plan" \in Steps /\ "plan" \notin Gated /\ "plan" \notin Able
          /\ "plan" \notin Listed /\ "targets" \notin Listed
      BY DEF Steps, Gated, Able, Listed
    <2>3. live.targets \in Versions \cup {Nil}
      BY <1>1 DEF Policy
    <2>4. p \in Request
      BY <1>1, <2>2, <2>3, Zenon DEF Request
    <2>5. p.pc = "plan" /\ p.kind = q.kind /\ p.could = q.could /\ p.list = q.list
      BY <1>1 DEF Request
    <2>6. q.kind \in Kinds /\ q.list = <<>> /\ IsFiniteSet(q.could)
      BY <1>1, <2>1, <2>2 DEF Sound, Formed
    <2> HIDE DEF p, q
    <2>7. Sound(p)
      BY <2>2, <2>4, <2>5, <2>6 DEF Sound, Formed, Eligible, Ordered
    <2> QED
      BY <1>1, <2>1, <2>7, OneRequestMoves, Zenon
  <1> QED
    BY <1>2, <1>3, <1>4

(* Planning, the credential and format gates, the capability filter, the   *)
(* rescue with its gates, and the filters of cooldown and context.         *)
LEMMA FilterSteps ==
    ASSUME RoutingInv, NEW r \in Requests,
           MakePlan(r) \/ FilterCapable(r) \/ Rescue(r) \/ Fit(r)
    PROVE  RequestInv'
  <1> DEFINE q == req[r]
             New(pc, could) == [q EXCEPT !.pc = pc, !.could = could, !.targets = Nil]
  <1>1. q \in Request /\ Sound(q) /\ live \in Policy /\ RequestInv
    BY DEF RoutingInv, RequestInv, ReloadInv, ReloadShapes
  <1>2. live.caps \in Versions /\ live.policy \in Versions /\ auto \in Snapshots \cup {<<>>}
    BY <1>1 DEF Policy, RoutingInv
  <1>3. /\ q.targets \in Versions \cup {Nil} /\ q.could \in SUBSET Attempts
        /\ IsFiniteSet(q.could)
        /\ q.pc \notin {"idle", "end"} => q.kind \in Kinds
        /\ q.pc \in Gated => \A a \in q.could : a \in Configured({a}, q.kind.path)
        /\ q.pc \in Able => \A a \in q.could : \A c \in q.needs : MayBeAble(a[2], c)
    BY <1>1, Zenon DEF Request, Sound, Formed, Eligible
  <1>4. \A S, path : /\ Configured(S, path) \in SUBSET S
                     /\ \A a \in Configured(S, path) : a \in Configured({a}, path)
    BY DEF Configured
  <1>5. \A a : Satisfies(a[2], q.needs) => \A c \in q.needs : MayBeAble(a[2], c)
    BY <1>2, IndexMayBeAble, Zenon
  <1>6. \A pc, could : With(r, could, pc) => req' = [req EXCEPT ![r] = New(pc, could)]
    BY Zenon DEF With
  <1>7. ASSUME NEW could \in SUBSET Attempts, IsFiniteSet(could),
               NEW pc \in {"caps", "rescue", "fit", "promote"}, With(r, could, pc),
               q.pc \in {"plan", "caps", "rescue", "fit"},
               \A a \in could : a \in Configured({a}, q.kind.path),
               pc \in {"fit", "promote"} =>
                  \A a \in could : \A c \in q.needs : MayBeAble(a[2], c)
        PROVE  RequestInv'
    <2>1. req' = [req EXCEPT ![r] = New(pc, could)]
      BY <1>6, <1>7, Zenon
    <2> HIDE DEF q
    <2>2. Sound(New(pc, could))
      BY <1>1, <1>7, FilteredIsSound, Zenon
    <2> QED
      BY <1>1, <2>1, <2>2, OneRequestMoves, Zenon
  <1>8. ASSUME End(r) PROVE RequestInv'
    BY <1>1, <1>8, AnsweredIsSound, OneRequestMoves, Zenon DEF End
  <1> HIDE DEF New
  <1>9. CASE MakePlan(r)
    <2> DEFINE P == Plan(q.targets, live.policy, q)
               C == Configured(P, q.kind.path)
               pc == IF q.needs = {} THEN "fit" ELSE "caps"
    <2>1. q.pc = "plan" /\ With(r, C, pc)
      BY <1>9 DEF MakePlan
    <2>2. P \in SUBSET Attempts /\ IsFiniteSet(P)
      BY <1>2, <1>3, <2>1, PlanIsKnown, Zenon
    <2>3. C \in SUBSET P /\ \A a \in C : a \in Configured({a}, q.kind.path)
      BY <1>4
    <2> HIDE DEF P, C
    <2>4. C \in SUBSET Attempts /\ IsFiniteSet(C)
      BY <2>2, <2>3, FS_Subset
    <2>5. pc \in {"caps", "fit"} /\ (pc = "fit" => q.needs = {})
      BY Zenon
    <2> HIDE DEF pc, q
    <2> QED
      BY <1>7, <2>1, <2>3, <2>4, <2>5
  <1>10. CASE FilterCapable(r)
    <2> DEFINE A == {a \in q.could : Satisfies(a[2], q.needs)}
               pc == IF A = {} THEN "rescue" ELSE "fit"
    <2>1. q.pc = "caps" /\ With(r, A, pc)
      BY <1>10 DEF FilterCapable
    <2>2. A \in SUBSET q.could /\ \A a \in A : \A c \in q.needs : MayBeAble(a[2], c)
      BY <1>5
    <2> HIDE DEF A
    <2>3. A \in SUBSET Attempts /\ IsFiniteSet(A)
      BY <1>3, <2>2, FS_Subset
    <2>4. \A a \in A : a \in Configured({a}, q.kind.path)
      BY <1>3, <2>1, <2>2 DEF Gated
    <2>5. pc \in {"rescue", "fit"}
      OBVIOUS
    <2> HIDE DEF pc, q
    <2> QED
      BY <1>7, <2>1, <2>2, <2>3, <2>4, <2>5
  <1>11. CASE Rescue(r)
    <2> DEFINE A == {a \in Pool : Satisfies(a[2], q.needs)}
               L == Regated(A, q.kind.path)
    <2>1. q.pc = "rescue" /\ (End(r) \/ With(r, L, "fit"))
      BY <1>11, Zenon DEF Rescue
    <2>2. A \in SUBSET Pool /\ \A a \in A : \A c \in q.needs : MayBeAble(a[2], c)
      BY <1>5
    <2> HIDE DEF A
    <2>3. L \in SUBSET A /\ \A a \in L : a \in Configured({a}, q.kind.path)
      BY <1>4 DEF Regated
    <2> HIDE DEF L
    <2>4. L \in SUBSET Attempts /\ IsFiniteSet(L)
      BY <1>1, <2>2, <2>3, PoolIsKnown, FS_Subset
    <2>5. \A a \in L : \A c \in q.needs : MayBeAble(a[2], c)
      BY <2>2, <2>3
    <2> HIDE DEF q
    <2> QED
      BY <1>7, <1>8, <2>1, <2>3, <2>4, <2>5, Zenon
  <1>12. CASE Fit(r)
    <2>1. q.pc = "fit"
      BY <1>12 DEF Fit
    <2>2. PICK up \in SUBSET q.could :
             LET left == {a \in up : Fits(a, q.kind)}
             IN IF left = {} THEN End(r) ELSE With(r, left, "promote")
      BY <1>12, Zenon DEF Fit
    <2> DEFINE L == {a \in up : Fits(a, q.kind)}
    <2>3. L \in SUBSET q.could /\ (End(r) \/ With(r, L, "promote"))
      BY <2>2
    <2> HIDE DEF L
    <2>4. L \in SUBSET Attempts /\ IsFiniteSet(L)
      BY <1>3, <2>3, FS_Subset, Zenon
    <2>5. \A a \in L : /\ a \in Configured({a}, q.kind.path)
                       /\ \A c \in q.needs : MayBeAble(a[2], c)
      BY <1>3, <2>1, <2>3, Zenon DEF Gated, Able
    <2> HIDE DEF q
    <2> QED
      BY <1>7, <1>8, <2>1, <2>3, <2>4, <2>5, Zenon
  <1> QED
    BY <1>9, <1>10, <1>11, <1>12

(* A function from 1 .. N is a list. *)
LEMMA FunctionIsList ==
    ASSUME NEW S, NEW N \in Nat, NEW f \in [1 .. N -> S]
    PROVE  f \in Seq(S) /\ Len(f) = N /\ Range(f) \subseteq S
  <1>1. f \in Seq(S) /\ Len(f) = N
    OBVIOUS
  <1> QED
    BY <1>1 DEF Range

(* The ranking by score, and the route of the session in front of it. *)
LEMMA OrderStep ==
    ASSUME RoutingInv, NEW r \in Requests, Order(r)
    PROVE  RequestInv'
  <1> DEFINE q == req[r]
             a == Route(SessionOf[r])
  <1>1. q \in Request /\ Sound(q) /\ RequestInv /\ PinsInv
    BY DEF RoutingInv, RequestInv
  <1>2. q.pc = "promote"
    BY DEF Order
  <1>3. PICK ranked \in Lists(q.could) :
           req' = [req EXCEPT ![r].pc = "rank", ![r].could = {}, ![r].pref = a,
                              ![r].list = Promote(ranked, a)]
    BY Zenon DEF Order
  <1>4. a \in Attempts \cup {NoRoute}
    <2>1. SessionOf[r] \in Sessions
      BY RoutingAssumption
    <2> QED
      BY <1>1, <2>1, LookedKeeps
  <1>5. /\ q.could \in SUBSET Attempts /\ IsFiniteSet(q.could) /\ q.kind \in Kinds
        /\ \A x \in q.could : x \in Configured({x}, q.kind.path)
        /\ \A x \in q.could : \A c \in q.needs : MayBeAble(x[2], c)
    BY <1>1, <1>2, Zenon DEF Request, Sound, Formed, Eligible, Gated, Able
  <1> DEFINE N == Cardinality(q.could)
             l == Promote(ranked, a)
             p == [q EXCEPT !.pc = "rank", !.could = {}, !.pref = a, !.list = l]
  <1>6. N \in Nat /\ ranked \in [1 .. N -> q.could] /\ IsInjective(ranked)
    BY <1>5, ListOfSet, Zenon
  <1> HIDE DEF a, q
  <1>7. /\ l \in [1 .. N -> q.could] /\ IsInjective(l)
        /\ a \in Range(l) => l[1] = a
    BY <1>6, PromoteMoves, Zenon
  <1> HIDE DEF l
  <1>8. Range(l) \subseteq q.could
    BY <1>6, <1>7, FunctionIsList, Zenon
  <1>9. l \in Seq(Attempts)
    <2>1. l \in [1 .. N -> Attempts]
      BY <1>5, <1>7
    <2> QED
      BY <1>6, <2>1, FunctionIsList
  <1>10. "rank" \in Steps /\ "rank" \in Listed
    BY DEF Steps, Gated, Able, Listed
  <1>11. p \in Request
    BY <1>1, <1>4, <1>9, <1>10, Zenon DEF Request
  <1>12. /\ p.pc = "rank" /\ p.could = {} /\ p.pref = a /\ p.list = l
         /\ p.kind = q.kind /\ p.needs = q.needs
    BY <1>1 DEF Request
  <1>13. req' = [req EXCEPT ![r] = p]
    BY <1>3, Zenon DEF q, l
  <1> HIDE DEF p
  <1>14. IsFiniteSet({})
    BY FS_EmptySet
  <1>15. Formed(p)
    BY <1>5, <1>10, <1>11, <1>12, <1>14, Zenon DEF Formed
  <1>16. Eligible(p)
    BY <1>5, <1>8, <1>12 DEF Eligible
  <1>17. Ordered(p)
    BY <1>7, <1>12 DEF Ordered
  <1> QED
    BY <1>1, <1>13, <1>15, <1>16, <1>17, OneRequestMoves, Zenon DEF Sound

(* What the interleaving makes of a list: a list of some of its attempts,  *)
(* whose neighbours alternate; an attempt in front of the old list whose   *)
(* provider's group goes first is in front of the new one.                 *)
LEMMA RankedList ==
    ASSUME NEW S, NEW list \in Seq(S), IsInjective(list),
           NEW left \in SUBSET DOMAIN list, left # {},
           NEW order \in Lists({list[i][1] : i \in left})
    PROVE  /\ Interleaved(list, left, order) \in Seq(S)
           /\ Interleaved(list, left, order) # <<>>
           /\ Range(Interleaved(list, left, order)) \subseteq Range(list)
           /\ Alternates(Interleaved(list, left, order))
           /\ \A a \in Range(Interleaved(list, left, order)) :
                 list[1] = a /\ order[1] = a[1] => Interleaved(list, left, order)[1] = a
           /\ \A a \in Range(Interleaved(list, left, order)) : a \in {list[i] : i \in left}
  <1> DEFINE il == Interleaved(list, left, order)
             N == Cardinality(left)
  <1>1. Len(list) \in Nat /\ DOMAIN list = 1 .. Len(list)
    OBVIOUS
  <1>2. Ranking(list, left, order)
    BY <1>1 DEF Ranking, Providers
  <1>3. PICK s \in [1 .. N -> left] :
           /\ N \in Nat
           /\ il = [n \in 1 .. N |-> list[s[n]]]
           /\ \A i \in left : \E n \in 1 .. N : s[n] = i
    BY <1>2, InterleavedList
  <1>4. \A i \in left : list[i] \in S /\ list[i] \in Range(list)
    BY <1>1 DEF Range
  <1> HIDE DEF il, N
  <1>5. \A n \in 1 .. N : il[n] = list[s[n]] /\ s[n] \in left
    BY <1>3
  <1>6. il \in [1 .. N -> S]
    BY <1>3, <1>4
  <1>7. il \in Seq(S) /\ Len(il) = N /\ DOMAIN il = 1 .. N
    BY <1>3, <1>6, FunctionIsList
  <1>8. il # <<>>
    <2>1. PICK n \in 1 .. N : TRUE
      BY <1>3, Zenon
    <2>2. Len(il) # 0
      BY <1>3, <1>7, <2>1
    <2>3. Len(<<>>) = 0
      OBVIOUS
    <2> QED
      BY <2>2, <2>3, Zenon
  <1>9. \A a \in Range(il) : \E n \in 1 .. N : il[n] = a
    BY <1>7 DEF Range
  <1>10. Range(il) \subseteq Range(list)
    BY <1>4, <1>5, <1>9
  <1>11. Alternates(il)
    <2> SUFFICES ASSUME NEW n \in 1 .. N, NEW k \in 1 .. N, n + 1 < k,
                        il[n][1] = il[n + 1][1]
                 PROVE  il[k][1] = il[n][1]
      BY <1>7 DEF Alternates
    <2>1. n \in Nat /\ k \in Nat /\ 1 <= n /\ k <= N
      BY <1>3
    <2> QED
      BY <1>2, <2>1, NeighboursOfOneProvider DEF il, N
  <1>12. ASSUME NEW a \in Range(il), list[1] = a, order[1] = a[1] PROVE il[1] = a
    <2>1. PICK n \in 1 .. N : il[n] = a
      BY <1>9
    <2>2. s[n] \in left /\ list[s[n]] = list[1]
      BY <1>5, <1>12, <2>1
    <2>3. s[n] \in DOMAIN list /\ 1 \in DOMAIN list
      BY <1>1, <2>2
    <2>4. s[n] = 1
      BY <2>2, <2>3, Zenon DEF IsInjective
    <2>5. 1 \in left /\ order[1] = list[1][1]
      BY <1>12, <2>2, <2>4
    <2> QED
      BY <1>2, <1>12, <2>5, FirstGroupGoesFirst DEF il
  <1>13. \A a \in Range(il) : a \in {list[i] : i \in left}
    BY <1>5, <1>9
  <1> QED
    BY <1>7, <1>8, <1>10, <1>11, <1>12, <1>13, Zenon DEF il

(* Grouping by provider, sorting the groups and interleaving them. *)
LEMMA RankStep ==
    ASSUME RoutingInv, NEW r \in Requests, Rank(r)
    PROVE  RequestInv'
  <1> DEFINE q == req[r]
             list == q.list
             again == Route(SessionOf[r])
  <1>1. q \in Request /\ Sound(q) /\ RequestInv /\ PinsInv
    BY DEF RoutingInv, RequestInv
  <1>2. q.pc = "rank"
    BY DEF Rank
  <1>3. PICK left \in SUBSET DOMAIN list : \E order \in Lists({list[i][1] : i \in left}) :
              /\ again \in {list[i] : i \in left} => order[1] = again[1]
              /\ IF left = {} THEN End(r)
                 ELSE req' = [req EXCEPT ![r].pc = "reserve",
                                         ![r].list = Interleaved(list, left, order),
                                         ![r].again = again]
    BY Zenon DEF Rank
  <1>4. PICK order \in Lists({list[i][1] : i \in left}) :
              /\ again \in {list[i] : i \in left} => order[1] = again[1]
              /\ IF left = {} THEN End(r)
                 ELSE req' = [req EXCEPT ![r].pc = "reserve",
                                         ![r].list = Interleaved(list, left, order),
                                         ![r].again = again]
    BY <1>3, Zenon
  <1>5. again \in Attempts \cup {NoRoute}
    <2>1. SessionOf[r] \in Sessions
      BY RoutingAssumption
    <2> QED
      BY <1>1, <2>1, LookedKeeps
  <1>6. /\ list \in Seq(Attempts) /\ q.kind \in Kinds /\ IsFiniteSet(q.could)
        /\ \A x \in q.could \cup Range(list) : x \in Configured({x}, q.kind.path)
        /\ \A x \in q.could \cup Range(list) : \A c \in q.needs : MayBeAble(x[2], c)
        /\ IsInjective(list)
        /\ q.pref \in Range(list) => list[1] = q.pref
    BY <1>1, <1>2, Zenon DEF Request, Sound, Formed, Eligible, Ordered, Gated, Able, Listed
  <1>7. CASE left = {}
    <2>1. req' = [req EXCEPT ![r] = Ended]
      BY <1>4, <1>7 DEF End
    <2> QED
      BY <1>1, <2>1, AnsweredIsSound, OneRequestMoves, Zenon
  <1>8. CASE left # {}
    <2> DEFINE il == Interleaved(list, left, order)
               p == [q EXCEPT !.pc = "reserve", !.list = il, !.again = again]
    <2>1. req' = [req EXCEPT ![r] = p]
      BY <1>4, <1>8, Zenon
    <2>2. again \in {list[i] : i \in left} => order[1] = again[1]
      BY <1>4
    <2> HIDE DEF list, again
    <2>3. /\ il \in Seq(Attempts) /\ il # <<>> /\ Range(il) \subseteq Range(list)
          /\ Alternates(il)
          /\ \A a \in Range(il) : list[1] = a /\ order[1] = a[1] => il[1] = a
          /\ \A a \in Range(il) : a \in {list[i] : i \in left}
      BY <1>6, <1>8, RankedList, Zenon
    <2> HIDE DEF il
    <2>4. ASSUME q.pref = again, q.pref \in Range(il) PROVE il[1] = q.pref
      <3>1. list[1] = q.pref
        BY <1>6, <2>3, <2>4, Zenon
      <3>2. order[1] = again[1]
        BY <2>2, <2>3, <2>4, Zenon
      <3> QED
        BY <2>3, <2>4, <3>1, <3>2, Zenon
    <2>5. "reserve" \in Steps /\ "reserve" \in Listed
      BY DEF Steps, Gated, Able, Listed
    <2>6. p \in Request
      BY <1>1, <1>5, <2>3, <2>5, Zenon DEF Request
    <2>7. /\ p.pc = "reserve" /\ p.could = q.could /\ p.pref = q.pref /\ p.list = il
          /\ p.kind = q.kind /\ p.needs = q.needs /\ p.again = again
      BY <1>1 DEF Request
    <2> HIDE DEF p, q
    <2>8. Formed(p)
      BY <1>6, <2>3, <2>5, <2>6, <2>7, Zenon DEF Formed
    <2>9. Eligible(p)
      BY <1>6, <2>3, <2>7 DEF Eligible
    <2>10. Ordered(p)
      BY <2>3, <2>4, <2>7 DEF Ordered
    <2> QED
      BY <1>1, <2>1, <2>6, <2>8, <2>9, <2>10, OneRequestMoves, Zenon DEF Sound
  <1> QED
    BY <1>7, <1>8

(* A stretch of a list has its elements. *)
LEMMA PartOfList ==
    ASSUME NEW S, NEW list \in Seq(S), NEW m \in Nat \ {0}, NEW n \in Nat, n <= Len(list)
    PROVE  /\ SubSeq(list, m, n) \in Seq(S)
           /\ Len(SubSeq(list, m, n)) = IF m <= n THEN n - m + 1 ELSE 0
           /\ \A i \in 1 .. Len(SubSeq(list, m, n)) : SubSeq(list, m, n)[i] = list[m + i - 1]
           /\ Range(SubSeq(list, m, n)) \subseteq Range(list)
  <1> DEFINE t == SubSeq(list, m, n)
  <1>1. Len(list) \in Nat /\ DOMAIN list = 1 .. Len(list) /\ \A i \in 1 .. Len(list) : list[i] \in S
    OBVIOUS
  <1>2. /\ t \in Seq(S)
        /\ Len(t) = IF m <= n THEN n - m + 1 ELSE 0
        /\ \A i \in 1 .. Len(t) : t[i] = list[m + i - 1]
    BY <1>1
  <1> HIDE DEF t
  <1>3. DOMAIN t = 1 .. Len(t) /\ \A i \in 1 .. Len(t) : m + i - 1 \in 1 .. Len(list)
    BY <1>1, <1>2
  <1>4. Range(t) \subseteq Range(list)
    BY <1>1, <1>2, <1>3, Zenon DEF Range
  <1> QED
    BY <1>2, <1>4 DEF t

(* The cut to MaxAttempts leaves a list that is not empty. *)
LEMMA KeptList ==
    ASSUME NEW S, NEW list \in Seq(S), list # <<>>
    PROVE  Kept(list) \in Seq(S) /\ Kept(list) # <<>> /\ Range(Kept(list)) \subseteq Range(list)
  <1> DEFINE n == IF Len(list) < MaxAttempts THEN Len(list) ELSE MaxAttempts
  <1>1. n \in Nat \ {0} /\ n <= Len(list) /\ 1 \in Nat \ {0}
    BY RoutingAssumption
  <1>2. Kept(list) = SubSeq(list, 1, n)
    BY DEF Kept
  <1> HIDE DEF n
  <1>3. /\ SubSeq(list, 1, n) \in Seq(S)
        /\ Len(SubSeq(list, 1, n)) = IF 1 <= n THEN n - 1 + 1 ELSE 0
        /\ Range(SubSeq(list, 1, n)) \subseteq Range(list)
    BY <1>1, PartOfList
  <1>4. Len(SubSeq(list, 1, n)) # 0
    BY <1>1, <1>3
  <1> QED
    BY <1>2, <1>3, <1>4

(* attemptTimeoutForProfile only shrinks the time. *)
LEMMA WaitIsBounded == \A profile : Wait(profile) \in 1 .. RequestTimeout
  <1> TAKE profile
  <1> DEFINE own == parseProfileTimeouts(live.timeouts)
  <1>1. profile \in DOMAIN own => own[profile] \in 1 .. MaxProfileTimeout
    BY DEF parseProfileTimeouts
  <1> HIDE DEF own
  <1>2. Wait(profile) = IF profile \in DOMAIN own /\ own[profile] < RequestTimeout
                        THEN own[profile] ELSE RequestTimeout
    BY DEF Wait, own
  <1> QED
    BY <1>1, <1>2, RoutingAssumption

(* The reservation of the first attempt and the cut of the list. *)
LEMMA ReserveStep ==
    ASSUME RoutingInv, NEW r \in Requests, Reserve(r)
    PROVE  RequestInv'
  <1> DEFINE q == req[r]
  <1>1. q \in Request /\ Sound(q) /\ RequestInv
    BY DEF RoutingInv, RequestInv
  <1>2. q.pc = "reserve"
    BY DEF Reserve
  <1>3. PICK n \in 0 .. Len(q.list) :
           LET left == SubSeq(q.list, n + 1, Len(q.list))
           IN IF left = <<>> THEN End(r)
              ELSE req' = [req EXCEPT ![r].pc = "try", ![r].list = Kept(left),
                                      ![r].wait = Wait(q.profile),
                                      ![r].pref = NoRoute, ![r].again = NoRoute]
    BY Zenon DEF Reserve
  <1> DEFINE left == SubSeq(q.list, n + 1, Len(q.list))
             l == Kept(left)
             w == Wait(q.profile)
             p == [q EXCEPT !.pc = "try", !.list = l, !.wait = w,
                            !.pref = NoRoute, !.again = NoRoute]
  <1>4. CASE left = <<>>
    <2>1. req' = [req EXCEPT ![r] = Ended]
      BY <1>3, <1>4 DEF End
    <2> QED
      BY <1>1, <2>1, AnsweredIsSound, OneRequestMoves, Zenon
  <1>5. CASE left # <<>>
    <2>1. req' = [req EXCEPT ![r] = p]
      BY <1>3, <1>5, Zenon
    <2>2. /\ q.list \in Seq(Attempts) /\ q.kind \in Kinds /\ IsFiniteSet(q.could)
          /\ \A x \in q.could \cup Range(q.list) : x \in Configured({x}, q.kind.path)
          /\ \A x \in q.could \cup Range(q.list) : \A c \in q.needs : MayBeAble(x[2], c)
      BY <1>1, <1>2, Zenon DEF Request, Sound, Formed, Eligible, Gated, Able, Listed
    <2> HIDE DEF q
    <2>3. n + 1 \in Nat \ {0} /\ Len(q.list) \in Nat /\ Len(q.list) <= Len(q.list)
      BY <2>2
    <2>4. left \in Seq(Attempts) /\ Range(left) \subseteq Range(q.list)
      BY <2>2, <2>3, PartOfList
    <2> HIDE DEF left
    <2>5. l \in Seq(Attempts) /\ l # <<>> /\ Range(l) \subseteq Range(q.list)
      BY <1>5, <2>4, KeptList
    <2>6. w \in 1 .. RequestTimeout
      BY WaitIsBounded
    <2> HIDE DEF l, w
    <2>7. "try" \in Steps /\ "try" \in Listed
      BY DEF Steps, Gated, Able, Listed
    <2>8. p \in Request
      BY <1>1, <2>5, <2>6, <2>7, Zenon DEF Request
    <2>9. /\ p.pc = "try" /\ p.could = q.could /\ p.list = l
          /\ p.kind = q.kind /\ p.needs = q.needs
      BY <1>1 DEF Request
    <2> HIDE DEF p
    <2>10. Formed(p)
      BY <2>2, <2>5, <2>7, <2>8, <2>9 DEF Formed
    <2>11. Eligible(p)
      BY <2>2, <2>5, <2>9 DEF Eligible
    <2>12. Ordered(p)
      BY <2>9 DEF Ordered
    <2> QED
      BY <1>1, <2>1, <2>10, <2>11, <2>12, OneRequestMoves, Zenon DEF Sound
  <1> QED
    BY <1>4, <1>5

(* Building the body of an attempt, and its success or failure. *)
LEMMA AttemptSteps ==
    ASSUME RoutingInv, NEW r \in Requests, Build(r) \/ Succeed(r) \/ Fail(r) \/ Finish(r)
    PROVE  RequestInv'
  <1> DEFINE q == req[r]
  <1>1. q \in Request /\ Sound(q) /\ RequestInv
    BY DEF RoutingInv, RequestInv
  <1>2. ASSUME q.pc \in {"try", "sent"}
        PROVE  /\ q.list \in Seq(Attempts) /\ q.kind \in Kinds /\ IsFiniteSet(q.could)
               /\ q.list # <<>>
               /\ \A x \in q.could \cup Range(q.list) : x \in Configured({x}, q.kind.path)
               /\ \A x \in q.could \cup Range(q.list) : \A c \in q.needs : MayBeAble(x[2], c)
    BY <1>1, <1>2, Zenon DEF Request, Sound, Formed, Eligible, Gated, Able, Listed
  <1>3. ASSUME End(r) PROVE RequestInv'
    BY <1>1, <1>3, AnsweredIsSound, OneRequestMoves, Zenon DEF End
  <1>4. CASE Build(r)
    <2> DEFINE p == [q EXCEPT !.pc = "sent", !.body = Shape(q)]
    <2>1. q.pc = "try" /\ req' = [req EXCEPT ![r] = p]
      BY <1>4, Zenon DEF Build
    <2>2. live.caps \in Versions /\ auto \in Snapshots \cup {<<>>}
      BY DEF RoutingInv, ReloadInv, ReloadShapes, Policy
    <2> HIDE DEF q
    <2>3. Shape(q) \in {None, "effort", "reasoning"}
      BY DEF Shape
    <2>4. Shape(q) # None => Satisfies(q.list[1][2], {Shape(q)})
      BY DEF Shape
    <2>5. Shape(q) # None => MayBeAble(q.list[1][2], Shape(q))
      BY <2>2, <2>4, IndexMayBeAble
    <2>6. "sent" \in Steps /\ "sent" \in Listed
      BY DEF Steps, Gated, Able, Listed
    <2>7. p \in Request
      BY <1>1, <2>3, <2>6, Zenon DEF Request
    <2>8. /\ p.pc = "sent" /\ p.could = q.could /\ p.list = q.list
          /\ p.kind = q.kind /\ p.needs = q.needs /\ p.body = Shape(q)
      BY <1>1 DEF Request
    <2> HIDE DEF p
    <2>9. Formed(p)
      BY <1>2, <2>1, <2>6, <2>7, <2>8, Zenon DEF Formed
    <2>10. Eligible(p)
      BY <1>2, <2>1, <2>5, <2>8, Zenon DEF Eligible
    <2>11. Ordered(p)
      BY <2>8, Zenon DEF Ordered
    <2> QED
      BY <1>1, <2>1, <2>9, <2>10, <2>11, OneRequestMoves, Zenon DEF Sound
  <1>5. CASE Succeed(r)
    BY <1>3, <1>5, Zenon DEF Succeed
  <1>6. CASE Fail(r)
    <2> DEFINE p == [q EXCEPT !.list = Tail(q.list), !.pc = "try", !.body = None]
    <2>1. q.pc = "sent" /\ (End(r) \/ (Len(q.list) # 1 /\ req' = [req EXCEPT ![r] = p]))
      BY <1>6, Zenon DEF Fail
    <2>2. ASSUME Len(q.list) # 1, req' = [req EXCEPT ![r] = p] PROVE RequestInv'
      <3> HIDE DEF q
      <3>1. q.list \in Seq(Attempts) /\ q.list # <<>>
        BY <1>2, <2>1
      <3>2. Tail(q.list) \in Seq(Attempts) /\ Tail(q.list) # <<>>
        <4> DEFINE l == q.list
        <4>1. l \in Seq(Attempts) /\ l # <<>> /\ Len(l) # 1
          BY <2>2, <3>1
        <4> HIDE DEF l
        <4>2. Tail(l) \in Seq(Attempts) /\ Len(Tail(l)) = Len(l) - 1
          BY <4>1
        <4>3. Len(l) # 0
          BY <4>1
        <4>4. Len(Tail(l)) # 0
          BY <4>1, <4>2, <4>3
        <4>5. Len(<<>>) = 0
          OBVIOUS
        <4>6. Tail(l) # <<>>
          BY <4>4, <4>5, Zenon
        <4> QED
          BY <4>2, <4>6 DEF l
      <3>3. Range(Tail(q.list)) \subseteq Range(q.list)
        BY <3>1 DEF Range
      <3>4. "try" \in Steps /\ "try" \in Listed
        BY DEF Steps, Gated, Able, Listed
      <3>5. p \in Request
        BY <1>1, <3>2, <3>4, Zenon DEF Request
      <3>6. /\ p.pc = "try" /\ p.could = q.could /\ p.list = Tail(q.list)
            /\ p.kind = q.kind /\ p.needs = q.needs
        BY <1>1 DEF Request
      <3> HIDE DEF p
      <3>7. Formed(p)
        BY <1>2, <2>1, <3>2, <3>4, <3>5, <3>6 DEF Formed
      <3>8. Eligible(p)
        BY <1>2, <2>1, <3>3, <3>6, Zenon DEF Eligible
      <3>9. Ordered(p)
        BY <3>6, Zenon DEF Ordered
      <3> QED
        BY <1>1, <2>2, <3>7, <3>8, <3>9, OneRequestMoves, Zenon DEF Sound
    <2> QED
      BY <1>3, <2>1, <2>2
  <1>7. CASE Finish(r)
    BY <1>1, <1>7, AnsweredIsSound, OneRequestMoves, Zenon DEF Finish
  <1> QED
    BY <1>4, <1>5, <1>6, <1>7

(* What looks, pins, forgets and the clock do to the store. *)
LEMMA PinsStep == RoutingInv /\ [Next]_vars => PinsInv'
  <1> SUFFICES ASSUME RoutingInv, [Next]_vars PROVE PinsInv'
    OBVIOUS
  <1>1. PinsInv /\ RequestInv
    BY DEF RoutingInv
  <1>2. \A r \in Requests : SessionOf[r] \in Sessions
    BY RoutingAssumption
  <1>3. ASSUME pins' = pins PROVE PinsInv'
    BY <1>1, <1>3 DEF PinsInv
  <1>4. ASSUME NEW p, Store(p), Len(p) <= MaxPins, pins' = p PROVE PinsInv'
    BY <1>4 DEF PinsInv
  <1>5. CASE Tick
    <2> DEFINE p == [i \in DOMAIN pins |->
                       [pins[i] EXCEPT !.age = IF pins[i].age > TTL THEN pins[i].age
                                               ELSE pins[i].age + 1]]
    <2>1. pins' = p
      BY <1>5 DEF Tick
    <2>2. /\ pins \in Seq(Entries) /\ Len(pins) \in Nat /\ DOMAIN pins = 1 .. Len(pins)
          /\ Len(pins) <= MaxPins
          /\ \A i, j \in 1 .. Len(pins) : pins[i].session = pins[j].session => i = j
      BY <1>1 DEF PinsInv, Store
    <2>3. ASSUME NEW i \in 1 .. Len(pins) PROVE p[i] \in Entries /\ p[i].session = pins[i].session
      <3>1. pins[i] \in Entries
        BY <2>2
      <3>2. pins[i].age \in Nat
        BY <3>1 DEF Entries
      <3> DEFINE age == IF pins[i].age > TTL THEN pins[i].age ELSE pins[i].age + 1
      <3>3. age \in Nat
        BY <3>2
      <3>4. p[i] = [pins[i] EXCEPT !.age = age]
        BY <2>2
      <3> HIDE DEF age, p
      <3> QED
        BY <3>1, <3>3, <3>4 DEF Entries
    <2>4. p = [i \in 1 .. Len(pins) |-> p[i]]
      BY <2>2
    <2> HIDE DEF p
    <2>5. p \in [1 .. Len(pins) -> Entries]
      BY <2>3, <2>4
    <2>6. p \in Seq(Entries) /\ Len(p) = Len(pins)
      BY <2>2, <2>5, FunctionIsList
    <2>7. Store(p)
      BY <2>2, <2>3, <2>6 DEF Store
    <2> QED
      BY <1>4, <2>1, <2>2, <2>6, <2>7
  <1>6. CASE Elsewhere
    <2>1. PICK s \in Sessions :
             \/ pins' = Looked(s)
             \/ \E a \in Routes : pins' = Pinned(s, a) \/ pins' = Forgotten(s, a)
      BY <1>6 DEF Elsewhere
    <2>2. Routes \subseteq Attempts
      BY DEF Attempts
    <2> QED
      BY <1>1, <1>4, <2>1, <2>2, LookedKeeps, PinnedKeeps, ForgottenKeeps
  <1>7. ASSUME NEW r \in Requests, Order(r) \/ Rank(r) PROVE PinsInv'
    <2>1. pins' = Looked(SessionOf[r])
      BY <1>7, Zenon DEF Order, Rank
    <2> QED
      BY <1>1, <1>2, <1>4, <2>1, LookedKeeps
  <1>8. ASSUME NEW r \in Requests, Succeed(r) PROVE PinsInv'
    <2>1. req[r].pc = "sent" /\ pins' = Pinned(SessionOf[r], req[r].list[1])
      BY <1>8 DEF Succeed
    <2>2. req[r].list \in Seq(Attempts) /\ req[r].list # <<>>
      BY <1>1, <2>1, Zenon DEF RequestInv, Sound, Formed, Request
    <2>3. req[r].list[1] \in Attempts
      BY <2>2
    <2> QED
      BY <1>1, <1>2, <1>4, <2>1, <2>3, PinnedKeeps
  <1>9. ASSUME NEW r \in Requests, Fail(r) PROVE PinsInv'
    <2>1. pins' = Forgotten(SessionOf[r], req[r].list[1])
      BY <1>9 DEF Fail
    <2> QED
      BY <1>1, <1>4, <2>1, ForgottenKeeps
  <1>10. \/ pins' = pins \/ Tick \/ Elsewhere
         \/ \E r \in Requests : Order(r) \/ Rank(r) \/ Succeed(r) \/ Fail(r)
    BY Zenon DEF Next, vars, config, Edit, Refresh, BeginReload, RefuseReload, SetPolicy, SetPart,
           Arrive, Gate, ReadTargets, MakePlan, FilterCapable, Rescue, Fit, Reserve, Build, Finish
  <1> QED
    BY <1>3, <1>5, <1>6, <1>7, <1>8, <1>9, <1>10

(* The requests, step by step. *)
LEMMA RequestStep == RoutingInv /\ [Next]_vars => RequestInv'
  <1> SUFFICES ASSUME RoutingInv, [Next]_vars PROVE RequestInv'
    OBVIOUS
  <1>1. CASE UNCHANGED req
    BY <1>1 DEF RoutingInv, RequestInv
  <1>2. \/ UNCHANGED req
        \/ \E r \in Requests : Arrive(r) \/ Gate(r) \/ ReadTargets(r)
        \/ \E r \in Requests : MakePlan(r) \/ FilterCapable(r) \/ Rescue(r) \/ Fit(r)
        \/ \E r \in Requests : Order(r)
        \/ \E r \in Requests : Rank(r)
        \/ \E r \in Requests : Reserve(r)
        \/ \E r \in Requests : Build(r) \/ Succeed(r) \/ Fail(r) \/ Finish(r)
    BY DEF Next, vars, config, Edit, Refresh, Tick, Elsewhere, BeginReload, RefuseReload,
           SetPolicy, SetPart
  <1> QED
    BY <1>1, <1>2, EarlySteps, FilterSteps, OrderStep, RankStep, ReserveStep, AttemptSteps

(* A service that has just started satisfies the invariant. *)
LEMMA RoutingInit == Init => RoutingInv
  <1> SUFFICES ASSUME Init PROVE RoutingInv
    OBVIOUS
  <1>1. auto \in Snapshots \cup {<<>>}
    BY DEF Init
  <1>2. PinsInv
    <2>1. <<>> \in Seq(Entries) /\ Len(<<>>) = 0
      OBVIOUS
    <2> QED
      BY <2>1, RoutingAssumption DEF Init, PinsInv, Store
  <1>3. RequestInv
    <2>1. Quiet \in Request /\ Sound(Quiet)
      BY AnsweredIsSound DEF Sound, Formed
    <2> QED
      BY <2>1 DEF Init, RequestInv
  <1> QED
    BY <1>1, <1>2, <1>3, ReloadInit DEF RoutingInv

(* Every step of a reload, a refresh, a request or the clock keeps it. *)
LEMMA RoutingStep == RoutingInv /\ [Next]_vars => RoutingInv'
  <1> SUFFICES ASSUME RoutingInv, [Next]_vars PROVE RoutingInv'
    OBVIOUS
  <1>1. auto' \in Snapshots \cup {<<>>}
    <2>1. auto' = auto \/ auto' \in Fetched
      <3>1. ASSUME NEW r \in Requests, Handles(r) PROVE auto' = auto
        BY <3>1, HandlersOnlyRead, Zenon
      <3>2. ASSUME NEW k \in Reloaders,
                   BeginReload(k) \/ RefuseReload(k) \/ SetPolicy(k) \/ SetPart(k)
            PROVE  auto' = auto
        BY <3>2, Zenon DEF BeginReload, RefuseReload, SetPolicy, SetPart
      <3>3. CASE Edit \/ Refresh \/ Tick \/ Elsewhere \/ UNCHANGED vars
        BY <3>3 DEF Edit, Refresh, Tick, Elsewhere, config, vars
      <3> QED
        BY <3>1, <3>2, <3>3, Zenon DEF Next, Handles
    <2> QED
      BY <2>1 DEF RoutingInv, Fetched
  <1>2. ReloadInv
    BY DEF RoutingInv
  <1> QED
    BY <1>1, <1>2, ReloadStep, PinsStep, RequestStep DEF RoutingInv

(* The inductive invariant of the module. *)
THEOREM RoutingAlways == Spec => []RoutingInv
  BY RoutingInit, RoutingStep, PTL DEF Spec

(* Under every interleaving of reloads, refreshes and requests, the parts  *)
(* of the live policy are versions of the file, the affinity store keeps   *)
(* one route per session within maxEntries, a request is only ever offered *)
(* attempts that some version of the policy or its own pin names, and no   *)
(* profile's timeout gives an attempt more time than the request has.      *)
THEOREM RoutingTypeOK == Spec => []TypeOK
  <1>1. RoutingInv => TypeOK
    <2> SUFFICES ASSUME RoutingInv PROVE TypeOK
      OBVIOUS
    <2>1. disk \in Versions /\ live \in Policy
      BY DEF RoutingInv, ReloadInv, ReloadShapes
    <2>2. /\ Len(pins) <= MaxPins
          /\ \A i, j \in DOMAIN pins : pins[i].session = pins[j].session => i = j
      BY DEF RoutingInv, PinsInv, Store
    <2>3. ASSUME NEW r \in Requests
          PROVE  /\ req[r].wait \in 1 .. RequestTimeout
                 /\ req[r].could \subseteq Attempts
                 /\ Range(req[r].list) \subseteq Attempts
      <3>1. req[r] \in Request
        BY DEF RoutingInv, RequestInv
      <3>2. req[r].list \in Seq(Attempts)
        BY <3>1 DEF Request
      <3>3. Range(req[r].list) \subseteq Attempts
        BY <3>2 DEF Range
      <3> QED
        BY <3>1, <3>3 DEF Request
    <2> QED
      BY <2>1, <2>2, <2>3 DEF TypeOK, Policy
  <1> QED
    BY <1>1, RoutingAlways, PTL

(* dispatchChain offers and sends nothing that has not passed its gates,   *)
(* whatever is reloaded or refreshed between them, and whether the list    *)
(* comes from the plan or from capabilityRescue.                           *)
THEOREM OnlyEligibleIsTried == Spec => []OnlyEligible
  <1>1. RoutingInv => OnlyEligible
    BY Zenon DEF RoutingInv, RequestInv, Sound, Eligible, OnlyEligible, Gated, Able, Listed
  <1> QED
    BY <1>1, RoutingAlways, PTL

(* The route of a session that is the same at both looks and still in the  *)
(* running comes first out of quotaRankAndReserve, for any plan and any    *)
(* order of the providers.                                                 *)
THEOREM SessionRouteGoesFirst == Spec => []RouteGoesFirst
  <1>1. RoutingInv => RouteGoesFirst
    BY DEF RoutingInv, RequestInv, Sound, Ordered, RouteGoesFirst
  <1> QED
    BY <1>1, RoutingAlways, PTL

(* Truncation to MaxAttempts, when it is more than one, never leaves the   *)
(* attempts of one provider only when another one's are in the rest of the *)
(* list, however many attempts lost the race for their quota.              *)
THEOREM AlternativeIsKept == Spec => []KeepsAlternative
  <1>1. RoutingInv => KeepsAlternative
    <2> SUFFICES ASSUME RoutingInv, MaxAttempts > 1, NEW r \in Requests, req[r].pc = "reserve",
                        NEW n \in DOMAIN req[r].list
                 PROVE  LET rest == SubSeq(req[r].list, n, Len(req[r].list))
                        IN (\E a, b \in Range(rest) : a[1] # b[1])
                             => \E a, b \in Range(Kept(rest)) : a[1] # b[1]
      BY DEF KeepsAlternative
    <2> DEFINE list == req[r].list
               rest == SubSeq(list, n, Len(list))
    <2>1. list \in Seq(Attempts) /\ Alternates(list)
      BY Zenon DEF RoutingInv, RequestInv, Sound, Formed, Ordered, Request
    <2> HIDE DEF list
    <2>2. Len(list) \in Nat /\ n \in 1 .. Len(list) /\ MaxAttempts \in Nat
      BY <2>1, RoutingAssumption DEF list
    <2>3. /\ rest \in Seq(Attempts) /\ DOMAIN rest = 1 .. Len(rest)
          /\ Len(rest) = Len(list) - n + 1
          /\ \A i \in 1 .. Len(rest) : rest[i] = list[n + i - 1]
      <3>1. n \in Nat \ {0} /\ Len(list) <= Len(list)
        BY <2>2
      <3>2. /\ rest \in Seq(Attempts)
            /\ Len(rest) = IF n <= Len(list) THEN Len(list) - n + 1 ELSE 0
            /\ \A i \in 1 .. Len(rest) : rest[i] = list[n + i - 1]
        BY <2>1, <2>2, <3>1, PartOfList
      <3> QED
        BY <2>2, <3>2
    <2> HIDE DEF rest
    <2>4. SUFFICES ASSUME NEW a \in Range(rest), NEW b \in Range(rest), a[1] # b[1]
                   PROVE  \E x, y \in Range(Kept(rest)) : x[1] # y[1]
      BY DEF list, rest
    <2>5. PICK i \in 1 .. Len(rest) : rest[i] = a
      BY <2>3 DEF Range
    <2>6. PICK j \in 1 .. Len(rest) : rest[j] = b
      BY <2>3 DEF Range
    <2>7. Len(rest) \in Nat /\ Len(rest) > 1
      BY <2>3, <2>4, <2>5, <2>6
    <2>8. rest[1][1] # rest[2][1]
      <3> SUFFICES ASSUME rest[1][1] = rest[2][1] PROVE FALSE
        OBVIOUS
      <3>1. rest[1] = list[n] /\ rest[2] = list[n + 1]
        BY <2>2, <2>3, <2>7
      <3>2. ASSUME NEW k \in 1 .. Len(rest) PROVE rest[k][1] = rest[1][1]
        <4>1. CASE k <= 2
          BY <2>7, <4>1
        <4>2. CASE k > 2
          <5>1. n + k - 1 \in 1 .. Len(list) /\ n + 1 < n + k - 1
            BY <2>2, <2>3, <4>2
          <5>2. rest[k] = list[n + k - 1]
            BY <2>3, Zenon
          <5>3. n \in 1 .. Len(list)
            BY <2>2, <2>3, <4>2
          <5>4. list[n][1] = list[n + 1][1]
            BY <3>1, Zenon
          <5>5. list[n + k - 1][1] = list[n][1]
            BY <2>1, <5>1, <5>3, <5>4, Zenon DEF Alternates
          <5> QED
            BY <3>1, <5>2, <5>5, Zenon
        <4> QED
          BY <2>7, <4>1, <4>2
      <3> QED
        BY <2>4, <2>5, <2>6, <3>2
    <2> DEFINE m == IF Len(rest) < MaxAttempts THEN Len(rest) ELSE MaxAttempts
    <2>9. m \in Nat /\ m <= Len(rest) /\ 2 <= m /\ 1 \in Nat \ {0}
      BY <2>2, <2>7
    <2>10. Kept(rest) = SubSeq(rest, 1, m)
      BY DEF Kept
    <2> HIDE DEF m
    <2>11. /\ Kept(rest) \in Seq(Attempts) /\ Len(Kept(rest)) = m
           /\ \A k \in 1 .. m : Kept(rest)[k] = rest[k]
      <3>1. /\ SubSeq(rest, 1, m) \in Seq(Attempts)
            /\ Len(SubSeq(rest, 1, m)) = IF 1 <= m THEN m - 1 + 1 ELSE 0
            /\ \A k \in 1 .. Len(SubSeq(rest, 1, m)) : SubSeq(rest, 1, m)[k] = rest[1 + k - 1]
        BY <2>3, <2>9, PartOfList
      <3> QED
        BY <2>9, <2>10, <3>1
    <2>12. rest[1] \in Range(Kept(rest)) /\ rest[2] \in Range(Kept(rest))
      BY <2>9, <2>11 DEF Range
    <2> QED
      BY <2>8, <2>12
  <1> QED
    BY <1>1, RoutingAlways, PTL
=============================================================================
