--------------------------- MODULE BreakersProofs ---------------------------
(***************************************************************************)
(* Theorems about the model and provider circuits, for any number of       *)
(* models, providers and concurrent attempts and every threshold,          *)
(* cooldown, probe TTL and set of Retry-After values; and, at the end,     *)
(* about the host circuits of the transport below them.                    *)
(***************************************************************************)
EXTENDS Breakers, HostBreaker, SequenceTheorems, TLAPS

\* The breaker calls, and the circuit each of them is about.
ModelOps == {"penalizeScore", "recordFailure", "resolveProbe", "recordSuccess"}
ProviderOps == {"resolveProviderProbe", "resolveProviderSuccess", "recordProviderFailure"}
Ops == ModelOps \cup ProviderOps

Target(op, m) == IF op \in ModelOps THEN m ELSE ProviderOf[m]

\* The shapes of the state: no bound on windows is needed.
Shapes ==
  /\ failures \in [Circuits -> Nat]
  /\ openFor \in [Circuits -> Int] /\ \A x \in Circuits : openFor[x] >= Closed
  /\ probeFor \in [Circuits -> Nat]
  /\ pc \in [Attempts -> {"idle", "provider", "admitted", "streaming", "booking"}]
  /\ model \in [Attempts -> Models \cup {None}]
  /\ \A a \in Attempts : pc[a] # "idle" => model[a] \in Models
  /\ outcome \in [Attempts -> Outcomes \cup {None}]
  /\ retryAfter \in [Attempts -> Nat]
  /\ todo \in [Attempts -> Seq(Ops)]
  /\ \A a \in Attempts : pc[a] # "booking" => todo[a] = <<>>

-----------------------------------------------------------------------------
\* A breaker call is about the circuit of the model or of its provider.
LEMMA TargetIsCircuit ==
  ASSUME NEW op \in Ops, NEW m \in Models
  PROVE  /\ Target(op, m) \in Circuits
         /\ op \in ModelOps => Target(op, m) = m
         /\ op \in ProviderOps => Target(op, m) = ProviderOf[m] /\ ProviderOf[m] \in Providers
BY BreakersAssumption DEF Target, Circuits, Ops, ModelOps, ProviderOps

\* recordFailure and recordProviderFailure on one circuit.
LEMMA FailedDoes ==
  ASSUME Shapes, NEW x \in Circuits, NEW now \in BOOLEAN, NEW ra \in Nat, Failed(x, now, ra)
  PROVE  /\ failures' \in [Circuits -> Nat]
         /\ openFor' \in [Circuits -> Int] /\ \A y \in Circuits : openFor'[y] >= Closed
         /\ probeFor' \in [Circuits -> Nat] /\ probeFor'[x] = 0
         /\ \A y \in Circuits \ {x} :
              failures'[y] = failures[y] /\ openFor'[y] = openFor[y] /\ probeFor'[y] = probeFor[y]
         /\ openFor[x] > 0 => openFor'[x] >= openFor[x]
         /\ now => openFor'[x] # Closed
         /\ ~ now /\ openFor'[x] = Closed => failures'[x] < FailureThreshold
<1> DEFINE left == IF openFor[x] = Past THEN Closed ELSE openFor[x]
           n == (IF openFor[x] = Past THEN 0 ELSE failures[x]) + 1
           most == IF now THEN 1 ELSE FailureThreshold
           f == IF n > most THEN most ELSE n
           w == IF Trips(n, now) THEN Window(left, ra) ELSE left
<1>1. /\ failures' = [failures EXCEPT ![x] = f]
      /\ openFor' = [openFor EXCEPT ![x] = w]
      /\ probeFor' = [probeFor EXCEPT ![x] = 0]
    BY DEF Failed
<1>2. left \in Int /\ left >= Closed /\ n \in Nat /\ (openFor[x] > 0 => left = openFor[x])
    BY DEF Shapes, Past, Closed
<1>3. f \in Nat /\ (n < FailureThreshold /\ ~ now => f = n)
    BY <1>2, BreakersAssumption
<1>4. Window(left, ra) \in Int /\ Window(left, ra) >= left /\ Window(left, ra) >= Cooldown
    BY <1>2, BreakersAssumption DEF Window, Max
<1>5. /\ w \in Int /\ w >= left
      /\ now => w # Closed
      /\ ~ now /\ w = Closed => n < FailureThreshold
    BY <1>2, <1>4, BreakersAssumption DEF Trips, Closed
<1> HIDE DEF left, n, most, f, w
<1>6. failures'[x] = f /\ openFor'[x] = w /\ probeFor'[x] = 0
    BY <1>1 DEF Shapes
<1>7. \A y \in Circuits \ {x} :
         failures'[y] = failures[y] /\ openFor'[y] = openFor[y] /\ probeFor'[y] = probeFor[y]
    BY <1>1 DEF Shapes
<1>8. /\ failures' \in [Circuits -> Nat] /\ openFor' \in [Circuits -> Int]
      /\ probeFor' \in [Circuits -> Nat]
  <2>1. failures' \in [Circuits -> Nat]
      BY <1>1, <1>3 DEF Shapes
  <2>2. openFor' \in [Circuits -> Int]
      BY <1>1, <1>5 DEF Shapes
  <2>3. probeFor' \in [Circuits -> Nat]
      BY <1>1 DEF Shapes
  <2> QED BY <2>1, <2>2, <2>3
<1>9. ASSUME NEW y \in Circuits PROVE openFor'[y] >= Closed
  <2>1. CASE y = x
      BY <1>2, <1>5, <1>6, <2>1 DEF Closed
  <2>2. CASE y # x
      BY <1>7, <2>2 DEF Shapes
  <2> QED BY <2>1, <2>2
<1>10. openFor[x] > 0 => openFor'[x] >= openFor[x]
    BY <1>2, <1>5, <1>6
<1>11. ~ now /\ openFor'[x] = Closed => failures'[x] < FailureThreshold
    BY <1>3, <1>5, <1>6
<1> QED BY <1>5, <1>6, <1>7, <1>8, <1>9, <1>10, <1>11

\* A breaker call gives back the claim of its own circuit, changes no other one
\* and shortens no window; only the call that reports a completed response
\* closes a provider.
LEMMA ApplyDoes ==
  ASSUME Shapes, NEW op \in Ops, NEW m \in Models, NEW ra \in Nat, Apply(op, m, ra)
  PROVE  LET x == Target(op, m)
         IN  /\ failures' \in [Circuits -> Nat]
             /\ openFor' \in [Circuits -> Int] /\ \A y \in Circuits : openFor'[y] >= Closed
             /\ probeFor' \in [Circuits -> Nat] /\ probeFor'[x] = 0
             /\ \A y \in Circuits \ {x} : /\ failures'[y] = failures[y]
                                          /\ openFor'[y] = openFor[y]
                                          /\ probeFor'[y] = probeFor[y]
             /\ openFor[x] > 0 => openFor'[x] = Closed \/ openFor'[x] >= openFor[x]
             /\ op \in ModelOps /\ openFor'[x] = Closed =>
                  failures'[x] < FailureThreshold \/ (openFor[x] = Closed /\ failures'[x] = failures[x])
             /\ op \in ProviderOps /\ openFor[x] # Closed /\ openFor'[x] = Closed =>
                  op = "resolveProviderSuccess"
<1> DEFINE x == Target(op, m)
<1>1. x \in Circuits
    BY TargetIsCircuit
<1>2. CASE op \in {"penalizeScore", "resolveProviderProbe"}
  <2>1. Unclaimed(x)
      BY <1>2, Zenon DEF Apply, Target, ModelOps
  <2> HIDE DEF x
  <2>2. /\ probeFor' \in [Circuits -> Nat] /\ probeFor'[x] = 0
        /\ \A y \in Circuits \ {x} : probeFor'[y] = probeFor[y]
        /\ failures' = failures /\ openFor' = openFor
      BY <1>1, <2>1 DEF Unclaimed, Shapes
  <2> QED BY <1>1, <2>2 DEF Shapes, x
<1>3. CASE op \in {"resolveProbe", "recordSuccess", "resolveProviderSuccess"}
  <2>1. Cleared(x)
      BY <1>3, Zenon DEF Apply, Target, ModelOps
  <2> HIDE DEF x
  <2>2. /\ failures' \in [Circuits -> Nat] /\ failures'[x] = 0
        /\ openFor' \in [Circuits -> Int] /\ openFor'[x] = Closed
        /\ probeFor' \in [Circuits -> Nat] /\ probeFor'[x] = 0
        /\ \A y \in Circuits \ {x} :
             failures'[y] = failures[y] /\ openFor'[y] = openFor[y] /\ probeFor'[y] = probeFor[y]
    <3>1. failures' \in [Circuits -> Nat] /\ failures'[x] = 0
        BY <1>1, <2>1 DEF Cleared, Shapes
    <3>2. Closed \in Int
        BY DEF Closed
    <3>3. openFor' \in [Circuits -> Int] /\ openFor'[x] = Closed
        BY <1>1, <2>1, <3>2 DEF Cleared, Shapes
    <3>4. probeFor' \in [Circuits -> Nat] /\ probeFor'[x] = 0
        BY <1>1, <2>1 DEF Cleared, Shapes
    <3> QED BY <1>1, <2>1, <3>1, <3>3, <3>4 DEF Cleared, Shapes
  <2>3. ASSUME NEW y \in Circuits PROVE openFor'[y] >= Closed
    <3>1. CASE y = x
        BY <2>2, <3>1 DEF Closed
    <3>2. CASE y # x
        BY <2>2, <3>2 DEF Shapes
    <3> QED BY <3>1, <3>2
  <2>4. 0 < FailureThreshold
      BY BreakersAssumption
  <2> QED BY <1>1, <1>3, <2>2, <2>3, <2>4 DEF x, ProviderOps
<1>4. CASE op = "recordFailure"
  <2>1. Failed(x, FALSE, ra)
      BY <1>4, Zenon DEF Apply, Target, ModelOps
  <2> HIDE DEF x
  <2> QED BY <1>1, <1>4, <2>1, FailedDoes, Zenon DEF x, ProviderOps
<1>5. CASE op = "recordProviderFailure"
  <2>1. Failed(x, TRUE, ra)
      BY <1>5, Zenon DEF Apply, Target, ModelOps
  <2> HIDE DEF x
  <2> QED BY <1>1, <1>5, <2>1, FailedDoes, Zenon DEF x, ModelOps
<1> QED BY <1>2, <1>3, <1>4, <1>5 DEF Ops, ModelOps, ProviderOps

\* Every list of breaker calls is made of breaker calls.
LEMMA BookkeepingIsOps ==
  ASSUME NEW o \in Outcomes, NEW p PROVE Bookkeeping(o, p) \in Seq(Ops)
<1>1. Blame \in Seq(Ops) /\ Settle \in Seq(Ops) /\ Skipped \in Seq(Ops)
    BY DEF Blame, Settle, Skipped, Ops, ModelOps, ProviderOps
<1>2. Settle \o <<"resolveProviderProbe", "resolveProbe">> \in Seq(Ops)
    BY DEF Settle, Ops, ModelOps, ProviderOps
<1>3. /\ <<"recordProviderFailure", "resolveProbe">> \in Seq(Ops)
      /\ <<"resolveProviderProbe", "resolveProbe">> \in Seq(Ops)
      /\ <<"penalizeScore", "resolveProviderProbe", "resolveProbe">> \in Seq(Ops)
      /\ <<"recordSuccess", "resolveProviderSuccess">> \in Seq(Ops)
      /\ <<"penalizeScore">> \in Seq(Ops)
      /\ <<>> \in Seq(Ops)
    BY DEF Ops, ModelOps, ProviderOps
<1> QED BY <1>1, <1>2, <1>3 DEF Bookkeeping, Outcomes

\* No circuit has failed and no attempt runs at the start.
LEMMA ShapesInit == Init => Shapes
<1> SUFFICES ASSUME Init PROVE Shapes
    OBVIOUS
<1>1. openFor \in [Circuits -> Int] /\ \A x \in Circuits : openFor[x] >= Closed
    BY DEF Init, Closed
<1>2. todo \in [Attempts -> Seq(Ops)] /\ \A a \in Attempts : todo[a] = <<>>
    BY DEF Init
<1> QED BY <1>1, <1>2 DEF Init, Shapes

\* What the steps that only conclude an attempt do to it.
LEMMA ConcludeShapes ==
  ASSUME Shapes, NEW a \in Attempts, NEW o \in Outcomes, NEW ra \in Nat, Conclude(a, o, ra),
         model[a] \in Models, UNCHANGED <<failures, openFor, probeFor, model>>
  PROVE  Shapes'
<1>1. todo' \in [Attempts -> Seq(Ops)]
    BY BookkeepingIsOps DEF Conclude, Shapes
<1>2. /\ pc' \in [Attempts -> {"idle", "provider", "admitted", "streaming", "booking"}]
      /\ outcome' \in [Attempts -> Outcomes \cup {None}]
      /\ retryAfter' \in [Attempts -> Nat]
    BY DEF Conclude, Shapes
<1>3. \A b \in Attempts : pc'[b] # "idle" => model'[b] \in Models
    BY DEF Conclude, Shapes
<1>4. \A b \in Attempts : pc'[b] # "booking" => todo'[b] = <<>>
    BY DEF Conclude, Shapes
<1> QED BY <1>1, <1>2, <1>3, <1>4 DEF Shapes

\* Claiming a probe sets its circuit to a whole TTL.
LEMMA ClaimedShape ==
  ASSUME Shapes, NEW x \in Circuits
  PROVE  Claimed(x) \in [Circuits -> Nat]
BY BreakersAssumption DEF Shapes, Claimed

\* The end of executeAttempt, or its turn to the body of a stream.
LEMMA LeaveShapes ==
  ASSUME Shapes, NEW a \in Attempts, Leave(a), pc[a] = "booking"
  PROVE  /\ pc' \in [Attempts -> {"idle", "provider", "admitted", "streaming", "booking"}]
         /\ pc'[a] \in {"idle", "streaming"}
         /\ model' \in [Attempts -> Models \cup {None}]
         /\ outcome' \in [Attempts -> Outcomes \cup {None}]
         /\ retryAfter' \in [Attempts -> Nat]
         /\ pc'[a] # "idle" => model'[a] \in Models
         /\ \A b \in Attempts \ {a} :
              pc'[b] = pc[b] /\ model'[b] = model[b] /\ outcome'[b] = outcome[b]
BY Zenon DEF Leave, Shapes

\* A step that concludes an attempt: it touches no circuit.
Concludes(a) ==
  /\ pc[a] \in {"provider", "admitted", "streaming"}
  /\ \E o \in Outcomes, ra \in Nat :
       /\ Conclude(a, o, ra)
       /\ pc[a] = "provider" => o = "skipped"
       /\ pc[a] = "admitted" => o \notin {"skipped", "abandoned", "gone"}
  /\ UNCHANGED <<failures, openFor, probeFor, model>>

\* An attempt that passes tryStartAttempt.
Admitted(a) ==
  /\ pc[a] = "provider"
  /\ probeFor' = Claimed(model[a])
  /\ pc' = [pc EXCEPT ![a] = "admitted"]
  /\ UNCHANGED <<failures, openFor, model, outcome, retryAfter, todo>>

\* The ways an attempt goes on, for the circuits: it claims, ends, books or returns.
LEMMA StepKinds ==
  ASSUME NEW a \in Attempts, Step(a)
  PROVE  \/ \E m \in Models : TryStartProvider(a, m)
         \/ Admitted(a) \/ Concludes(a) \/ Book(a) \/ Return(a)
<1>1. CASE TryStartAttempt(a)
    BY <1>1 DEF TryStartAttempt, Admitted, Concludes, Outcomes
<1>2. CASE Refuse(a)
    BY <1>2 DEF Refuse, Concludes, Outcomes
<1>3. ASSUME NEW o \in Outcomes, NEW ra \in RetryAfters, Answer(a, o, ra) PROVE Concludes(a)
    BY <1>3, BreakersAssumption DEF Answer, Concludes
<1>4. ASSUME NEW o \in Outcomes, ReadBody(a, o) \/ EndStream(a, o) PROVE Concludes(a)
    BY <1>4 DEF ReadBody, EndStream, Concludes
<1> QED BY <1>1, <1>2, <1>3, <1>4 DEF Step

\* The next breaker call of a is a breaker call.
LEMMA BookApplies ==
  ASSUME Shapes, NEW a \in Attempts, Book(a)
  PROVE  /\ Head(todo[a]) \in Ops /\ model[a] \in Models /\ retryAfter[a] \in Nat
         /\ Apply(Head(todo[a]), model[a], retryAfter[a])
         /\ Tail(todo[a]) \in Seq(Ops)
         /\ Len(todo[a]) = 1 => Tail(todo[a]) = <<>>
<1>1. todo[a] \in Seq(Ops) /\ todo[a] # <<>> /\ pc[a] = "booking"
    BY DEF Book, Shapes
<1>2. model[a] \in Models /\ retryAfter[a] \in Nat
    BY <1>1 DEF Shapes
<1>3. Head(todo[a]) \in Ops /\ Tail(todo[a]) \in Seq(Ops)
    BY <1>1
<1>4. Len(todo[a]) = 1 => Tail(todo[a]) = <<>>
  <2>1. Len(Tail(todo[a])) = Len(todo[a]) - 1
      BY <1>1
  <2>2. Tail(todo[a]) # <<>> => Len(Tail(todo[a])) \in Nat \ {0}
      BY <1>3, EmptySeq, Zenon
  <2> QED BY <2>1, <2>2
<1> QED BY <1>2, <1>3, <1>4 DEF Book

\* No interleaving of attempts and clock breaks the shapes.
LEMMA ShapesStep == Shapes /\ [Next]_vars => Shapes'
<1> SUFFICES ASSUME Shapes, [Next]_vars PROVE Shapes'
    OBVIOUS
<1>1. CASE Tick
  <2>1. openFor' \in [Circuits -> Int] /\ \A x \in Circuits : openFor'[x] >= Closed
      BY <1>1 DEF Tick, Shapes, Past, Closed
  <2>2. probeFor' \in [Circuits -> Nat]
      BY <1>1 DEF Tick, Shapes
  <2> QED BY <1>1, <2>1, <2>2 DEF Tick, Shapes
<1>2. ASSUME NEW a \in Attempts, NEW m \in Models, TryStartProvider(a, m) PROVE Shapes'
  <2>1. probeFor' \in [Circuits -> Nat]
      BY <1>2, ClaimedShape, BreakersAssumption, Zenon DEF TryStartProvider, Circuits
  <2> QED BY <1>2, <2>1 DEF TryStartProvider, Shapes
<1>3. ASSUME NEW a \in Attempts, Admitted(a) PROVE Shapes'
  <2>1. probeFor' \in [Circuits -> Nat]
      BY <1>3, ClaimedShape DEF Admitted, Circuits, Shapes
  <2> QED BY <1>3, <2>1 DEF Admitted, Shapes
<1>4. ASSUME NEW a \in Attempts, Concludes(a) PROVE Shapes'
  <2>1. model[a] \in Models
      BY <1>4 DEF Concludes, Shapes
  <2> QED BY <1>4, <2>1, ConcludeShapes DEF Concludes
<1>5. ASSUME NEW a \in Attempts, Book(a) PROVE Shapes'
  <2>1. /\ failures' \in [Circuits -> Nat]
        /\ openFor' \in [Circuits -> Int] /\ \A y \in Circuits : openFor'[y] >= Closed
        /\ probeFor' \in [Circuits -> Nat]
      BY <1>5, BookApplies, ApplyDoes
  <2>2. /\ todo' \in [Attempts -> Seq(Ops)]
        /\ Len(todo[a]) = 1 => todo'[a] = <<>>
        /\ \A b \in Attempts \ {a} : todo'[b] = todo[b]
      BY <1>5, BookApplies DEF Book, Shapes
  <2>3. CASE Len(todo[a]) = 1
    <3>1. Leave(a) /\ pc[a] = "booking"
        BY <1>5, <2>3 DEF Book
    <3> QED BY <2>1, <2>2, <2>3, <3>1, LeaveShapes, Zenon DEF Shapes
  <2>4. CASE Len(todo[a]) # 1
    <3>1. retryAfter' \in [Attempts -> Nat] /\ UNCHANGED <<pc, model, outcome>>
        BY <1>5, <2>4 DEF Book, Unspent, Shapes
    <3>2. pc[a] = "booking"
        BY <1>5 DEF Book
    <3> QED BY <2>1, <2>2, <3>1, <3>2 DEF Shapes
  <2> QED BY <2>3, <2>4
<1>6. ASSUME NEW a \in Attempts, Return(a) PROVE Shapes'
    BY <1>6, LeaveShapes, Zenon DEF Return, Shapes
<1>7. CASE UNCHANGED vars
    BY <1>7 DEF vars, Shapes
<1> QED BY <1>1, <1>2, <1>3, <1>4, <1>5, <1>6, <1>7, StepKinds DEF Next

-----------------------------------------------------------------------------
\* Every breaker call but recordFailure clears the failures when it closes the
\* circuit of a model; and only the clock and the calls for that model change it.
FullInv == Shapes /\ FullThresholdOpens

\* No circuit has a failure on record at the start.
LEMMA FullInit == Init => FullInv
<1> SUFFICES ASSUME Init PROVE FullInv
    OBVIOUS
<1>1. FullThresholdOpens
    BY BreakersAssumption DEF Init, FullThresholdOpens, Circuits
<1> QED BY <1>1, ShapesInit DEF FullInv

\* A count that reaches the threshold opens the circuit in the same lock section.
LEMMA FullStep == FullInv /\ [Next]_vars => FullInv'
<1> SUFFICES ASSUME Shapes, FullThresholdOpens, [Next]_vars PROVE FullThresholdOpens'
    BY ShapesStep DEF FullInv
<1>1. CASE Tick
  <2>1. \A x \in Circuits : openFor'[x] = Closed => openFor[x] = Closed
      BY <1>1 DEF Tick, Shapes, Past, Closed
  <2> QED BY <1>1, <2>1 DEF Tick, FullThresholdOpens, Circuits
<1>2. ASSUME NEW a \in Attempts, Book(a) PROVE FullThresholdOpens'
  <2> DEFINE op == Head(todo[a])
             x == Target(op, model[a])
  <2>0. op \in Ops /\ model[a] \in Models /\ retryAfter[a] \in Nat
        /\ Apply(op, model[a], retryAfter[a])
      BY <1>2, BookApplies
  <2>1. /\ \A y \in Circuits \ {x} : failures'[y] = failures[y] /\ openFor'[y] = openFor[y]
        /\ op \in ModelOps /\ openFor'[x] = Closed =>
             failures'[x] < FailureThreshold \/ (openFor[x] = Closed /\ failures'[x] = failures[x])
      BY <2>0, ApplyDoes
  <2>2. x \in Models => op \in ModelOps
      BY <2>0, TargetIsCircuit, BreakersAssumption DEF Ops
  <2> HIDE DEF op, x
  <2> QED BY <2>1, <2>2 DEF FullThresholdOpens, Circuits
<1>3. CASE UNCHANGED <<failures, openFor>>
    BY <1>3 DEF FullThresholdOpens
<1> QED
    BY <1>1, <1>2, <1>3, StepKinds
       DEF Next, vars, TryStartProvider, Admitted, Concludes, Return

\* recordFailure: the FailureThreshold-th consecutive failure of a model opens
\* its circuit, whatever the other attempts and the clock did in between.
THEOREM FullThresholdAlwaysOpens == Spec => []FullThresholdOpens
<1>1. FullInv => FullThresholdOpens
    BY DEF FullInv
<1> QED BY <1>1, FullInit, FullStep, PTL DEF Spec

-----------------------------------------------------------------------------
\* The breaker calls attempt a has still to make reach circuit x.
WillSettle(a, x) == \E i \in 1 .. Len(todo[a]) : Target(todo[a][i], model[a]) = x

\* a answers for a claim of circuit x: it has passed the check that may have
\* made the claim, and will make a call that gives it back.
Owns(a, x) ==
  \/ pc[a] = "provider" /\ x = ProviderOf[model[a]]
  \/ pc[a] = "admitted" /\ x \in {model[a], ProviderOf[model[a]]}
  \/ pc[a] = "booking" /\ WillSettle(a, x)

OwnInv ==
  /\ Shapes
  /\ \A x \in Circuits : probeFor[x] > 0 => \E a \in Attempts : Owns(a, x)

\* Every list of calls that executeAttempt may make after an admission reaches
\* both circuits, and the one after a skip reaches the provider's.
LEMMA BookkeepingSettles ==
  ASSUME NEW o \in Outcomes, NEW m \in Models, NEW p
  PROVE  /\ o \notin {"abandoned", "gone"} =>
              \E i \in 1 .. Len(Bookkeeping(o, p)) :
                 Target(Bookkeeping(o, p)[i], m) = ProviderOf[m]
         /\ o \notin {"skipped", "abandoned", "gone"} =>
              \E i \in 1 .. Len(Bookkeeping(o, p)) : Target(Bookkeeping(o, p)[i], m) = m
<1> USE DEF Target, ModelOps
<1>1. CASE o = "skipped"
    BY <1>1 DEF Bookkeeping, Skipped
<1>2. CASE o \in {"refused", "cancelled", "headers"}
  <2>1. Bookkeeping(o, p) = <<"resolveProbe", "resolveProviderProbe">>
      BY <1>2 DEF Bookkeeping, Settle
  <2> QED BY <2>1
<1>3. CASE o \in {"failed", "readCancelled"}
  <2>1. Bookkeeping(o, p) = <<"penalizeScore", "recordFailure", "resolveProviderProbe">>
      BY <1>3 DEF Bookkeeping, Blame
  <2> QED BY <2>1
<1>4. CASE o = "quota"
  <2>1. Bookkeeping(o, p) = Settle \o <<"resolveProviderProbe", "resolveProbe">>
      BY <1>4 DEF Bookkeeping
  <2>2. /\ Len(Bookkeeping(o, p)) = 4
        /\ Bookkeeping(o, p)[1] = "resolveProbe" /\ Bookkeeping(o, p)[2] = "resolveProviderProbe"
      BY <2>1 DEF Settle
  <2> QED BY <2>2
<1>5. CASE o = "account"
  <2>1. \/ Bookkeeping(o, p) = <<"resolveProviderProbe", "resolveProbe">>
        \/ Bookkeeping(o, p) = <<"recordProviderFailure", "resolveProbe">>
      BY <1>5 DEF Bookkeeping
  <2> QED BY <2>1
<1>6. CASE o = "rejected"
  <2>1. Bookkeeping(o, p) = <<"penalizeScore", "resolveProviderProbe", "resolveProbe">>
      BY <1>6 DEF Bookkeeping
  <2> QED BY <2>1
<1>7. CASE o = "completed"
  <2>1. Bookkeeping(o, p) = <<"recordSuccess", "resolveProviderSuccess">>
      BY <1>7 DEF Bookkeeping
  <2> QED BY <2>1
<1>8. CASE o \in {"abandoned", "gone"}
    BY <1>8
<1> QED BY <1>1, <1>2, <1>3, <1>4, <1>5, <1>6, <1>7, <1>8 DEF Outcomes

\* Nothing is claimed at the start.
LEMMA OwnInit == Init => OwnInv
<1> SUFFICES ASSUME Init PROVE OwnInv
    OBVIOUS
<1>1. \A x \in Circuits : probeFor[x] = 0
    BY DEF Init
<1> QED BY <1>1, ShapesInit DEF OwnInv

\* The calls of a after its next one.
LEMMA SettlesLater ==
  ASSUME Shapes, NEW a \in Attempts, todo[a] # <<>>, NEW x,
         WillSettle(a, x), Target(Head(todo[a]), model[a]) # x
  PROVE  /\ Len(todo[a]) # 1
         /\ \E i \in 1 .. Len(Tail(todo[a])) : Target(Tail(todo[a])[i], model[a]) = x
<1>1. todo[a] \in Seq(Ops)
    BY Zenon DEF Shapes
<1>2. PICK i \in 1 .. Len(todo[a]) : Target(todo[a][i], model[a]) = x
    BY Zenon DEF WillSettle
<1>3. i # 1
    BY <1>1, <1>2
<1>4. /\ i - 1 \in 1 .. Len(Tail(todo[a]))
      /\ Tail(todo[a])[i - 1] = todo[a][i]
      /\ Len(todo[a]) # 1
    BY <1>1, <1>3
<1> QED BY <1>2, <1>4, Zenon

\* A claim passes from the admitted attempt to its bookkeeping and is settled there.
LEMMA OwnStep == OwnInv /\ [Next]_vars => OwnInv'
<1> SUFFICES ASSUME Shapes, Shapes', OwnInv, [Next]_vars,
                    NEW x \in Circuits, probeFor'[x] > 0
             PROVE  \E b \in Attempts : Owns(b, x)'
    BY ShapesStep, Zenon DEF OwnInv
<1>1. CASE Tick
  <2>1. probeFor[x] > 0
      BY <1>1 DEF Tick, Shapes
  <2> QED BY <1>1, <2>1, Zenon DEF Tick, OwnInv, Owns, WillSettle
<1>2. ASSUME NEW a \in Attempts, NEW m \in Models, TryStartProvider(a, m)
      PROVE  \E b \in Attempts : Owns(b, x)'
  <2>1. /\ model'[a] = m /\ pc'[a] = "provider"
        /\ pc[a] = "idle" /\ todo' = todo
        /\ \A b \in Attempts \ {a} : pc'[b] = pc[b] /\ model'[b] = model[b]
      BY <1>2, Zenon DEF TryStartProvider, Shapes
  <2>2. CASE x = ProviderOf[m]
      BY <2>1, <2>2, Zenon DEF Owns
  <2>3. CASE x # ProviderOf[m]
    <3>1. probeFor[x] > 0
        BY <1>2, <2>3, Zenon DEF TryStartProvider, Claimed, Shapes
    <3>2. PICK b \in Attempts : Owns(b, x)
        BY <3>1, Zenon DEF OwnInv
    <3>3. b # a
        BY <2>1, <3>2, Zenon DEF Owns
    <3> QED BY <2>1, <3>2, <3>3, Zenon DEF Owns, WillSettle
  <2> QED BY <2>2, <2>3, Zenon
<1>3. ASSUME NEW a \in Attempts, Admitted(a) PROVE \E b \in Attempts : Owns(b, x)'
  <2>1. /\ pc[a] = "provider" /\ pc'[a] = "admitted" /\ model' = model /\ todo' = todo
        /\ \A b \in Attempts \ {a} : pc'[b] = pc[b]
      BY <1>3, Zenon DEF Admitted, Shapes
  <2>2. CASE x = model[a]
      BY <2>1, <2>2, Zenon DEF Owns
  <2>3. CASE x # model[a]
    <3>1. probeFor[x] > 0
        BY <1>3, <2>3, Zenon DEF Admitted, Claimed, Shapes
    <3>2. PICK b \in Attempts : Owns(b, x)
        BY <3>1, Zenon DEF OwnInv
    <3> QED BY <2>1, <3>2, Zenon DEF Owns, WillSettle
  <2> QED BY <2>2, <2>3, Zenon
<1>4. ASSUME NEW a \in Attempts, Concludes(a) PROVE \E b \in Attempts : Owns(b, x)'
  <2>1. PICK o \in Outcomes, ra \in Nat :
           /\ Conclude(a, o, ra)
           /\ pc[a] = "provider" => o = "skipped"
           /\ pc[a] = "admitted" => o \notin {"skipped", "abandoned", "gone"}
      BY <1>4, Zenon DEF Concludes
  <2>2. /\ pc[a] \in {"provider", "admitted", "streaming"} /\ pc'[a] = "booking"
        /\ model' = model /\ model[a] \in Models /\ probeFor' = probeFor
        /\ todo'[a] = Bookkeeping(o, ProviderOf[model[a]])
        /\ \A b \in Attempts \ {a} : pc'[b] = pc[b] /\ todo'[b] = todo[b]
      BY <1>4, <2>1, Zenon DEF Concludes, Conclude, Shapes
  <2>3. PICK b \in Attempts : Owns(b, x)
      BY <2>2, Zenon DEF OwnInv
  <2>4. CASE b = a
    <3>1. \/ x = ProviderOf[model[a]] /\ o \notin {"abandoned", "gone"}
          \/ x = model[a] /\ o \notin {"skipped", "abandoned", "gone"}
        BY <2>1, <2>2, <2>3, <2>4, Zenon DEF Owns
    <3>2. \E i \in 1 .. Len(todo'[a]) : Target(todo'[a][i], model[a]) = x
        BY <2>2, <3>1, BookkeepingSettles
    <3> QED BY <2>2, <3>2, Zenon DEF Owns, WillSettle, Target
  <2>5. CASE b # a
      BY <2>2, <2>3, <2>5, Zenon DEF Owns, WillSettle
  <2> QED BY <2>4, <2>5, Zenon
<1>5. ASSUME NEW a \in Attempts, Book(a) PROVE \E b \in Attempts : Owns(b, x)'
  <2> DEFINE op == Head(todo[a])
             y == Target(op, model[a])
  <2>1. /\ op \in Ops /\ model[a] \in Models /\ retryAfter[a] \in Nat
        /\ Apply(op, model[a], retryAfter[a])
      BY <1>5, BookApplies, Zenon
  <2>2. probeFor'[y] = 0 /\ \A z \in Circuits \ {y} : probeFor'[z] = probeFor[z]
      BY <2>1, ApplyDoes
  <2>3. x # y /\ probeFor[x] > 0
      BY <2>2
  <2>4. PICK b \in Attempts : Owns(b, x)
      BY <2>3, Zenon DEF OwnInv
  <2>5. /\ pc[a] = "booking" /\ todo[a] # <<>> /\ todo'[a] = Tail(todo[a])
        /\ \A c \in Attempts \ {a} : todo'[c] = todo[c] /\ pc'[c] = pc[c] /\ model'[c] = model[c]
        /\ Len(todo[a]) # 1 => UNCHANGED <<pc, model>>
      BY <1>5, LeaveShapes, Zenon DEF Book, Shapes
  <2>6. CASE b = a
    <3>1. WillSettle(a, x)
        BY <2>4, <2>5, <2>6, Zenon DEF Owns
    <3>2. /\ Len(todo[a]) # 1
          /\ \E i \in 1 .. Len(todo'[a]) : Target(todo'[a][i], model[a]) = x
        BY <2>3, <2>5, <3>1, SettlesLater, Zenon
    <3>3. pc'[a] = "booking" /\ model'[a] = model[a]
        BY <2>5, <3>2, Zenon
    <3> QED BY <3>2, <3>3, Zenon DEF Owns, WillSettle, Target
  <2>7. CASE b # a
      BY <2>4, <2>5, <2>7, Zenon DEF Owns, WillSettle
  <2> QED BY <2>6, <2>7, Zenon
<1>6. ASSUME NEW a \in Attempts, Return(a) PROVE \E b \in Attempts : Owns(b, x)'
  <2>1. /\ pc[a] = "booking" /\ todo[a] = <<>> /\ todo' = todo /\ probeFor' = probeFor
        /\ \A c \in Attempts \ {a} : pc'[c] = pc[c] /\ model'[c] = model[c]
      BY <1>6, LeaveShapes, Zenon DEF Return
  <2>2. PICK b \in Attempts : Owns(b, x)
      BY <2>1, Zenon DEF OwnInv
  <2>3. b # a
      BY <2>1, <2>2 DEF Owns, WillSettle
  <2> QED BY <2>1, <2>2, <2>3, Zenon DEF Owns, WillSettle
<1>7. CASE UNCHANGED vars
    BY <1>7, Zenon DEF vars, OwnInv, Owns, WillSettle
<1> QED BY <1>1, <1>2, <1>3, <1>4, <1>5, <1>6, <1>7, StepKinds, Zenon DEF Next

\* executeAttempt: no way out of it leaves the half-open claim of a model or of
\* a provider behind; an attempt that still answers for it is under way.
THEOREM ClaimsHaveOwners == Spec => []ClaimHasOwner
<1>1. OwnInv => ClaimHasOwner
  <2> SUFFICES ASSUME OwnInv, NEW x \in Circuits, probeFor[x] > 0
               PROVE  \E a \in Attempts :
                        /\ model[a] # None
                        /\ x \in {model[a], ProviderOf[model[a]]}
                        /\ pc[a] \in {"provider", "admitted", "booking"}
      BY Zenon DEF ClaimHasOwner
  <2>1. PICK a \in Attempts : Owns(a, x)
      BY Zenon DEF OwnInv
  <2>2. model[a] \in Models /\ pc[a] \in {"provider", "admitted", "booking"}
      BY <2>1, Zenon DEF OwnInv, Shapes, Owns
  <2>3. x \in {model[a], ProviderOf[model[a]]}
      BY <2>1, Zenon DEF Owns, WillSettle, Target
  <2> QED BY <2>2, <2>3, BreakersAssumption, Zenon DEF None
<1> QED BY <1>1, OwnInit, OwnStep, PTL DEF Spec

-----------------------------------------------------------------------------
\* recordFailure and recordProviderFailure "never SHORTEN an already-open
\* window": but for the clock, a cooling circuit is closed, or keeps at least
\* what was left of its window.
THEOREM WindowsNeverShortened == Spec => NeverShortened
<1> DEFINE Ticked == probeFor' = [y \in Circuits |-> IF probeFor[y] > 0 THEN probeFor[y] - 1 ELSE 0]
           Kept(x) == \/ openFor'[x] = Closed
                      \/ openFor'[x] >= openFor[x]
                      \/ Ticked /\ openFor'[x] = openFor[x] - 1
<1>1. Shapes /\ [Next]_vars => [\A x \in Circuits : Cooling(x) => Kept(x)]_vars
  <2> SUFFICES ASSUME Shapes, Next, NEW x \in Circuits, openFor[x] > 0 PROVE Kept(x)
      BY Zenon DEF Cooling
  <2>1. CASE Tick
      BY <2>1 DEF Tick, Shapes, Past
  <2>2. ASSUME NEW a \in Attempts, Book(a) PROVE Kept(x)
    <3> DEFINE y == Target(Head(todo[a]), model[a])
    <3>1. /\ \A z \in Circuits \ {y} : openFor'[z] = openFor[z]
          /\ openFor[y] > 0 => openFor'[y] = Closed \/ openFor'[y] >= openFor[y]
        BY <2>2, BookApplies, ApplyDoes
    <3> HIDE DEF y
    <3>2. CASE x = y
        BY <3>1, <3>2, Zenon
    <3>3. CASE x # y
      <4>1. openFor'[x] = openFor[x] /\ openFor[x] \in Int
          BY <3>1, <3>3, Zenon DEF Shapes
      <4> QED BY <4>1
    <3> QED BY <3>2, <3>3, Zenon
  <2>3. CASE UNCHANGED openFor
      BY <2>3 DEF Shapes
  <2> QED
      BY <2>1, <2>2, <2>3, StepKinds, Zenon DEF Next, TryStartProvider, Admitted, Concludes, Return
<1> QED BY <1>1, ShapesInit, ShapesStep, PTL DEF Spec, NeverShortened

\* The call that closes a provider is on the list of a completed response only.
SuccessInv ==
  /\ Shapes
  /\ \A a \in Attempts : \A i \in 1 .. Len(todo[a]) :
       todo[a][i] = "resolveProviderSuccess" => outcome[a] = "completed"

\* No attempt has anything to book at the start.
LEMMA SuccessInit == Init => SuccessInv
BY ShapesInit DEF Init, SuccessInv

\* Only a completed response has a provider success among its bookkeeping.
LEMMA BookkeepingSuccess ==
  ASSUME NEW o \in Outcomes, NEW p, NEW i \in 1 .. Len(Bookkeeping(o, p)),
         Bookkeeping(o, p)[i] = "resolveProviderSuccess"
  PROVE  o = "completed"
<1>1. CASE o \in {"skipped", "refused", "cancelled", "headers", "failed", "readCancelled"}
    BY <1>1 DEF Bookkeeping, Skipped, Settle, Blame
<1>2. CASE o = "quota"
  <2>1. Bookkeeping(o, p) = Settle \o <<"resolveProviderProbe", "resolveProbe">>
      BY <1>2, Zenon DEF Bookkeeping
  <2>2. /\ Len(Bookkeeping(o, p)) = 4
        /\ Bookkeeping(o, p)[1] = "resolveProbe" /\ Bookkeeping(o, p)[2] = "resolveProviderProbe"
        /\ Bookkeeping(o, p)[3] = "resolveProviderProbe" /\ Bookkeeping(o, p)[4] = "resolveProbe"
      BY <2>1 DEF Settle
  <2> QED BY <2>2
<1>3. CASE o \in {"account", "rejected", "abandoned", "gone"}
    BY <1>3 DEF Bookkeeping
<1> QED BY <1>1, <1>2, <1>3, Zenon DEF Outcomes

\* No attempt comes to book a provider success that it did not have.
LEMMA SuccessStep == SuccessInv /\ [Next]_vars => SuccessInv'
<1> SUFFICES ASSUME Shapes, Shapes', SuccessInv, [Next]_vars,
                    NEW a \in Attempts, NEW i \in 1 .. Len(todo'[a]),
                    todo'[a][i] = "resolveProviderSuccess"
             PROVE  outcome'[a] = "completed"
    BY ShapesStep, Zenon DEF SuccessInv
<1>1. ASSUME NEW b \in Attempts, Concludes(b) PROVE outcome'[a] = "completed"
  <2>1. PICK o \in Outcomes, ra \in Nat : Conclude(b, o, ra)
      BY <1>1, Zenon DEF Concludes
  <2>2. CASE a = b
      BY <2>1, <2>2, BookkeepingSuccess DEF Conclude, Shapes
  <2>3. CASE a # b
      BY <2>1, <2>3 DEF Conclude, Shapes, SuccessInv
  <2> QED BY <2>2, <2>3, Zenon
<1>2. ASSUME NEW b \in Attempts, Book(b) PROVE outcome'[a] = "completed"
  <2>1. CASE a = b
    <3>1. todo[a] \in Seq(Ops) /\ todo[a] # <<>> /\ todo'[a] = Tail(todo[a])
        BY <1>2, <2>1, Zenon DEF Book, Shapes
    <3>2. i + 1 \in 1 .. Len(todo[a]) /\ todo[a][i + 1] = todo'[a][i] /\ Len(todo[a]) # 1
        BY <3>1
    <3>3. outcome'[a] = outcome[a]
        BY <1>2, <2>1, <3>2, Zenon DEF Book
    <3> QED BY <3>2, <3>3, Zenon DEF SuccessInv
  <2>2. CASE a # b
    <3>1. todo'[a] = todo[a] /\ outcome'[a] = outcome[a]
        BY <1>2, <2>2, LeaveShapes DEF Book, Shapes
    <3> QED BY <3>1, Zenon DEF SuccessInv
  <2> QED BY <2>1, <2>2, Zenon
<1>3. ASSUME NEW b \in Attempts, Return(b) PROVE outcome'[a] = "completed"
  <2>1. a # b
      BY <1>3 DEF Return
  <2>2. todo'[a] = todo[a] /\ outcome'[a] = outcome[a]
      BY <1>3, <2>1, LeaveShapes, Zenon DEF Return
  <2> QED BY <2>2, Zenon DEF SuccessInv
<1>4. CASE UNCHANGED <<todo, outcome>>
    BY <1>4, Zenon DEF SuccessInv
<1> QED
    BY <1>1, <1>2, <1>3, <1>4, StepKinds, Zenon DEF Next, vars, Tick, TryStartProvider, Admitted

\* resolveProviderProbe and recordProviderFailure leave an open provider open:
\* its circuit closes only when one of its models completes a response.
THEOREM ProviderNeedsSuccess == Spec => ProviderClosesOnlyOnSuccess
<1> DEFINE Success(p) == \E a \in Attempts : outcome[a] = "completed" /\ ProviderOf[model[a]] = p
           Closes(p) == openFor[p] # Closed /\ openFor'[p] = Closed
<1>1. SuccessInv /\ [Next]_vars => [\A p \in Providers : Closes(p) => Success(p)]_vars
  <2> SUFFICES ASSUME SuccessInv, Next, NEW p \in Providers, Closes(p) PROVE Success(p)
      OBVIOUS
  <2>0. Shapes /\ p \in Circuits
      BY Zenon DEF SuccessInv, Circuits
  <2>1. CASE Tick
      BY <2>0, <2>1 DEF Tick, Shapes, Past, Closed
  <2>2. ASSUME NEW a \in Attempts, Book(a) PROVE Success(p)
    <3> DEFINE op == Head(todo[a])
               y == Target(op, model[a])
    <3>1. /\ op \in Ops /\ model[a] \in Models /\ retryAfter[a] \in Nat
          /\ Apply(op, model[a], retryAfter[a])
        BY <2>0, <2>2, BookApplies, Zenon
    <3>2. /\ \A z \in Circuits \ {y} : openFor'[z] = openFor[z]
          /\ op \in ProviderOps /\ openFor[y] # Closed /\ openFor'[y] = Closed =>
               op = "resolveProviderSuccess"
        BY <2>0, <3>1, ApplyDoes
    <3>3. p = y
        BY <2>0, <3>2, Zenon
    <3>4. op \in ProviderOps /\ ProviderOf[model[a]] = p
        BY <3>1, <3>3, TargetIsCircuit, BreakersAssumption, Zenon DEF Ops
    <3>5. todo[a] \in Seq(Ops) /\ todo[a] # <<>>
        BY <2>0, <2>2, Zenon DEF Book, Shapes
    <3>6. todo[a][1] = "resolveProviderSuccess" /\ 1 \in 1 .. Len(todo[a])
        BY <3>2, <3>3, <3>4, <3>5
    <3> QED BY <3>4, <3>6, Zenon DEF SuccessInv
  <2>3. CASE UNCHANGED openFor
      BY <2>3, Zenon
  <2> QED
      BY <2>1, <2>2, <2>3, StepKinds, Zenon DEF Next, TryStartProvider, Admitted, Concludes, Return
<1> QED BY <1>1, SuccessInit, SuccessStep, PTL DEF Spec, ProviderClosesOnlyOnSuccess

-----------------------------------------------------------------------------
\* The circuits of GlobalBreakerTransport, which are apart from the router's.
\* Both claims of the property, on top of the types.
HostInv == HostTypeOK /\ FailedHostStaysGuarded

\* All circuits start closed, and nobody is sent anywhere.
LEMMA HostInit == HostStart => HostInv
<1> SUFFICES ASSUME HostStart PROVE HostInv
    OBVIOUS
<1>1. HostTypeOK
    BY HostBreakerAssumption DEF HostStart, HostTypeOK, HostClosed
<1>2. FailedHostStaysGuarded
    BY HostBreakerAssumption DEF HostStart, FailedHostStaysGuarded
<1> QED BY <1>1, <1>2 DEF HostInv

\* What RoundTrip makes of an answer keeps a circuit with HostThreshold
\* failures from being closed: an error that reaches the threshold opens it, and
\* only a success, which forgets the failures, closes it.
LEMMA VerdictGuards ==
  ASSUME NEW n \in 0 .. HostThreshold, NEW open \in HostClosed .. HostCooldown,
         NEW answer \in Answers, NEW probing \in BOOLEAN,
         n >= HostThreshold => open # HostClosed
  PROVE  LET v == Verdict(n, open, answer, probing)
         IN  /\ v.failures \in 0 .. HostThreshold
             /\ v.openFor \in HostClosed .. HostCooldown
             /\ v.failures >= HostThreshold => v.openFor # HostClosed
BY HostBreakerAssumption DEF Answers, Verdict, HostClosed,
       CappedInc, Reopened, Forgiven

\* A caller that is let through, an answer and the clock keep both claims: the
\* probe of a host is taken only by a caller that stays with it until its
\* answer, and the clock never closes a circuit.
LEMMA HostStep == HostInv /\ [HostNext]_hostVars => HostInv'
<1> SUFFICES ASSUME HostInv, [HostNext]_hostVars PROVE HostInv'
    OBVIOUS
<1> USE DEF HostInv, HostTypeOK, FailedHostStaysGuarded
<1>1. CASE HostTick
  <2>1. ASSUME NEW n \in Nat PROVE Elapse(n) \in 0 .. n
      BY DEF Elapse
  <2>2. ASSUME NEW n \in HostClosed .. HostCooldown
        PROVE  /\ Elapse(n) \in HostClosed .. HostCooldown
               /\ n # HostClosed => Elapse(n) # HostClosed
      BY HostBreakerAssumption DEF Elapse, HostClosed
  <2>3. HostTypeOK'
    <3>1. hostOpenFor' \in [Hosts -> HostClosed .. HostCooldown]
        BY <1>1, <2>2 DEF HostTick
    <3>2. hostProbeFor' \in [Hosts -> 0 .. HostProbeTTL]
        BY <1>1, <2>1, HostBreakerAssumption DEF HostTick
    <3>3. claimFor' \in [Callers -> 0 .. HostProbeTTL]
        BY <1>1, <2>1, HostBreakerAssumption DEF HostTick
    <3> QED BY <1>1, <3>1, <3>2, <3>3 DEF HostTick
  <2>4. ASSUME NEW h \in Hosts, hostProbeFor'[h] > 0
        PROVE  \E r \in Callers : call'[r] = "probe" /\ host'[r] = h
    <3>1. hostProbeFor[h] > 0
        BY <1>1, <2>4 DEF HostTick, Elapse
    <3> QED BY <1>1, <3>1 DEF HostTick
  <2>5. ASSUME NEW h \in Hosts, hostFailures'[h] >= HostThreshold
        PROVE  hostOpenFor'[h] # HostClosed
    <3>1. hostOpenFor[h] # HostClosed
        BY <1>1, <2>5 DEF HostTick
    <3> QED BY <1>1, <2>2, <3>1 DEF HostTick
  <2> QED BY <2>3, <2>4, <2>5
<1>2. ASSUME NEW r \in Callers, NEW h \in Hosts, HostRefuses(r, h) PROVE HostInv'
    BY <1>2 DEF HostRefuses, hostVars
<1>3. ASSUME NEW r \in Callers, NEW h \in Hosts, Dispatch(r, h) PROVE HostInv'
  <2> DEFINE how == IF HostHalfOpen(h) THEN "probe" ELSE "ordinary"
  <2>1. /\ call[r] = "idle"
        /\ call' = [call EXCEPT ![r] = how]
        /\ host' = [host EXCEPT ![r] = h]
        /\ UNCHANGED <<hostFailures, hostOpenFor>>
      BY <1>3 DEF Dispatch
  <2>2. /\ hostProbeFor' \in [Hosts -> 0 .. HostProbeTTL]
        /\ claimFor' \in [Callers -> 0 .. HostProbeTTL]
      BY <1>3, HostBreakerAssumption DEF Dispatch
  <2>3. ASSUME NEW g \in Hosts, hostProbeFor'[g] > 0
        PROVE  \E s \in Callers : call'[s] = "probe" /\ host'[s] = g
    <3>1. CASE g = h /\ HostHalfOpen(h)
        BY <2>1, <3>1
    <3>2. CASE ~ (g = h /\ HostHalfOpen(h))
      <4>1. hostProbeFor[g] > 0
          BY <1>3, <2>3, <3>2 DEF Dispatch
      <4>2. PICK s \in Callers : call[s] = "probe" /\ host[s] = g
          BY <4>1
      <4> QED BY <2>1, <4>2
    <3> QED BY <3>1, <3>2
  <2> QED BY <2>1, <2>2, <2>3, Zenon
<1>4. ASSUME NEW r \in Callers, NEW answer \in Answers, HostReturns(r, answer)
      PROVE  HostInv'
  <2> DEFINE h == host[r]
             v == Verdict(hostFailures[h], hostOpenFor[h], answer, call[r] = "probe")
  <2>1. h \in Hosts
      OBVIOUS
  <2>2. /\ hostProbeFor' = [hostProbeFor EXCEPT ![h] = 0]
        /\ hostFailures' = [hostFailures EXCEPT ![h] = v.failures]
        /\ hostOpenFor' = [hostOpenFor EXCEPT ![h] = v.openFor]
        /\ call' = [call EXCEPT ![r] = "idle"]
        /\ claimFor' = [claimFor EXCEPT ![r] = 0]
        /\ host' = host
      BY <1>4 DEF HostReturns, ClaimAfter
  <2>3. /\ v.failures \in 0 .. HostThreshold
        /\ v.openFor \in HostClosed .. HostCooldown
        /\ v.failures >= HostThreshold => v.openFor # HostClosed
      BY <2>1, VerdictGuards, Zenon
  <2> HIDE DEF v
  <2>4. HostTypeOK'
      BY <2>1, <2>2, <2>3, HostBreakerAssumption
  <2>5. ASSUME NEW g \in Hosts, hostProbeFor'[g] > 0
        PROVE  \E s \in Callers : call'[s] = "probe" /\ host'[s] = g
    <3>1. g # h /\ hostProbeFor[g] > 0
        BY <2>1, <2>2, <2>5
    <3>2. PICK s \in Callers : call[s] = "probe" /\ host[s] = g
        BY <3>1
    <3> QED BY <2>2, <3>1, <3>2
  <2>6. ASSUME NEW g \in Hosts, hostFailures'[g] >= HostThreshold
        PROVE  hostOpenFor'[g] # HostClosed
      BY <2>1, <2>2, <2>3, <2>6
  <2> QED BY <2>4, <2>5, <2>6
<1>5. CASE UNCHANGED hostVars
    BY <1>5 DEF hostVars
<1> QED BY <1>1, <1>2, <1>3, <1>4, <1>5 DEF HostNext

\* GlobalBreakerTransport, for any number of hosts and of overlapping calls:
\* a host with HostThreshold errors on record is never treated as healthy,
\* and no host is guarded by a probe claim that nobody holds.
THEOREM FailedHostIsGuarded == HostSpec => []FailedHostStaysGuarded
<1>1. HostInv => FailedHostStaysGuarded
    BY DEF HostInv
<1> QED BY <1>1, HostInit, HostStep, PTL DEF HostSpec

=============================================================================
