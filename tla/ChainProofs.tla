---------------------------- MODULE ChainProofs ----------------------------
(***************************************************************************)
(* Theorems about the fallback chain and the admission slots, for every    *)
(* number of requests, slots and models, every plan and every assignment   *)
(* of models to providers.                                                 *)
(*                                                                         *)
(* A step changes one request, so the inductive invariant is a condition   *)
(* Good on a single request, together with what ties the requests to the   *)
(* admission slots.                                                        *)
(***************************************************************************)
EXTENDS Chain, FiniteSetTheorems, WellFoundedInduction, TLAPS

Waiting == {"arrive", "gate", "hold", "reacquire"}
Working == {"gate", "next", "attempt", "sent", "first_event"}
Looping == {"next", "attempt", "sent", "first_event"}

\* What the chain has learned rules model i out.
RuledOut(q, i) ==
  \/ i \in q.gone
  \/ Provider[i] \in q.down
  \/ i \in FreePool /\ Provider[i] \in q.pools

\* The models of the chain that were not tried and might have been.
Untried(q) == {i \in q.chain \ q.tried : ~ RuledOut(q, i)}

\* A request before its chain: the loop has left no trace in it.
Untouched(q) ==
  /\ q.chain = {} /\ q.at = 0
  /\ q.tried = {} /\ q.left = {}
  /\ q.gone = {} /\ q.down = {} /\ q.pools = {}
  /\ q.ticket = [i \in 1 .. N |-> "none"]

\* Where the open reservation may be: on the model to be tried next, which the
\* loop is bound to reach, or on the one being tried.
TicketInPlace(q) ==
  /\ q.pc = "next" => \A i \in Held(q) : /\ q.ticket[i] = "held"
                                         /\ i \in Executable(q, q.at)
                                         /\ \A j \in Executable(q, q.at) : i <= j
  /\ q.pc = "attempt" => q.at \in 1 .. N /\ Held(q) \subseteq {q.at} /\ q.ticket[q.at] # "local"
  /\ q.pc = "sent" => q.at \in 1 .. N /\ Held(q) \subseteq {q.at}
  /\ q.pc = "first_event" => q.at \in 1 .. N /\ Held(q) = {}
  /\ q.pc = "done" => Held(q) = {}

\* The loop passes over a model only if it tries it or knows it to be out.
PassedOver(q) ==
  /\ \A i \in q.left \cup q.tried : i <= q.at
  /\ q.pc \in Looping => \A i \in q.chain : i <= q.at => i \in q.tried \/ RuledOut(q, i)

Charged(q) ==
  \A i \in q.left : q.ticket[i] = "charged" \/ (q.pc = "sent" /\ q.at = i)

Judged(q) ==
  /\ q.pc # "done" => q.result = "none"
  /\ q.result = "exhausted" => Untried(q) = {}
  /\ q.result = "terminal" => Untried(q) # {}

Good(q) ==
  /\ q \in Request
  /\ q.pc \in Waiting => Untouched(q)
  /\ q.pc \in {"hold", "reacquire"} => q.wait <= q.budget
  /\ TicketInPlace(q)
  /\ PassedOver(q)
  /\ Charged(q)
  /\ Judged(q)

ChainInv ==
  /\ slots \subseteq Requests /\ IsFiniteSet(slots) /\ Cardinality(slots) <= Slots
  /\ req \in [Requests -> Request]
  /\ SlotWhileWorking
  /\ \A r \in Requests : Good(req[r])

\* First picks the least position of a non-empty set.
LEMMA FirstIsLeast ==
  ASSUME NEW S \in SUBSET (1 .. N), S # {}
  PROVE  First(S) \in S /\ \A j \in S : First(S) <= j
<1> DEFINE R == OpToRel(<, Nat)
<1>1. IsWellFoundedOn(R, Nat)
    BY NatLessThanWellFounded, Zenon
<1>2. S \subseteq Nat
    BY ChainAssumption
<1>3. \E i \in S : \A j \in S : ~(<<j, i>> \in R)
  <2> HIDE DEF R
  <2> QED BY <1>1, <1>2, WFMin, Zenon
<1>4. \E i \in S : \A j \in S : ~(j < i)
    BY <1>2, <1>3, Zenon DEF OpToRel
<1>5. \E i \in S : \A j \in S : i <= j
    BY <1>2, <1>4
<1> QED BY <1>5, Zenon DEF First

\* The executable models are the later ones of the chain not ruled out.
LEMMA ExecutableIs ==
  ASSUME NEW q \in Request
  PROVE  /\ Executable(q, q.at) \in SUBSET (1 .. N)
         /\ \A i \in 1 .. N : i \in Executable(q, q.at) <=>
                                i \in q.chain /\ i > q.at /\ ~ RuledOut(q, i)
<1>1. q.chain \in SUBSET (1 .. N)
    BY DEF Request
<1> QED BY <1>1 DEF Executable, RuledOut

\* Forgetting the hold leaves a request.
LEMMA PastGateType ==
  ASSUME NEW q \in Request
  PROVE  PastGate(q) \in Request
<1>1. 0 \in (0 - HoldSettle) .. HoldBudget
    BY ChainAssumption
<1> DEFINE b == [q EXCEPT !.budget = 0]
<1>2. b \in Request
    BY <1>1 DEF Request
<1>3. PastGate(q) = [b EXCEPT !.wait = 0]
    BY DEF PastGate
<1> HIDE DEF b
<1> QED BY <1>2, <1>3 DEF Request

\* What a request is when its handler is about to return.
CanReturn(q, result) ==
  /\ q \in Request
  /\ \A i \in Held(q) : q.ticket[i] = "held"
  /\ \A i \in q.left \cup q.tried : i <= q.at
  /\ \A i \in q.left : q.ticket[i] = "charged"
  /\ result = "exhausted" => Untried(q) = {}
  /\ result = "terminal" => Untried(q) # {}

\* Request r moves to the state q, and the admission slots follow.
MovesTo(r, q) ==
  /\ Good(q)
  /\ req' = [req EXCEPT ![r] = q]
  /\ \/ slots' = slots \ {r} /\ q.pc \notin Working
     \/ slots' = slots \cup {r} /\ ~ Full /\ q.pc \in Working
     \/ slots' = slots /\ (q.pc \in Working <=> req[r].pc \in Working)

Moves(r) == \E q : MovesTo(r, q)

\* The deferred releases leave a good request, whichever way the handler ends.
LEMMA FinishMoves ==
  ASSUME NEW r \in Requests, NEW s, NEW result \in Results, CanReturn(s, result),
         Finish(r, s, result)
  PROVE  Moves(r)
<1> DEFINE q == [Returned(s) EXCEPT !.result = result, !.ticket = Released(@)]
<1>1. s \in Request
    BY DEF CanReturn
<1>2. Released(s.ticket) \in [1 .. N -> Tickets]
    BY <1>1, Zenon DEF Request, Released, Tickets
<1>3. q \in Request
  <2>1. PastGate(s) \in Request
      BY <1>1, PastGateType
  <2>2. Returned(s) \in Request /\ Returned(s).ticket = s.ticket
      BY <1>1, <2>1, Zenon DEF Request, Returned, PastGate
  <2> QED BY <1>2, <2>2, Zenon DEF Request
<1>4. /\ q.pc = "done" /\ q.result = result /\ q.ticket = Released(s.ticket)
      /\ q.at = s.at /\ q.chain = s.chain /\ q.tried = s.tried /\ q.left = s.left
      /\ q.gone = s.gone /\ q.down = s.down /\ q.pools = s.pools
    BY <1>1 DEF Request, Returned, PastGate
<1>5. req' = [req EXCEPT ![r] = q] /\ slots' = slots \ {r}
    BY DEF Finish
<1> HIDE DEF q
<1>6. \A i \in 1 .. N : q.ticket[i] = IF s.ticket[i] = "held" THEN "released" ELSE s.ticket[i]
    BY <1>4 DEF Released
<1>7. Held(q) = {}
    BY <1>6 DEF Held, CanReturn
<1>8. Untried(q) = Untried(s)
    BY <1>4 DEF Untried, RuledOut
<1>9. s.left \in SUBSET (1 .. N)
    BY <1>1 DEF Request
<1>10. Charged(q)
    BY <1>4, <1>6, <1>9 DEF Charged, CanReturn
<1>11. TicketInPlace(q) /\ PassedOver(q) /\ Judged(q)
    BY <1>4, <1>7, <1>8 DEF TicketInPlace, PassedOver, Judged, CanReturn, Looping
<1>12. Good(q)
    BY <1>3, <1>4, <1>10, <1>11 DEF Good, Waiting
<1> QED BY <1>4, <1>5, <1>12, Zenon DEF Moves, MovesTo, Working

-----------------------------------------------------------------------------
\* Before the loop.

\* A request whose loop has not begun is good.
LEMMA UntouchedIsGood ==
  ASSUME NEW q \in Request, q.pc \in Waiting, Untouched(q), q.result = "none",
         q.pc \in {"hold", "reacquire"} => q.wait <= q.budget
  PROVE  Good(q)
<1>1. Held(q) = {}
    BY DEF Held, Untouched
<1> QED
    BY <1>1 DEF Good, Waiting, Untouched, TicketInPlace, PassedOver, Charged, Judged, Looping

\* It may be refused with every verdict that is not about its chain.
LEMMA WaitingReturns ==
  ASSUME NEW q, Good(q), q.pc \in Waiting, NEW result \in Results \ {"exhausted", "terminal"}
  PROVE  CanReturn(q, result)
<1>1. q \in Request /\ Untouched(q)
    BY DEF Good
<1>2. Held(q) = {}
    BY <1>1 DEF Held, Untouched
<1> QED BY <1>1, <1>2 DEF CanReturn, Untouched

\* The gate, the hold and the admission slots.
LEMMA GateMoves ==
  ASSUME ChainInv, NEW r \in Requests,
         \/ Acquire(r) \/ Reject(r) \/ RefuseCapability(r) \/ Refuse(r)
         \/ \E w \in HoldWaits : Hold(r, w)
         \/ HoldRefused(r) \/ HoldOver(r) \/ Reacquire(r)
  PROVE  Moves(r)
<1> DEFINE q == req[r]
<1>0. /\ Good(q) /\ q \in Request
      /\ r \in slots <=> q.pc \in Working
    BY DEF ChainInv, Good, SlotWhileWorking, Working
<1>1. ASSUME NEW p \in Request, req' = [req EXCEPT ![r] = p], q.pc \in Waiting,
             p.pc \in Waiting, p.result = q.result,
             p.chain = q.chain, p.at = q.at, p.tried = q.tried, p.left = q.left,
             p.gone = q.gone, p.down = q.down, p.pools = q.pools, p.ticket = q.ticket,
             p.pc \in {"hold", "reacquire"} => p.wait <= p.budget
      PROVE  Good(p)
  <2>1. q.result = "none" /\ Untouched(q)
      BY <1>0, <1>1 DEF Good, Judged, Waiting
  <2>2. Untouched(p)
      BY <1>1, <2>1 DEF Untouched
  <2> QED BY <1>1, <2>1, <2>2, UntouchedIsGood
<1>2. CASE Reject(r) \/ RefuseCapability(r) \/ Refuse(r) \/ HoldRefused(r)
  <2>1. PICK result \in Results \ {"exhausted", "terminal"} : Finish(r, q, result)
      BY <1>2 DEF Reject, RefuseCapability, Refuse, HoldRefused, Results
  <2>2. q.pc \in Waiting
      BY <1>2 DEF Reject, RefuseCapability, Refuse, HoldRefused, Waiting
  <2>3. CanReturn(q, result)
      BY <1>0, <2>2, WaitingReturns
  <2> QED BY <2>1, <2>3, FinishMoves
<1>3. CASE Acquire(r)
  <2> DEFINE p == [q EXCEPT !.pc = "gate"]
  <2>1. req' = [req EXCEPT ![r] = p] /\ q.pc = "arrive" /\ ~ Full /\ slots' = slots \cup {r}
      BY <1>3 DEF Acquire
  <2>2. p \in Request
      BY <1>0 DEF Request
  <2>3. /\ p.pc = "gate" /\ p.result = q.result
        /\ p.chain = q.chain /\ p.at = q.at /\ p.tried = q.tried /\ p.left = q.left
        /\ p.gone = q.gone /\ p.down = q.down /\ p.pools = q.pools /\ p.ticket = q.ticket
      BY <1>0 DEF Request
  <2> HIDE DEF p, q
  <2>4. Good(p)
      BY <1>1, <2>1, <2>2, <2>3, Zenon DEF Waiting
  <2> QED BY <2>1, <2>3, <2>4, Zenon DEF Moves, MovesTo, Working
<1>4. ASSUME NEW w \in HoldWaits, Hold(r, w) PROVE Moves(r)
  <2> DEFINE p == [q EXCEPT !.pc = "hold", !.wait = w]
  <2>1. /\ req' = [req EXCEPT ![r] = p] /\ q.pc = "gate" /\ w <= q.budget
        /\ slots' = slots \ {r}
      BY <1>4, Zenon DEF Hold
  <2>2. p \in Request
      BY <1>0, Zenon DEF Request
  <2>3. /\ p.pc = "hold" /\ p.wait = w /\ p.budget = q.budget /\ p.result = q.result
        /\ p.chain = q.chain /\ p.at = q.at /\ p.tried = q.tried /\ p.left = q.left
        /\ p.gone = q.gone /\ p.down = q.down /\ p.pools = q.pools /\ p.ticket = q.ticket
      BY <1>0 DEF Request
  <2> HIDE DEF p, q
  <2>4. Good(p)
      BY <1>1, <2>1, <2>2, <2>3, Zenon DEF Waiting
  <2> QED BY <2>1, <2>3, <2>4, Zenon DEF Moves, MovesTo, Working
<1>5. CASE HoldOver(r)
  <2> DEFINE p == [q EXCEPT !.pc = "reacquire"]
  <2>1. req' = [req EXCEPT ![r] = p] /\ q.pc = "hold" /\ slots' = slots
      BY <1>5 DEF HoldOver
  <2>2. p \in Request
      BY <1>0 DEF Request
  <2>3. /\ p.pc = "reacquire" /\ p.wait = q.wait /\ p.budget = q.budget /\ p.result = q.result
        /\ p.chain = q.chain /\ p.at = q.at /\ p.tried = q.tried /\ p.left = q.left
        /\ p.gone = q.gone /\ p.down = q.down /\ p.pools = q.pools /\ p.ticket = q.ticket
      BY <1>0 DEF Request
  <2>4. q.wait <= q.budget
      BY <1>0, <2>1 DEF Good
  <2>5. q.pc \notin Working
      BY <2>1 DEF Working
  <2> HIDE DEF p
  <2>6. Good(p)
      BY <1>1, <2>1, <2>2, <2>3, <2>4, Zenon DEF Waiting
  <2> QED BY <2>1, <2>3, <2>5, <2>6, Zenon DEF Moves, MovesTo, Working
<1>6. CASE Reacquire(r)
  <2> DEFINE b == q.budget - (q.wait + HoldSettle)
             p == [q EXCEPT !.pc = "gate", !.budget = b, !.wait = 0]
  <2>1. req' = [req EXCEPT ![r] = p] /\ q.pc = "reacquire" /\ ~ Full /\ slots' = slots \cup {r}
      BY <1>6, Zenon DEF Reacquire
  <2>2. b \in (0 - HoldSettle) .. HoldBudget
    <3>1. /\ q.wait <= q.budget
          /\ q.wait \in HoldWaits \cup {0}
          /\ q.budget \in (0 - HoldSettle) .. HoldBudget
        BY <1>0, <2>1 DEF Good, Request
    <3>2. q.wait \in Nat
      <4>1. q.wait \in HoldWaits \cup {0}
          BY <3>1
      <4>2. HoldWaits \cup {0} \subseteq Nat
          BY ChainAssumption
      <4> QED BY <4>1, <4>2, Zenon
    <3>3. \A bb \in Int, ww \in Nat, h \in Nat, m \in Nat :
             ww <= bb /\ bb <= m => bb - (ww + h) \in (0 - h) .. m
        OBVIOUS
    <3> QED BY <3>1, <3>2, <3>3, ChainAssumption
  <2> HIDE DEF b
  <2>3. p \in Request
      BY <1>0, <2>2, Zenon DEF Request
  <2>4. /\ p.pc = "gate" /\ p.result = q.result
        /\ p.chain = q.chain /\ p.at = q.at /\ p.tried = q.tried /\ p.left = q.left
        /\ p.gone = q.gone /\ p.down = q.down /\ p.pools = q.pools /\ p.ticket = q.ticket
      BY <1>0 DEF Request
  <2> HIDE DEF p, q
  <2>5. Good(p)
      BY <1>1, <2>1, <2>3, <2>4, Zenon DEF Waiting
  <2> QED BY <2>1, <2>4, <2>5, Zenon DEF Moves, MovesTo, Working
<1> QED BY <1>2, <1>3, <1>4, <1>5, <1>6

\* quotaRankAndReserve leaves the one reservation on the model that the loop
\* turns to first.
LEMMA RankMoves ==
  ASSUME ChainInv, NEW r \in Requests, NEW chain \in SUBSET Planned[r],
         RankAndReserve(r, chain)
  PROVE  Moves(r)
<1> DEFINE q == req[r]
           f == First(chain)
           t == [q.ticket EXCEPT ![f] = "held"]
           p == [PastGate(q) EXCEPT !.pc = "next", !.chain = chain, !.ticket = t]
<1>1. Good(q) /\ q \in Request /\ q.pc = "gate" /\ Untouched(q) /\ q.result = "none"
    BY DEF ChainInv, Good, RankAndReserve, Waiting, Judged
<1>2. chain \in SUBSET (1 .. N) /\ chain # {}
    BY ChainAssumption DEF RankAndReserve
<1>3. f \in chain /\ \A j \in chain : f <= j
    BY <1>2, FirstIsLeast
<1>4. PastGate(q) \in Request
    BY <1>1, PastGateType
<1>5. /\ PastGate(q).ticket = q.ticket /\ PastGate(q).at = 0
      /\ PastGate(q).tried = {} /\ PastGate(q).left = {} /\ PastGate(q).gone = {}
      /\ PastGate(q).down = {} /\ PastGate(q).pools = {} /\ PastGate(q).result = "none"
    BY <1>1 DEF Request, PastGate, Untouched
<1>6. req' = [req EXCEPT ![r] = p] /\ slots' = slots
    BY <1>5, Zenon DEF RankAndReserve
<1>7. t \in [1 .. N -> Tickets]
    BY <1>1, Zenon DEF Request, Tickets
<1>8. \A i \in 1 .. N : t[i] = IF i = f THEN "held" ELSE "none"
    BY <1>1, <1>2, <1>3 DEF Untouched
<1> HIDE DEF f, t, q
<1>9. p \in Request
    BY <1>2, <1>4, <1>7, Zenon DEF Request
<1>10. /\ p.pc = "next" /\ p.chain = chain /\ p.ticket = t /\ p.at = 0 /\ p.tried = {}
       /\ p.left = {} /\ p.gone = {} /\ p.down = {} /\ p.pools = {} /\ p.result = "none"
    BY <1>4, <1>5 DEF Request
<1> HIDE DEF p
<1>11. Executable(p, p.at) = chain
  <2>1. \A i \in 1 .. N : i \in Executable(p, p.at) <=> i \in chain
      BY <1>9, <1>10, ExecutableIs DEF RuledOut
  <2> QED BY <1>2, <1>9, <2>1, ExecutableIs, Zenon
<1>12. Held(p) \subseteq {f}
    BY <1>8, <1>10 DEF Held
<1>13. TicketInPlace(p)
    BY <1>2, <1>3, <1>8, <1>10, <1>11, <1>12, Zenon DEF TicketInPlace
<1>14. PassedOver(p) /\ Charged(p) /\ Judged(p)
  <2>1. \A i \in chain : ~ (i <= 0)
      BY <1>2
  <2> QED BY <1>10, <2>1 DEF PassedOver, Charged, Judged
<1>15. Good(p)
    BY <1>9, <1>10, <1>13, <1>14 DEF Good, Waiting
<1> QED BY <1>1, <1>6, <1>10, <1>15, Zenon DEF Moves, MovesTo, Working, q

-----------------------------------------------------------------------------
\* The loop.

\* When nothing executable is left, nothing is left untried.
LEMMA NothingLeft ==
  ASSUME NEW q \in Request, PassedOver(q), q.pc \in Looping
  PROVE  Executable(q, q.at) = {} <=> Untried(q) = {}
<1>1. q.chain \in SUBSET (1 .. N) /\ q.at \in Nat /\ q.tried \in SUBSET (1 .. N)
    BY ChainAssumption DEF Request
<1>2. \A i \in q.chain : i \in Nat
    BY <1>1
<1>3. \A i \in q.chain : i \in Untried(q) => i \in Executable(q, q.at)
    BY <1>1, <1>2, ExecutableIs DEF PassedOver, Untried
<1>4. \A i \in q.chain : i \in Executable(q, q.at) => i \in Untried(q)
    BY <1>1, <1>2, ExecutableIs DEF PassedOver, Untried
<1>5. Untried(q) \subseteq q.chain /\ Executable(q, q.at) \subseteq q.chain
    BY DEF Untried, Executable
<1> QED BY <1>3, <1>4, <1>5

\* classifyChainFailure of a chain whose own reason is right.
LEMMA FailedMoves ==
  ASSUME NEW r \in Requests, NEW s \in Request, NEW reason \in {"exhausted", "terminal"},
         s.ctx \in {"live", "cancelled", "expired"},
         CanReturn(s, reason), ChainFailed(r, s, reason)
  PROVE  Moves(r)
<1>1. PICK result \in {"cancelled", "total_timeout", reason} : Finish(r, s, result)
    BY DEF ChainFailed
<1>2. CanReturn(s, result) /\ result \in Results
    BY DEF CanReturn, Results
<1> QED BY <1>1, <1>2, FinishMoves

\* Execute turns to the next attempt, or the chain is over.
LEMMA BeginMoves ==
  ASSUME ChainInv, NEW r \in Requests, Begin(r)
  PROVE  Moves(r)
<1> DEFINE q == req[r]
           later == Executable(q, q.at)
           f == First(later)
           p == [q EXCEPT !.pc = "attempt", !.at = f, !.tried = @ \cup {f}]
<1>1. Good(q) /\ q \in Request /\ q.pc = "next" /\ q.result = "none"
    BY DEF ChainInv, Good, Begin, Judged
<1>2. later \in SUBSET (1 .. N)
    BY <1>1, ExecutableIs
<1>3. CASE later = {}
  <2>1. ChainFailed(r, q, "exhausted")
      BY <1>3 DEF Begin
  <2>2. Untried(q) = {}
      BY <1>1, <1>3, NothingLeft DEF Good, Looping
  <2>3. CanReturn(q, "exhausted")
      BY <1>1, <2>2 DEF CanReturn, Good, TicketInPlace, PassedOver, Charged
  <2>4. q.ctx \in {"live", "cancelled", "expired"}
      BY <1>1 DEF Request
  <2> QED BY <1>1, <2>1, <2>3, <2>4, FailedMoves
<1>4. CASE later # {}
  <2>1. req' = [req EXCEPT ![r] = p] /\ slots' = slots
      BY <1>4, Zenon DEF Begin
  <2>2. f \in later /\ \A j \in later : f <= j
      BY <1>2, <1>4, FirstIsLeast
  <2>3. f \in 1 .. N /\ f > q.at /\ f \in q.chain
      BY <1>1, <1>2, <2>2, ExecutableIs
  <2> HIDE DEF f
  <2>4. p \in Request
    <3>1. f \in 0 .. N /\ q.tried \cup {f} \in SUBSET (1 .. N)
        BY <1>1, <2>3, ChainAssumption DEF Request
    <3> QED BY <1>1, <3>1, Zenon DEF Request
  <2>5. /\ p.pc = "attempt" /\ p.at = f /\ p.tried = q.tried \cup {f}
        /\ p.chain = q.chain /\ p.ticket = q.ticket /\ p.left = q.left /\ p.gone = q.gone
        /\ p.down = q.down /\ p.pools = q.pools /\ p.result = "none"
      BY <1>1 DEF Request
  <2> HIDE DEF p, q
  <2>6. Held(p) = Held(q)
      BY <2>5 DEF Held
  <2>7. \A i \in Held(q) : q.ticket[i] = "held" /\ i \in later /\ \A j \in later : i <= j
      BY <1>1 DEF Good, TicketInPlace
  <2>8. Held(p) \subseteq {f}
      BY <1>2, <2>2, <2>3, <2>6, <2>7
  <2>9. p.ticket[f] # "local"
      BY <2>3, <2>5, <2>7 DEF Held
  <2>10. TicketInPlace(p)
      BY <2>3, <2>5, <2>8, <2>9 DEF TicketInPlace
  <2>11. /\ q.at \in Nat /\ f \in Nat
         /\ q.left \in SUBSET Nat /\ q.tried \in SUBSET Nat /\ q.chain \in SUBSET (1 .. N)
      BY <1>1, <2>3, ChainAssumption DEF Request
  <2>12. \A i \in p.left \cup p.tried : i <= p.at
      BY <1>1, <2>3, <2>5, <2>11 DEF Good, PassedOver
  <2>13. ASSUME NEW i \in p.chain, i <= p.at PROVE i \in p.tried \/ RuledOut(p, i)
    <3>1. i \in 1 .. N /\ i \in q.chain
        BY <2>5, <2>11, <2>13
    <3>2. RuledOut(p, i) <=> RuledOut(q, i)
        BY <2>5 DEF RuledOut
    <3>3. CASE i <= q.at
        BY <1>1, <2>5, <3>1, <3>2, <3>3 DEF Good, PassedOver, Looping
    <3>4. CASE i > q.at
      <4>1. i \in later <=> ~ RuledOut(q, i)
          BY <1>1, <3>1, <3>4, ExecutableIs
      <4>2. i \in later => i = f
          BY <2>2, <2>5, <2>11, <2>13, <3>1
      <4> QED BY <2>5, <3>2, <4>1, <4>2
    <3> QED BY <2>11, <3>1, <3>3, <3>4
  <2>14. PassedOver(p)
      BY <2>12, <2>13 DEF PassedOver
  <2>15. Charged(p) /\ Judged(p)
      BY <1>1, <2>5 DEF Good, Charged, Judged
  <2>16. Good(p)
      BY <2>4, <2>5, <2>10, <2>14, <2>15 DEF Good, Waiting
  <2> QED BY <1>1, <2>1, <2>5, <2>16, Zenon DEF Moves, MovesTo, Working, q
<1> QED BY <1>3, <1>4

\* An attempt that is not sent gives its reservation back.
LEMMA SkipMoves ==
  ASSUME ChainInv, NEW r \in Requests, Skip(r)
  PROVE  Moves(r)
<1> DEFINE q == req[r]
           t == [q.ticket EXCEPT ![q.at] = IF @ = "held" THEN "released" ELSE @]
           p == [q EXCEPT !.pc = "next", !.ticket = t]
<1>1. Good(q) /\ q \in Request /\ q.pc = "attempt" /\ q.result = "none" /\ slots' = slots
    BY DEF ChainInv, Good, Skip, Judged
<1>2. req' = [req EXCEPT ![r] = p]
    BY Zenon DEF Skip
<1>3. /\ q.at \in 1 .. N /\ Held(q) \subseteq {q.at} /\ q.ticket[q.at] # "local"
      /\ q.ticket \in [1 .. N -> Tickets] /\ q.left \in SUBSET (1 .. N)
    BY <1>1 DEF Good, TicketInPlace, Request
<1>4. t \in [1 .. N -> Tickets]
    BY <1>3, Zenon DEF Tickets
<1>5. \A i \in 1 .. N : t[i] = IF i = q.at /\ q.ticket[i] = "held" THEN "released" ELSE q.ticket[i]
    BY <1>3, Zenon
<1> HIDE DEF t
<1>6. p \in Request
    BY <1>1, <1>4, Zenon DEF Request
<1>7. /\ p.pc = "next" /\ p.ticket = t /\ p.at = q.at /\ p.tried = q.tried
      /\ p.chain = q.chain /\ p.left = q.left /\ p.gone = q.gone
      /\ p.down = q.down /\ p.pools = q.pools /\ p.result = "none"
    BY <1>1 DEF Request
<1> HIDE DEF p, q
<1>8. Held(p) = {}
    BY <1>3, <1>5, <1>7 DEF Held
<1>9. TicketInPlace(p)
    BY <1>7, <1>8 DEF TicketInPlace
<1>10. PassedOver(p)
    BY <1>1, <1>7 DEF Good, PassedOver, Looping, RuledOut
<1>11. Charged(p)
    BY <1>1, <1>3, <1>5, <1>7 DEF Good, Charged
<1>12. Good(p)
    BY <1>6, <1>7, <1>9, <1>10, <1>11 DEF Good, Waiting, Judged
<1> QED BY <1>1, <1>2, <1>7, <1>12, Zenon DEF Moves, MovesTo, Working, q

\* An attempt that is sent has a reservation of its own.
LEMMA SendMoves ==
  ASSUME ChainInv, NEW r \in Requests, Send(r)
  PROVE  Moves(r)
<1> DEFINE q == req[r]
           t == [q.ticket EXCEPT ![q.at] = IF @ = "held" THEN @ ELSE "local"]
           l == IF q.ctx = "live" THEN q.left \cup {q.at} ELSE q.left
           p == [q EXCEPT !.pc = "sent", !.ticket = t, !.left = l]
<1>1. Good(q) /\ q \in Request /\ q.pc = "attempt" /\ q.result = "none" /\ slots' = slots
    BY DEF ChainInv, Good, Send, Judged
<1>2. req' = [req EXCEPT ![r] = p]
    BY Zenon DEF Send
<1>3. /\ q.at \in 1 .. N /\ Held(q) \subseteq {q.at}
      /\ q.ticket \in [1 .. N -> Tickets] /\ q.left \in SUBSET (1 .. N)
    BY <1>1 DEF Good, TicketInPlace, Request
<1>4. t \in [1 .. N -> Tickets] /\ l \in SUBSET (1 .. N)
    BY <1>3 DEF Tickets
<1>5. \A i \in 1 .. N : i # q.at => t[i] = q.ticket[i]
    BY <1>3
<1>6. \A i \in l : i \in q.left \/ i = q.at
    OBVIOUS
<1> HIDE DEF t, l
<1>7. p \in Request
    BY <1>1, <1>4, Zenon DEF Request
<1>8. /\ p.pc = "sent" /\ p.ticket = t /\ p.at = q.at /\ p.tried = q.tried
      /\ p.chain = q.chain /\ p.left = l /\ p.gone = q.gone
      /\ p.down = q.down /\ p.pools = q.pools /\ p.result = "none"
    BY <1>1 DEF Request
<1> HIDE DEF p, q
<1>9. Held(p) \subseteq {p.at}
    BY <1>3, <1>5, <1>8 DEF Held
<1>10. TicketInPlace(p)
    BY <1>3, <1>8, <1>9 DEF TicketInPlace
<1>11. PassedOver(p)
    BY <1>1, <1>3, <1>6, <1>8 DEF Good, PassedOver, Looping, RuledOut
<1>12. Charged(p)
    BY <1>1, <1>3, <1>5, <1>6, <1>8 DEF Good, Charged
<1>13. Good(p)
    BY <1>7, <1>8, <1>10, <1>11, <1>12 DEF Good, Waiting, Judged
<1> QED BY <1>1, <1>2, <1>8, <1>13, Zenon DEF Moves, MovesTo, Working, q

\* The answer settles the reservation: no other is open.
LEMMA SettledIs ==
  ASSUME NEW q \in Request, Good(q), q.pc = "sent", NEW answer
  PROVE  LET s == Settled(q, answer)
         IN  /\ s \in Request
             /\ s.pc = "sent" /\ s.at = q.at /\ s.tried = q.tried /\ s.chain = q.chain
             /\ s.left = q.left /\ s.gone = q.gone /\ s.down = q.down
             /\ s.pools = q.pools /\ s.result = q.result /\ s.ctx = q.ctx
             /\ Held(s) = {}
             /\ \A i \in s.left : s.ticket[i] = "charged"
             /\ PassedOver(s)
<1> DEFINE t == [q.ticket EXCEPT ![q.at] = "charged"]
           u == IF Blames(answer) THEN q.unfair \cup ({q.at} \ q.left) ELSE q.unfair
           s == [q EXCEPT !.ticket = t, !.unfair = u]
<1>1. Settled(q, answer) = s
    BY DEF Settled
<1>2. /\ q.at \in 1 .. N /\ Held(q) \subseteq {q.at}
      /\ q.ticket \in [1 .. N -> Tickets] /\ q.left \in SUBSET (1 .. N)
      /\ q.unfair \in SUBSET (1 .. N)
    BY DEF Good, TicketInPlace, Request
<1>3. t \in [1 .. N -> Tickets] /\ u \in SUBSET (1 .. N)
    BY <1>2 DEF Tickets
<1>4. \A i \in 1 .. N : t[i] = IF i = q.at THEN "charged" ELSE q.ticket[i]
    BY <1>2, Zenon
<1> HIDE DEF t, u
<1>5. s \in Request
    BY <1>3, Zenon DEF Request
<1>6. /\ s.pc = "sent" /\ s.at = q.at /\ s.tried = q.tried /\ s.chain = q.chain
      /\ s.left = q.left /\ s.gone = q.gone /\ s.down = q.down /\ s.ticket = t
      /\ s.pools = q.pools /\ s.result = q.result /\ s.ctx = q.ctx
    BY DEF Request
<1> HIDE DEF s
<1>7. Held(s) = {}
    BY <1>2, <1>4, <1>6 DEF Held
<1>8. \A i \in s.left : s.ticket[i] = "charged"
    BY <1>2, <1>4, <1>6 DEF Good, Charged
<1>9. PassedOver(s)
    BY <1>6 DEF Good, PassedOver, Looping, RuledOut
<1> QED BY <1>1, <1>5, <1>6, <1>7, <1>8, <1>9

\* What executeAttempt reports ends the chain or moves it on; what it teaches
\* only adds to what is ruled out.
LEMMA AnswerMoves ==
  ASSUME ChainInv, NEW r \in Requests, NEW answer, Answer(r, answer)
  PROVE  Moves(r)
<1> DEFINE q == req[r]
           s == Settled(q, answer)
           pc == IF answer = "headers" THEN "first_event" ELSE "next"
           down == IF answer \in {"account", "incompatible"}
                     THEN s.down \cup {Provider[q.at]} ELSE s.down
           pools == IF answer = "pool" THEN s.pools \cup {Provider[q.at]} ELSE s.pools
           p == [s EXCEPT !.pc = pc, !.down = down, !.pools = pools]
<1>1. Good(q) /\ q \in Request /\ q.pc = "sent" /\ q.result = "none" /\ q.at \in 1 .. N
    BY DEF ChainInv, Good, Answer, Judged, TicketInPlace
<1>2. /\ s \in Request /\ s.pc = "sent" /\ s.at = q.at /\ s.result = "none"
      /\ Held(s) = {} /\ (\A i \in s.left : s.ticket[i] = "charged")
      /\ PassedOver(s)
    BY <1>1, SettledIs
<1>3. s.ctx \in {"live", "cancelled", "expired"}
    BY <1>2 DEF Request
<1>4. \/ answer = "ok" /\ Finish(r, s, "served")
      \/ ChainFailed(r, s, IF Executable(s, s.at) # {} THEN "terminal" ELSE "exhausted")
      \/ req' = [req EXCEPT ![r] = p] /\ slots' = slots
    BY DEF Answer
<1> HIDE DEF s
<1>5. CASE Finish(r, s, "served")
  <2>1. CanReturn(s, "served")
      BY <1>2 DEF CanReturn, PassedOver
  <2> QED BY <1>5, <2>1, FinishMoves DEF Results
<1>6. CASE ChainFailed(r, s, IF Executable(s, s.at) # {} THEN "terminal" ELSE "exhausted")
  <2> DEFINE reason == IF Executable(s, s.at) # {} THEN "terminal" ELSE "exhausted"
  <2>1. Executable(s, s.at) = {} <=> Untried(s) = {}
      BY <1>2, NothingLeft DEF Looping
  <2>2. CanReturn(s, reason) /\ reason \in {"exhausted", "terminal"}
      BY <1>2, <2>1 DEF CanReturn, PassedOver
  <2> HIDE DEF reason
  <2> QED BY <1>2, <1>3, <1>6, <2>2, FailedMoves DEF reason
<1>7. CASE req' = [req EXCEPT ![r] = p] /\ slots' = slots
  <2>1. /\ pc \in {"first_event", "next"}
        /\ down \in SUBSET Providers /\ s.down \subseteq down
        /\ pools \in SUBSET Providers /\ s.pools \subseteq pools
    <3>1. Provider[q.at] \in Providers
        BY <1>1 DEF Providers
    <3> QED BY <1>2, <3>1 DEF Request
  <2> HIDE DEF pc, down, pools
  <2>2. p \in Request
      BY <1>2, <2>1, Zenon DEF Request
  <2>3. /\ p.pc = pc /\ p.ticket = s.ticket /\ p.at = s.at /\ p.tried = s.tried
        /\ p.chain = s.chain /\ p.left = s.left /\ p.gone = s.gone
        /\ p.down = down /\ p.pools = pools /\ p.result = "none"
      BY <1>2 DEF Request
  <2> HIDE DEF p, q
  <2>4. Held(p) = {}
      BY <1>2, <2>3 DEF Held
  <2>5. TicketInPlace(p)
      BY <1>1, <1>2, <2>1, <2>3, <2>4 DEF TicketInPlace
  <2>6. \A i \in p.chain : RuledOut(s, i) => RuledOut(p, i)
      BY <2>1, <2>3 DEF RuledOut
  <2>7. PassedOver(p)
      BY <1>2, <2>3, <2>6 DEF PassedOver, Looping
  <2>8. Charged(p)
      BY <1>2, <2>3 DEF Charged
  <2>9. Good(p)
      BY <2>1, <2>2, <2>3, <2>5, <2>7, <2>8 DEF Good, Waiting, Judged
  <2> QED BY <1>1, <1>7, <2>1, <2>3, <2>9, Zenon DEF Moves, MovesTo, Working, q
<1> QED BY <1>4, <1>5, <1>6, <1>7

\* A stream that is given up leaves the chain to the model reserved for it.
LEMMA AbandonMoves ==
  ASSUME ChainInv, NEW r \in Requests, NEW j \in 1 .. N, Abandon(r, j)
  PROVE  /\ Moves(r)
         /\ req'[r].ticket[j] = "held" /\ j \in Executable(req'[r], req'[r].at)
<1> DEFINE q == req[r]
           later == Executable(q, q.at)
           t == [q.ticket EXCEPT ![j] = "held"]
           g == q.gone \cup {i \in later : i < j}
           p == [q EXCEPT !.pc = "next", !.ticket = t, !.gone = g]
<1>1. Good(q) /\ q \in Request /\ q.pc = "first_event" /\ q.result = "none" /\ Held(q) = {}
    BY DEF ChainInv, Good, Abandon, Judged, TicketInPlace
<1>2. req' = [req EXCEPT ![r] = p] /\ slots' = slots /\ j \in later
    BY Zenon DEF Abandon, Reserved
<1>3. later \in SUBSET (1 .. N) /\ j \in q.chain /\ j > q.at /\ ~ RuledOut(q, j)
    BY <1>1, <1>2, ExecutableIs
<1>4. /\ q.ticket \in [1 .. N -> Tickets] /\ q.left \in SUBSET (1 .. N)
      /\ q.gone \in SUBSET (1 .. N) /\ q.at \in Nat
    BY <1>1, ChainAssumption DEF Request
<1>5. t \in [1 .. N -> Tickets] /\ g \in SUBSET (1 .. N)
    BY <1>3, <1>4 DEF Tickets
<1>6. \A i \in 1 .. N : t[i] = IF i = j THEN "held" ELSE q.ticket[i]
    BY <1>4, Zenon
<1>7. \A i \in 1 .. N : i \in g <=> i \in q.gone \/ (i \in later /\ i < j)
    OBVIOUS
<1> HIDE DEF t, g
<1>8. p \in Request
    BY <1>1, <1>5, Zenon DEF Request
<1>9. /\ p.pc = "next" /\ p.ticket = t /\ p.at = q.at /\ p.tried = q.tried
      /\ p.chain = q.chain /\ p.left = q.left /\ p.gone = g
      /\ p.down = q.down /\ p.pools = q.pools /\ p.result = "none"
    BY <1>1 DEF Request
<1>10. req'[r] = p
    BY <1>2 DEF ChainInv
<1> HIDE DEF p, q
<1>11. Held(p) \subseteq {j}
    BY <1>1, <1>6, <1>9 DEF Held
<1>12. \A i \in 1 .. N : RuledOut(p, i) <=> RuledOut(q, i) \/ (i \in later /\ i < j)
    BY <1>7, <1>9 DEF RuledOut
<1>13. j \in Executable(p, p.at)
    BY <1>3, <1>8, <1>9, <1>12, ExecutableIs
<1>14. ASSUME NEW i \in Executable(p, p.at) PROVE j <= i
  <2>1. i \in 1 .. N /\ i \in p.chain /\ i > p.at /\ ~ RuledOut(p, i)
      BY <1>8, ExecutableIs
  <2>2. i \in later
      BY <1>1, <1>9, <1>12, <2>1, ExecutableIs
  <2>3. ~ (i < j)
      BY <1>12, <2>1, <2>2
  <2> QED BY <2>1, <2>3
<1>15. TicketInPlace(p)
    BY <1>6, <1>9, <1>11, <1>13, <1>14, Zenon DEF TicketInPlace
<1>16. \A i \in q.chain : RuledOut(q, i) => RuledOut(p, i)
    BY <1>1, <1>12, Zenon DEF Request
<1>17. PassedOver(p)
    BY <1>1, <1>9, <1>16, Zenon DEF Good, PassedOver, Looping
<1>18. Charged(p)
  <2>1. \A i \in q.left : i # j
      BY <1>1, <1>3, <1>4 DEF Good, PassedOver
  <2> QED BY <1>1, <1>4, <1>6, <1>9, <2>1, Zenon DEF Good, Charged
<1>19. Good(p)
    BY <1>8, <1>9, <1>15, <1>17, <1>18, Zenon DEF Good, Waiting, Judged
<1>20. Moves(r)
    BY <1>1, <1>2, <1>9, <1>19, Zenon DEF Moves, MovesTo, Working, q
<1> QED BY <1>6, <1>9, <1>10, <1>13, <1>20, Zenon

\* A stream is served to its end.
LEMMA ServeMoves ==
  ASSUME ChainInv, NEW r \in Requests, Serve(r) \/ KeepSlow(r)
  PROVE  Moves(r)
<1> DEFINE q == req[r]
           g == q.gone \cup Executable(q, q.at)
           p == [q EXCEPT !.gone = g]
<1>1. Good(q) /\ q \in Request /\ q.pc = "first_event"
    BY Zenon DEF ChainInv, Good, Serve, KeepSlow
<1>2. /\ Held(q) = {} /\ (\A i \in q.left \cup q.tried : i <= q.at)
      /\ \A i \in q.left : q.ticket[i] = "charged"
    BY <1>1, Zenon DEF Good, TicketInPlace, PassedOver, Charged
<1>3. CASE Serve(r)
  <2>1. Finish(r, q, "served") /\ CanReturn(q, "served")
      BY <1>1, <1>2, <1>3, Zenon DEF Serve, CanReturn
  <2> QED BY <2>1, FinishMoves, Zenon DEF Results
<1>4. CASE KeepSlow(r)
  <2>1. Finish(r, p, "served")
      BY <1>4, Zenon DEF KeepSlow
  <2>2. g \in SUBSET (1 .. N)
      BY <1>1, ExecutableIs, Zenon DEF Request
  <2> HIDE DEF g
  <2>3. /\ p \in Request /\ p.ticket = q.ticket /\ p.left = q.left /\ p.tried = q.tried
        /\ p.at = q.at
      BY <1>1, <2>2, Zenon DEF Request
  <2> HIDE DEF p, q
  <2>4. Held(p) = {}
      BY <1>2, <2>3, Zenon DEF Held
  <2>5. CanReturn(p, "served")
      BY <1>2, <2>3, <2>4, Zenon DEF CanReturn
  <2> QED BY <2>1, <2>5, FinishMoves, Zenon DEF Results
<1> QED BY <1>3, <1>4, Zenon

\* The end of a context changes nothing but the context.
LEMMA ContextMoves ==
  ASSUME ChainInv, NEW r \in Requests, ContextEnds(r)
  PROVE  Moves(r)
<1> DEFINE q == req[r]
<1>1. Good(q) /\ q \in Request
    BY Zenon DEF ChainInv, Good
<1>2. PICK c \in {"cancelled", "expired"} : req' = [req EXCEPT ![r] = [q EXCEPT !.ctx = c]]
    BY Zenon DEF ContextEnds
<1> DEFINE p == [q EXCEPT !.ctx = c]
<1>3. p \in Request
    BY <1>1, Zenon DEF Request
<1>4. /\ p.pc = q.pc /\ p.ticket = q.ticket /\ p.at = q.at /\ p.tried = q.tried
      /\ p.chain = q.chain /\ p.left = q.left /\ p.gone = q.gone /\ p.down = q.down
      /\ p.pools = q.pools /\ p.result = q.result /\ p.wait = q.wait /\ p.budget = q.budget
    BY <1>1, Zenon DEF Request
<1>5. req' = [req EXCEPT ![r] = p] /\ slots' = slots
    BY <1>2, Zenon DEF ContextEnds
<1> HIDE DEF p, q
<1>6. /\ Held(p) = Held(q) /\ Untried(p) = Untried(q)
      /\ Executable(p, p.at) = Executable(q, q.at)
      /\ \A i \in q.chain : RuledOut(p, i) <=> RuledOut(q, i)
    BY <1>4, Zenon DEF Held, Untried, Executable, RuledOut
<1>7. TicketInPlace(p)
    BY <1>1, <1>4, <1>6, Zenon DEF Good, TicketInPlace
<1>8. PassedOver(p) /\ Charged(p) /\ Judged(p)
    BY <1>1, <1>4, <1>6, Zenon DEF Good, PassedOver, Charged, Judged
<1>9. Good(p)
    BY <1>1, <1>3, <1>4, <1>7, <1>8, Zenon DEF Good, Untouched
<1> QED BY <1>4, <1>5, <1>9, Zenon DEF Moves, MovesTo, q

\* A new request is good.
LEMMA NewIsGood ==
  ASSUME NEW stream \in BOOLEAN
  PROVE  New(stream) \in Request /\ Good(New(stream)) /\ New(stream).pc = "arrive"
<1>1. HoldBudget \in (0 - HoldSettle) .. HoldBudget /\ 0 \in 0 .. N
    BY ChainAssumption
<1>2. [i \in 1 .. N |-> "none"] \in [1 .. N -> Tickets]
    BY Zenon DEF Tickets
<1>3. New(stream) \in Request
    BY <1>1, <1>2, Zenon DEF New, Request, Results
<1>4. /\ Untouched(New(stream)) /\ New(stream).result = "none"
      /\ New(stream).pc = "arrive"
    BY Zenon DEF New, Untouched
<1> HIDE DEF New
<1> QED BY <1>3, <1>4, UntouchedIsGood, Zenon DEF Waiting

\* The goroutine serves the next request.
LEMMA RenewMoves ==
  ASSUME ChainInv, NEW r \in Requests, Renew(r)
  PROVE  Moves(r)
<1>1. PICK stream \in BOOLEAN : req' = [req EXCEPT ![r] = New(stream)]
    BY Zenon DEF Renew
<1>2. slots' = slots /\ req[r].pc = "done"
    BY Zenon DEF Renew
<1> QED BY <1>1, <1>2, NewIsGood, Zenon DEF Moves, MovesTo, Working

-----------------------------------------------------------------------------
\* The invariant of the whole.

\* The first requests arrive with nothing tried and nothing reserved.
LEMMA ChainInit == Init => ChainInv
<1> SUFFICES ASSUME Init PROVE ChainInv
    OBVIOUS
<1>1. ASSUME NEW r \in Requests
      PROVE  req[r] \in Request /\ Good(req[r]) /\ req[r].pc = "arrive"
    BY NewIsGood, Zenon DEF Init
<1>2. req \in [Requests -> Request]
    BY <1>1, Zenon DEF Init
<1>3. slots = {} /\ IsFiniteSet(slots) /\ Cardinality(slots) <= Slots
    BY FS_EmptySet, ChainAssumption DEF Init
<1> QED BY <1>1, <1>2, <1>3, Zenon DEF ChainInv, SlotWhileWorking

\* Whatever a handler does, or its context, it moves as above.
LEMMA StepMoves ==
  ASSUME ChainInv, NEW r \in Requests, Step(r) \/ ContextEnds(r) \/ Renew(r)
  PROVE  Moves(r)
BY GateMoves, RankMoves, BeginMoves, SkipMoves, SendMoves, AnswerMoves, AbandonMoves,
   ServeMoves, ContextMoves, RenewMoves, Zenon DEF Step

\* No interleaving of handlers breaks the invariant.
LEMMA ChainStep == ChainInv /\ [Next]_vars => ChainInv'
<1> SUFFICES ASSUME ChainInv, [Next]_vars PROVE ChainInv'
    OBVIOUS
<1>1. CASE UNCHANGED vars
  <2>1. slots' = slots /\ req' = req
      BY <1>1, Zenon DEF vars
  <2> QED BY <2>1, Zenon DEF ChainInv, SlotWhileWorking
<1>2. CASE Next
  <2>1. PICK r \in Requests : Moves(r)
      BY <1>2, StepMoves, Zenon DEF Next
  <2>2. PICK q : MovesTo(r, q)
      BY <2>1, Zenon DEF Moves
  <2>3. req' = [req EXCEPT ![r] = q] /\ Good(q) /\ q \in Request
      BY <2>2, Zenon DEF MovesTo, Good
  <2>4. req' \in [Requests -> Request] /\ \A x \in Requests : Good(req'[x])
      BY <2>3, Zenon DEF ChainInv
  <2>5. req'[r] = q /\ \A x \in Requests \ {r} : req'[x] = req[x]
      BY <2>3, Zenon DEF ChainInv
  <2>6. slots \subseteq Requests /\ IsFiniteSet(slots) /\ Cardinality(slots) <= Slots
      BY Zenon DEF ChainInv
  <2>7. SlotWhileWorking'
    <3>1. \A x \in Requests : x \in slots <=> req[x].pc \in Working
        BY Zenon DEF ChainInv, SlotWhileWorking, Working
    <3>2. \A x \in Requests : x \in slots' <=> req'[x].pc \in Working
        BY <2>2, <2>5, <3>1, Zenon DEF MovesTo
    <3> QED BY <3>2, Zenon DEF SlotWhileWorking, Working
  <2>8. slots' \subseteq Requests /\ IsFiniteSet(slots') /\ Cardinality(slots') <= Slots
    <3>1. CASE slots' = slots
        BY <2>6, <3>1, Zenon
    <3>2. CASE slots' = slots \ {r}
      <4>1. IsFiniteSet(slots) /\ slots' \in SUBSET slots
          BY <2>6, <3>2, Zenon
      <4>2. IsFiniteSet(slots') /\ Cardinality(slots') <= Cardinality(slots)
          BY <4>1, FS_Subset, Zenon
      <4>3. Cardinality(slots) \in Nat /\ Cardinality(slots') \in Nat
          BY <4>1, <4>2, FS_CardinalityType, Zenon
      <4> QED BY <2>6, <4>1, <4>2, <4>3, ChainAssumption
    <3>3. CASE slots' = slots \cup {r} /\ ~ Full
      <4>1. IsFiniteSet(slots') /\ Cardinality(slots') <= Cardinality(slots) + 1
          BY <2>6, <3>3, FS_AddElement, FS_CardinalityType
      <4>2. Cardinality(slots) \in Nat /\ Cardinality(slots') \in Nat
          BY <2>6, <4>1, FS_CardinalityType, Zenon
      <4> QED BY <2>6, <3>3, <4>1, <4>2, ChainAssumption DEF Full
    <3> QED BY <2>2, <3>1, <3>2, <3>3, Zenon DEF MovesTo
  <2> QED BY <2>4, <2>7, <2>8, Zenon DEF ChainInv
<1> QED BY <1>1, <1>2, Zenon

-----------------------------------------------------------------------------
\* The admission slots never exceed PROXY_MAX_CONCURRENT, the hold budget is
\* never overdrawn by more than the settling time, and the loop stays within
\* the models of the plan.
THEOREM ChainTypes == Spec => []TypeOK
<1>1. ChainInv => TypeOK
    BY Zenon DEF ChainInv, TypeOK
<1> QED BY <1>1, ChainInit, ChainStep, PTL DEF Spec

\* However requests arrive, park, come back, fail and hang up, the requests
\* holding an admission slot are exactly those at work.
THEOREM SlotsFollowWork == Spec => []SlotWhileWorking
<1>1. ChainInv => SlotWhileWorking
    BY Zenon DEF ChainInv
<1> QED BY <1>1, ChainInit, ChainStep, PTL DEF Spec

\* No way through the loop strands a reservation or keeps two.
THEOREM NoQuotaStranded == Spec => []NoTicketLeak
<1>1. ChainInv => NoTicketLeak
  <2> SUFFICES ASSUME ChainInv, NEW r \in Requests
               PROVE  /\ Cardinality(Held(req[r])) <= 1
                      /\ req[r].pc \in Waiting \cup {"done"} => Held(req[r]) = {}
      BY Zenon DEF NoTicketLeak, Waiting
  <2> DEFINE q == req[r]
  <2>1. Good(q) /\ q \in Request
      BY Zenon DEF ChainInv, Good
  <2>2. q.pc \in Waiting => Held(q) = {}
      BY <2>1, Zenon DEF Good, Untouched, Held
  <2>3. q.pc \in Waiting \cup Looping \cup {"done"}
      BY <2>1, Zenon DEF Request, Waiting, Looping
  <2> HIDE DEF q
  <2>4. \A i, j \in Held(q) : i = j
    <3>1. CASE q.pc = "next"
      <4>1. \A i \in Held(q) : i \in 1 .. N
          BY Zenon DEF Held
      <4>2. \A i, j \in Held(q) : i <= j /\ j <= i
          BY <2>1, <3>1, Zenon DEF Good, TicketInPlace
      <4> QED BY <4>1, <4>2
    <3>2. CASE q.pc # "next"
        BY <2>1, <2>2, <2>3, <3>2, Zenon DEF Good, TicketInPlace, Looping
    <3> QED BY <3>1, <3>2, Zenon
  <2>5. Cardinality(Held(q)) <= 1
    <3>1. CASE Held(q) = {}
        BY <3>1, FS_EmptySet
    <3>2. ASSUME NEW i \in Held(q) PROVE Cardinality(Held(q)) <= 1
      <4>1. Held(q) = {i}
          BY <2>4, Zenon
      <4>2. Cardinality({i}) = 1
          BY FS_Singleton, Zenon
      <4> QED BY <4>1, <4>2
    <3> QED BY <3>1, <3>2, Zenon
  <2> QED BY <2>1, <2>2, <2>5, Zenon DEF q, Good, TicketInPlace
<1> QED BY <1>1, ChainInit, ChainStep, PTL DEF Spec

\* A call that left with a live context is charged once it is answered.
THEOREM SentCallsAreCharged == Spec => []SentIsCharged
<1>1. ChainInv => SentIsCharged
    BY Zenon DEF ChainInv, Good, Charged, SentIsCharged
<1> QED BY <1>1, ChainInit, ChainStep, PTL DEF Spec

\* "exhausted" is said of a chain in which nothing was left to try and
\* "terminal" of one in which something was.
THEOREM VerdictsAreRight == Spec => []VerdictMatchesChain
<1>1. ChainInv => VerdictMatchesChain
  <2> SUFFICES ASSUME ChainInv, NEW r \in Requests
               PROVE  LET q == req[r]
                          untried == {i \in q.chain \ q.tried :
                                        /\ i \notin q.gone
                                        /\ Provider[i] \notin q.down
                                        /\ ~ (i \in FreePool /\ Provider[i] \in q.pools)}
                      IN  /\ q.result = "exhausted" => untried = {}
                          /\ q.result = "terminal" => untried # {}
      BY Zenon DEF VerdictMatchesChain
  <2>1. Judged(req[r])
      BY Zenon DEF ChainInv, Good
  <2> QED BY <2>1, Zenon DEF Judged, Untried, RuledOut
<1> QED BY <1>1, ChainInit, ChainStep, PTL DEF Spec

\* What one step of r does to the attempts begun.
LEMMA TriedGrows ==
  ASSUME ChainInv, NEW r \in Requests, Step(r) \/ ContextEnds(r) \/ Renew(r)
  PROVE  /\ \A x \in Requests \ {r} : req'[x] = req[x]
         /\ \A i \in req'[r].tried \ req[r].tried : i \in Executable(req[r], req[r].at)
<1> DEFINE q == req[r]
<1>1. q \in Request /\ req \in [Requests -> Request]
    BY Zenon DEF ChainInv
<1>2. \A x \in Requests \ {r} : req'[x] = req[x]
    BY <1>1, StepMoves, Zenon DEF Moves, MovesTo
<1>3. ASSUME NEW s \in Request, s.tried = q.tried, NEW result, Finish(r, s, result)
      PROVE  req'[r].tried = q.tried
  <2>1. req'[r] = [Returned(s) EXCEPT !.result = result, !.ticket = Released(@)]
      BY <1>1, <1>3, Zenon DEF Finish
  <2> QED BY <1>3, <2>1, Zenon DEF Request, Returned, PastGate
<1>4. CASE Begin(r)
  <2> DEFINE later == Executable(q, q.at)
  <2>1. CASE later = {}
    <3>1. \E result : Finish(r, q, result)
        BY <1>4, <2>1, Zenon DEF Begin, ChainFailed
    <3> QED BY <1>1, <1>2, <1>3, <3>1, Zenon
  <2>2. CASE later # {}
    <3>1. req'[r].tried = q.tried \cup {First(later)}
        BY <1>1, <1>4, <2>2 DEF Begin, Request
    <3>2. First(later) \in later
        BY <1>1, <2>2, ExecutableIs, FirstIsLeast, Zenon
    <3> QED BY <1>2, <3>1, <3>2, Zenon
  <2> QED BY <2>1, <2>2, Zenon
<1>5. CASE Reject(r) \/ RefuseCapability(r) \/ Refuse(r) \/ HoldRefused(r) \/ Serve(r)
  <2>1. \E result : Finish(r, q, result)
      BY <1>5, Zenon DEF Reject, RefuseCapability, Refuse, HoldRefused, Serve
  <2> QED BY <1>1, <1>2, <1>3, <2>1, Zenon
<1>6. CASE KeepSlow(r)
  <2> DEFINE p == [q EXCEPT !.gone = @ \cup Executable(q, q.at)]
  <2>1. Finish(r, p, "served")
      BY <1>6, Zenon DEF KeepSlow
  <2>2. Executable(q, q.at) \in SUBSET (1 .. N)
      BY <1>1, ExecutableIs, Zenon
  <2>3. p \in Request /\ p.tried = q.tried
      BY <1>1, <2>2, Zenon DEF Request
  <2> HIDE DEF p
  <2> QED BY <1>2, <1>3, <2>1, <2>3, Zenon
<1>7. ASSUME NEW answer, Answer(r, answer) PROVE req'[r].tried = q.tried
  <2> DEFINE s == Settled(q, answer)
             pc == IF answer = "headers" THEN "first_event" ELSE "next"
             down == IF answer \in {"account", "incompatible"}
                       THEN s.down \cup {Provider[q.at]} ELSE s.down
             pools == IF answer = "pool" THEN s.pools \cup {Provider[q.at]} ELSE s.pools
             p == [s EXCEPT !.pc = pc, !.down = down, !.pools = pools]
  <2>1. Good(q) /\ q.pc = "sent"
      BY <1>7, Zenon DEF ChainInv, Answer
  <2>2. s \in Request /\ s.tried = q.tried
      BY <1>1, <2>1, SettledIs, Zenon
  <2>3. \/ \E result : Finish(r, s, result)
        \/ req' = [req EXCEPT ![r] = p]
      BY <1>7, Zenon DEF Answer, ChainFailed
  <2> HIDE DEF s, pc, down, pools
  <2>4. CASE \E result : Finish(r, s, result)
      BY <1>3, <2>2, <2>4, Zenon
  <2>5. CASE req' = [req EXCEPT ![r] = p]
    <3>1. req'[r] = p
        BY <1>1, <2>5, Zenon
    <3>2. p.tried = s.tried
        BY <2>2, Zenon DEF Request
    <3> QED BY <2>2, <3>1, <3>2, Zenon
  <2> QED BY <2>3, <2>4, <2>5, Zenon
<1>8. CASE \/ Acquire(r) \/ (\E w \in HoldWaits : Hold(r, w)) \/ HoldOver(r) \/ Reacquire(r)
           \/ Skip(r) \/ Send(r) \/ (\E j \in 1 .. N : Abandon(r, j)) \/ ContextEnds(r)
  <2>1. req'[r].tried = q.tried
    <3>1. CASE Acquire(r) \/ (\E w \in HoldWaits : Hold(r, w)) \/ HoldOver(r) \/ Reacquire(r)
        BY <1>1, <3>1 DEF Acquire, Hold, HoldOver, Reacquire, Request
    <3>2. CASE Skip(r)
        BY <1>1, <3>2, Zenon DEF Skip, Request
    <3>3. CASE Send(r)
        BY <1>1, <3>3, Zenon DEF Send, Request
    <3>4. CASE \E j \in 1 .. N : Abandon(r, j)
        BY <1>1, <3>4 DEF Abandon, Request
    <3>5. CASE ContextEnds(r)
      <4>1. \E end : req' = [req EXCEPT ![r].ctx = end]
          BY <3>5, Zenon DEF ContextEnds
      <4> QED BY <1>1, <4>1 DEF Request
    <3> QED BY <1>8, <3>1, <3>2, <3>3, <3>4, <3>5, Zenon
  <2> QED BY <1>2, <2>1, Zenon
<1>9. CASE \E chain \in SUBSET Planned[r] : RankAndReserve(r, chain)
  <2>1. req'[r].tried = q.tried
      BY <1>1, <1>9 DEF RankAndReserve, PastGate, Request
  <2> QED BY <1>2, <2>1, Zenon
<1>10. CASE Renew(r)
  <2>1. PICK stream \in BOOLEAN : req' = [req EXCEPT ![r] = New(stream)]
      BY <1>10, Zenon DEF Renew
  <2>2. req'[r] = New(stream)
      BY <1>1, <2>1, Zenon
  <2>3. req'[r].tried = {}
      BY <2>2 DEF New
  <2> QED BY <1>2, <2>3, Zenon
<1> QED BY <1>2, <1>4, <1>5, <1>6, <1>7, <1>8, <1>9, <1>10, Zenon DEF Step

\* nextExecutableAttempt never returns to a model the chain has ruled out.
THEOREM RuledOutModelsStayOut == Spec => RuledOutStaysOut
<1> DEFINE NotOut(r, i) == /\ i \notin req[r].gone
                           /\ Provider[i] \notin req[r].down
                           /\ ~ (i \in FreePool /\ Provider[i] \in req[r].pools)
<1>1. ChainInv /\ [Next]_vars =>
         [\A r \in Requests : \A i \in req'[r].tried \ req[r].tried : NotOut(r, i)]_vars
  <2> SUFFICES ASSUME ChainInv, Next, NEW r \in Requests,
                      NEW i \in req'[r].tried \ req[r].tried
               PROVE  NotOut(r, i)
      OBVIOUS
  <2>1. PICK x \in Requests : Step(x) \/ ContextEnds(x) \/ Renew(x)
      BY Zenon DEF Next
  <2>2. r = x /\ i \in Executable(req[r], req[r].at)
      BY <2>1, TriedGrows, Zenon
  <2> QED BY <2>2, Zenon DEF Executable
<1> QED BY <1>1, ChainInit, ChainStep, PTL DEF Spec, RuledOutStaysOut

\* ReserveFallback: a stream slow to start is given up only with a reservation
\* on the very model the loop turns to next.
THEOREM StreamGivenUpForReserved == Spec => AbandonedForReserved
<1> DEFINE Kept(r) == (req[r].pc = "first_event" /\ req'[r].pc = "next") =>
              LET later == Executable(req'[r], req'[r].at)
              IN  later # {} /\ req'[r].ticket[First(later)] = "held"
<1>1. ChainInv /\ ChainInv' /\ [Next]_vars => [\A r \in Requests : Kept(r)]_vars
  <2> SUFFICES ASSUME ChainInv, ChainInv', Next, NEW r \in Requests,
                      req[r].pc = "first_event", req'[r].pc = "next"
               PROVE  LET later == Executable(req'[r], req'[r].at)
                      IN  later # {} /\ req'[r].ticket[First(later)] = "held"
      OBVIOUS
  <2> DEFINE p == req'[r]
             later == Executable(p, p.at)
  <2>1. PICK x \in Requests : Step(x) \/ ContextEnds(x) \/ Renew(x)
      BY Zenon DEF Next
  <2>2. x = r
      BY <2>1, TriedGrows, Zenon
  <2>3. req[r] \in Request /\ req \in [Requests -> Request]
      BY Zenon DEF ChainInv
  <2>4. \E j \in 1 .. N : Abandon(r, j)
    <3>1. ASSUME NEW s, NEW result, Finish(r, s, result) PROVE FALSE
      <4>1. Moves(r) /\ slots' = slots \ {r}
          BY <2>1, <2>2, <3>1, StepMoves, Zenon DEF Finish
      <4> QED BY <2>3, <3>1, <4>1, Zenon DEF ChainInv, SlotWhileWorking
    <3>2. ~ ContextEnds(r)
      <4>1. ContextEnds(r) => \E end : req' = [req EXCEPT ![r].ctx = end]
          BY Zenon DEF ContextEnds
      <4> QED BY <2>3, <4>1 DEF Request
    <3>3. ~ (Serve(r) \/ KeepSlow(r))
        BY <3>1, Zenon DEF Serve, KeepSlow
    <3> QED
        BY <2>1, <2>2, <3>2, <3>3, Zenon
           DEF Step, Acquire, Reject, RefuseCapability, Refuse, Hold, HoldRefused, HoldOver,
               Reacquire, RankAndReserve, Begin, Skip, Send, Renew
  <2>5. PICK j \in 1 .. N : p.ticket[j] = "held" /\ j \in later
      BY <2>4, AbandonMoves, Zenon
  <2>6. Good(p) /\ p \in Request
      BY Zenon DEF ChainInv, Good
  <2> HIDE DEF p
  <2>7. later \in SUBSET (1 .. N)
      BY <2>6, ExecutableIs, Zenon
  <2>8. \A i \in later : j <= i
      BY <2>5, <2>6, Zenon DEF Good, TicketInPlace, Held, p
  <2>9. First(later) \in later /\ First(later) <= j
      BY <2>5, <2>7, FirstIsLeast, Zenon
  <2>10. First(later) = j
      BY <2>7, <2>8, <2>9
  <2> QED BY <2>5, <2>10, Zenon DEF p
<1> QED BY <1>1, ChainInit, ChainStep, PTL DEF Spec, AbandonedForReserved
=============================================================================
