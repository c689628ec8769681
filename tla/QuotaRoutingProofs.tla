------------------------- MODULE QuotaRoutingProofs -------------------------
(***************************************************************************)
(* Theorems about the requests that use the quota ledger, for any number   *)
(* of requests, attempts and keys.  Every step of a request is at most one *)
(* call of the ledger, so what QuotaLedgerProofs shows of the calls holds  *)
(* here too; to it comes who owns which ticket.                            *)
(***************************************************************************)
EXTENDS QuotaRouting, QuotaLedgerProofs, FiniteSetTheorems

(* What a response may have said: facts on some of the keys. *)
FactMaps == UNION {[S -> Reportable] : S \in SUBSET Keys}

Pending ==
    [pc : {"idle", "visit", "bootstrap", "install", "fit", "reserve", "ready",
           "sent", "observe"},
     pass : {"fit", "reserve"}, left : SUBSET Attempts,
     cur : Attempts \cup {NoAttempt}, fits : SUBSET Attempts, todo : SUBSET Keys,
     key : Keys \cup {NoKey}, amounts : [Keys -> Costs \cup {0}],
     ticket : 0 .. MaxTicketID, facts : FactMaps]

Spending == {"ready", "sent", "observe"}

(* What holds of a single request. *)
Sound(q) ==
    /\ q \in Pending
    /\ q.pc \notin {"idle", "visit"} => q.cur \in Attempts
    /\ q.pc = "install" => q.key \in Keys
    /\ q.pc = "observe" => q.todo \subseteq DOMAIN q.facts
    /\ q.ticket # Nil <=> q.pc \in Spending

(* A request's ticket is live and was taken for its amounts; no two        *)
(* requests have the same one, and no live ticket is without a request.    *)
Owners ==
    /\ \A r \in Requests : req[r].ticket # Nil =>
          ticket[req[r].ticket] = "live" /\ cost[req[r].ticket] = req[r].amounts
    /\ \A r, x \in Requests :
          req[r].ticket # Nil /\ req[r].ticket = req[x].ticket => r = x
    /\ \A t \in TicketIDs : ticket[t] = "live" => \E r \in Requests : req[r].ticket = t

RInv ==
    /\ PInv /\ BInv
    /\ req \in [Requests -> Pending]
    /\ \A r \in Requests : Sound(req[r])
    /\ Owners
    /\ cooling \in [Attempts -> 0 .. MaxTime + Cooldown]

(* What a response said of a key. *)
LEMMA FactsAre ==
    ASSUME NEW f \in FactMaps
    PROVE  DOMAIN f \subseteq Keys /\ \A k \in DOMAIN f : f[k] \in Reportable
BY DEF FactMaps

(* A request without a past is sound. *)
LEMMA FreshIsSound ==
    /\ Sound(Fresh)
    /\ Fresh.ticket = Nil /\ Fresh.pc = "idle"
<1>1. NoFacts \in FactMaps
  <2>1. NoFacts \in [{} -> Reportable]
      BY DEF NoFacts
  <2>2. {} \in SUBSET Keys
      OBVIOUS
  <2> QED BY <2>1, <2>2, Zenon DEF FactMaps
<1>2. NoAmounts \in [Keys -> Costs \cup {0}]
    BY DEF NoAmounts
<1>3. Nil \in 0 .. MaxTicketID
    BY BoundsAssumption DEF Nil
<1>4. Fresh \in Pending
    BY <1>1, <1>2, <1>3 DEF Fresh, Pending
<1> QED BY <1>4 DEF Fresh, Sound, Spending

(* What a step of r does to r and to the tickets: nothing, or it takes the *)
(* next ticket, or it gives its own up.                                    *)
Keeps(r, q) ==
    /\ UNCHANGED <<ticket, cost>>
    /\ q.ticket = req[r].ticket
    /\ q.ticket # Nil => q.amounts = req[r].amounts

Takes(r, q) ==
    /\ req[r].ticket = Nil
    /\ q.ticket = nextTicketID + 1 /\ q.ticket \in TicketIDs
    /\ ticket' = [ticket EXCEPT ![q.ticket] = "live"]
    /\ cost' = [cost EXCEPT ![q.ticket] = q.amounts]

GivesUp(r, q) ==
    /\ req[r].ticket \in TicketIDs /\ q.ticket = Nil
    /\ \E st \in {"released", "reconciled"} : ticket' = [ticket EXCEPT ![req[r].ticket] = st]
    /\ UNCHANGED cost

MovesTo(r, q) ==
    /\ Sound(q)
    /\ req' = [req EXCEPT ![r] = q]
    /\ [LedgerCall]_vars
    /\ Keeps(r, q) \/ Takes(r, q) \/ GivesUp(r, q)

Moves(r) == \E q : MovesTo(r, q)

(* Steps without a call, or with one that leaves the tickets alone. *)
LEMMA KeepsMoves ==
    ASSUME NEW r \in Requests, NEW q, Sound(q), req' = [req EXCEPT ![r] = q],
           [LedgerCall]_vars, UNCHANGED <<ticket, cost>>,
           q.ticket = req[r].ticket,
           q.ticket # Nil => q.amounts = req[r].amounts
    PROVE  Moves(r)
BY Zenon DEF Moves, MovesTo, Keeps

(* What is known of a request before its step. *)
LEMMA Before ==
    ASSUME RInv, NEW r \in Requests
    PROVE  /\ Sound(req[r]) /\ req[r] \in Pending
           /\ TypeOK /\ now \in Nat
           /\ req[r].pc \notin Spending => req[r].ticket = Nil
           /\ req[r].pc \in Spending => req[r].ticket \in TicketIDs
           /\ req[r].pc \notin {"idle", "visit"} => KeysOf[req[r].cur] \subseteq Keys
<1>1. Sound(req[r]) /\ req[r] \in Pending /\ TypeOK
    BY DEF RInv, Sound, BInv
<1>2. req[r].ticket \in 0 .. MaxTicketID
    BY <1>1 DEF Pending
<1>3. now \in Nat
    BY <1>1, BoundsAssumption DEF TypeOK
<1>4. req[r].cur \in Attempts => KeysOf[req[r].cur] \subseteq Keys
    BY RequestsAssumption
<1> QED BY <1>1, <1>2, <1>3, <1>4, BoundsAssumption DEF Sound, TicketIDs, Nil

----------------------------------------------------------------------------
(* The steps of a request that do not call the ledger. *)

(* A request starts, or ends with nothing left to try. *)
LEMMA ResetMoves ==
    ASSUME RInv, NEW r \in Requests, Start(r) \/ Exhausted(r)
    PROVE  Moves(r)
<1> DEFINE q == [Fresh EXCEPT !.pc = "visit", !.left = Attempts]
<1>1. req[r].ticket = Nil
    BY Before DEF Start, Exhausted, Spending
<1>2. UNCHANGED vars
    BY DEF Start, Exhausted
<1>3. CASE Start(r)
  <2>1. req' = [req EXCEPT ![r] = q]
      BY <1>3 DEF Start
  <2>2. q \in Pending
      BY FreshIsSound, Zenon DEF Sound, Pending
  <2>3. q.pc = "visit" /\ q.ticket = Nil
      BY FreshIsSound DEF Sound, Pending
  <2> HIDE DEF q
  <2>4. Sound(q)
      BY <2>2, <2>3 DEF Sound, Spending
  <2> QED BY <1>1, <1>2, <2>1, <2>3, <2>4, KeepsMoves, Zenon DEF vars
<1>4. CASE Exhausted(r)
  <2>1. req' = [req EXCEPT ![r] = Fresh]
      BY <1>4 DEF Exhausted
  <2> QED BY <1>1, <1>2, <2>1, FreshIsSound, KeepsMoves, Zenon DEF vars
<1> QED BY <1>3, <1>4

(* The two passes over the attempts. *)
LEMMA PassMoves ==
    ASSUME RInv, NEW r \in Requests,
           \/ \E a \in Attempts : SkipCooling(r, a) \/ Visit(r, a)
           \/ Rank(r) \/ Fits(r)
    PROVE  Moves(r)
<1> DEFINE q == req[r]
<1>1. /\ q \in Pending /\ q.pc \in {"visit", "fit"} /\ q.ticket = Nil
      /\ q.pc = "fit" => q.cur \in Attempts
    BY Before, Zenon DEF SkipCooling, Visit, Rank, Fits, Spending, Sound
<1>2. UNCHANGED vars
    BY Zenon DEF SkipCooling, Visit, Rank, Fits, Quiet
<1>3. ASSUME NEW p \in Pending, req' = [req EXCEPT ![r] = p], p.ticket = Nil,
             p.pc \in {"visit", "bootstrap"}, p.pc = "bootstrap" => p.cur \in Attempts
      PROVE  Moves(r)
  <2>1. Sound(p)
      BY <1>3 DEF Sound, Spending
  <2> QED BY <1>1, <1>2, <1>3, <2>1, KeepsMoves, Zenon DEF vars
<1>4. ASSUME NEW a \in Attempts, SkipCooling(r, a) PROVE Moves(r)
  <2> DEFINE p == [q EXCEPT !.left = @ \ {a}]
  <2>1. req' = [req EXCEPT ![r] = p] /\ q.pc = "visit"
      BY <1>4 DEF SkipCooling
  <2>2. p \in Pending /\ p.ticket = q.ticket /\ p.pc = q.pc
      BY <1>1 DEF Pending
  <2> HIDE DEF p
  <2> QED BY <1>1, <1>3, <2>1, <2>2, Zenon
<1>5. ASSUME NEW a \in Attempts, Visit(r, a) PROVE Moves(r)
  <2> DEFINE d == {k \in KeysOf[a] : Published[k] > 0}
             p == [q EXCEPT !.pc = "bootstrap", !.cur = a, !.left = @ \ {a}, !.todo = d]
  <2>1. req' = [req EXCEPT ![r] = p]
      BY <1>5, Zenon DEF Visit
  <2>2. d \in SUBSET Keys
      BY RequestsAssumption
  <2> HIDE DEF d
  <2>3. p \in Pending /\ p.ticket = q.ticket /\ p.pc = "bootstrap" /\ p.cur = a
      BY <1>1, <2>2, Zenon DEF Pending
  <2> HIDE DEF p
  <2> QED BY <1>1, <1>3, <2>1, <2>3, Zenon
<1>6. CASE Rank(r)
  <2> DEFINE p == [q EXCEPT !.pass = "reserve", !.left = q.fits]
  <2>1. req' = [req EXCEPT ![r] = p] /\ q.pc = "visit"
      BY <1>6, Zenon DEF Rank
  <2>2. p \in Pending /\ p.ticket = q.ticket /\ p.pc = q.pc
      BY <1>1, Zenon DEF Pending
  <2> HIDE DEF p
  <2> QED BY <1>1, <1>3, <2>1, <2>2, Zenon
<1>7. CASE Fits(r)
  <2> DEFINE p == [q EXCEPT !.pc = "visit", !.fits = @ \cup {q.cur}]
  <2>1. req' = [req EXCEPT ![r] = p] /\ q.pc = "fit"
      BY <1>7, Zenon DEF Fits
  <2>2. p \in Pending /\ p.ticket = q.ticket /\ p.pc = "visit"
    <3>1. q.fits \cup {q.cur} \in SUBSET Attempts
        BY <1>1, <2>1 DEF Pending
    <3> QED BY <1>1, <3>1, Zenon DEF Pending
  <2> HIDE DEF p
  <2> QED BY <1>1, <1>3, <2>1, <2>2, Zenon
<1> QED BY <1>4, <1>5, <1>6, <1>7

(* A quota report as it is recorded is one the ledger takes. *)
LEMMA ReportedIsFact ==
    ASSUME now \in Nat, NEW k \in Keys, NEW p \in Reports
    PROVE  Reported(k, p) \in Reportable
<1>1. p \in [limit : 0 .. MaxLimit, remaining : Nat, left : Nat]
    BY RequestsAssumption
<1>2. p.limit \in 0 .. MaxLimit /\ p.remaining \in Nat /\ p.left \in Nat
    BY <1>1
<1>3. NextMinute \in Nat
  <2>1. now \div Minute \in Nat /\ Minute \in Nat
      BY BoundsAssumption
  <2>2. \A m, n \in Nat : (m + 1) * n \in Nat
      OBVIOUS
  <2> QED BY <2>1, <2>2 DEF NextMinute
<1> DEFINE t == IF p.left > 0 THEN now + p.left
                ELSE IF k \in MinuteKeys THEN NextMinute ELSE NoReset
<1>4. t \in Nat
    BY <1>2, <1>3 DEF NoReset
<1> HIDE DEF t
<1>5. Reported(k, p) = [limit |-> p.limit, remaining |-> p.remaining,
                        confidence |-> "authoritative", resetAt |-> t]
    BY DEF Reported, t
<1>6. p.limit \in Nat /\ p.limit <= MaxLimit
    BY <1>2, BoundsAssumption
<1> QED BY <1>2, <1>4, <1>5, <1>6 DEF Reportable, Fact, Confidence

(* The request leaves, and its response comes back. *)
LEMMA AwayMoves ==
    ASSUME RInv, NEW r \in Requests, Send(r) \/ Answered(r)
    PROVE  Moves(r)
<1> DEFINE q == req[r]
<1>1. /\ q \in Pending /\ q.pc \in {"ready", "sent"} /\ q.ticket # Nil /\ q.cur \in Attempts
      /\ KeysOf[q.cur] \subseteq Keys /\ now \in Nat
    BY Before, Zenon DEF Send, Answered, Sound, Spending
<1>2. UNCHANGED vars
    BY Zenon DEF Send, Answered, Quiet
<1>3. CASE Send(r)
  <2> DEFINE p == [q EXCEPT !.pc = "sent"]
  <2>1. req' = [req EXCEPT ![r] = p]
      BY <1>3 DEF Send
  <2>2. /\ p \in Pending /\ p.pc = "sent" /\ p.ticket = q.ticket /\ p.cur = q.cur
        /\ p.amounts = q.amounts
      BY <1>1 DEF Pending
  <2> HIDE DEF p
  <2>3. Sound(p)
      BY <1>1, <2>2 DEF Sound, Spending
  <2> QED BY <1>2, <2>1, <2>2, <2>3, KeepsMoves, Zenon DEF vars
<1>4. CASE Answered(r)
  <2>1. PICK said \in SUBSET KeysOf[q.cur], rep \in Reports :
           req' = [req EXCEPT ![r].pc = "observe", ![r].todo = said,
                              ![r].facts = [k \in said |-> Reported(k, rep)]]
      BY <1>4, Zenon DEF Answered
  <2> DEFINE m == [k \in said |-> Reported(k, rep)]
             p == [q EXCEPT !.pc = "observe", !.todo = said, !.facts = m]
  <2>2. req' = [req EXCEPT ![r] = p]
      BY <2>1, Zenon
  <2>3. said \in SUBSET Keys
      BY <1>1
  <2>4. m \in FactMaps /\ DOMAIN m = said
    <3>1. \A k \in said : Reported(k, rep) \in Reportable
        BY <1>1, <2>3, ReportedIsFact
    <3>2. m \in [said -> Reportable]
        BY <3>1
    <3> QED BY <2>3, <3>2 DEF FactMaps
  <2> HIDE DEF m
  <2>5. p \in Pending
      BY <1>1, <2>3, <2>4, Zenon DEF Pending
  <2>6. /\ p.pc = "observe" /\ p.ticket = q.ticket /\ p.cur = q.cur
        /\ p.amounts = q.amounts /\ p.todo = said /\ p.facts = m
      BY <1>1 DEF Pending
  <2> HIDE DEF p
  <2>7. Sound(p)
      BY <1>1, <2>4, <2>5, <2>6 DEF Sound, Spending
  <2> QED BY <1>2, <2>2, <2>6, <2>7, KeepsMoves, Zenon DEF vars
<1> QED BY <1>3, <1>4

----------------------------------------------------------------------------
(* The steps that call the ledger and leave the tickets alone. *)

(* A published default is a fact the ledger takes. *)
LEMMA DefaultIsFact ==
    ASSUME now \in Nat, NEW k \in Keys
    PROVE  Default(k) \in Reportable
<1>1. Published[k] \in Nat /\ Published[k] <= MaxLimit /\ now + Window \in Nat
    BY RequestsAssumption, BoundsAssumption
<1> QED BY <1>1 DEF Default, Reportable, Fact, Confidence

(* ensureBootstrapQuota: the look at a key and the published default. *)
LEMMA BootstrapMoves ==
    ASSUME RInv, NEW r \in Requests, Install(r) \/ \E k \in Keys : LookUp(r, k)
    PROVE  Moves(r)
<1> DEFINE q == req[r]
<1>1. /\ q \in Pending /\ q.pc \in {"bootstrap", "install"} /\ q.ticket = Nil
      /\ q.cur \in Attempts /\ now \in Nat
      /\ q.pc = "install" => q.key \in Keys
    BY Before, Zenon DEF Install, LookUp, Spending, Sound
<1>2. ASSUME NEW k \in Keys, LookUp(r, k) PROVE Moves(r)
  <2> DEFINE c == IF buckets'[k] = Nil THEN "install" ELSE q.pc
             n == IF buckets'[k] = Nil THEN k ELSE NoKey
             p == [q EXCEPT !.todo = @ \ {k}, !.pc = c, !.key = n]
  <2>1. req' = [req EXCEPT ![r] = p] /\ q.pc = "bootstrap"
      BY <1>2, ZenonT(30) DEF LookUp
  <2>2. LedgerCall /\ UNCHANGED <<ticket, cost>>
      BY <1>2, Zenon DEF LookUp, LedgerCall, Snapshot
  <2>3. c \in {"bootstrap", "install"} /\ n \in Keys \cup {NoKey} /\ (c = "install" => n \in Keys)
      BY <2>1
  <2> HIDE DEF c, n
  <2>4. p \in Pending
      BY <1>1, <2>3, Zenon DEF Pending
  <2>5. p.pc = c /\ p.key = n /\ p.ticket = q.ticket /\ p.cur = q.cur
      BY <1>1 DEF Pending
  <2> HIDE DEF p
  <2>6. Sound(p)
      BY <1>1, <2>3, <2>4, <2>5 DEF Sound, Spending
  <2> QED BY <1>1, <2>1, <2>2, <2>5, <2>6, KeepsMoves, Zenon
<1>3. CASE Install(r)
  <2> DEFINE p == [q EXCEPT !.pc = "bootstrap", !.key = NoKey]
  <2>1. req' = [req EXCEPT ![r] = p] /\ q.pc = "install" /\ Observe(q.key, Default(q.key))
      BY <1>3, Zenon DEF Install
  <2>2. q.key \in Keys /\ Default(q.key) \in Reportable
      BY <1>1, <2>1, DefaultIsFact
  <2>3. LedgerCall
      BY <2>1, <2>2 DEF LedgerCall
  <2>4. UNCHANGED <<ticket, cost>>
      BY <2>1 DEF Observe
  <2>5. /\ p \in Pending /\ p.pc = "bootstrap" /\ p.ticket = q.ticket /\ p.cur = q.cur
      BY <1>1, Zenon DEF Pending
  <2> HIDE DEF p
  <2>6. Sound(p)
      BY <1>1, <2>5 DEF Sound, Spending
  <2> QED BY <1>1, <2>1, <2>3, <2>4, <2>5, <2>6, KeepsMoves, Zenon
<1> QED BY <1>2, <1>3

(* quotaReservations prices the known keys. *)
LEMMA PriceMoves ==
    ASSUME RInv, NEW r \in Requests, Price(r)
    PROVE  Moves(r)
<1> DEFINE q == req[r]
           known == KnownKeys(q.cur)
           d == IF q.pass = "fit" THEN known ELSE {}
           m == [k \in Keys |-> IF k \in known THEN CostOf[k] ELSE 0]
           p == [q EXCEPT !.pc = q.pass, !.todo = d, !.amounts = m]
<1>1. /\ q \in Pending /\ q.pc = "bootstrap" /\ q.ticket = Nil /\ q.cur \in Attempts
      /\ KeysOf[q.cur] \subseteq Keys
    BY Before DEF Price, Spending, Sound
<1>2. req' = [req EXCEPT ![r] = p]
    BY Zenon DEF Price
<1>3. LedgerCall /\ UNCHANGED <<ticket, cost>>
    BY DEF Price, Purge, LedgerCall
<1>4. d \in SUBSET Keys /\ m \in [Keys -> Costs \cup {0}]
  <2>1. known \in SUBSET Keys
      BY <1>1 DEF KnownKeys
  <2> HIDE DEF known
  <2> QED BY <2>1, RequestsAssumption
<1> HIDE DEF d, m
<1>5. q.pass \in {"fit", "reserve"}
    BY <1>1 DEF Pending
<1>6. p \in Pending
    BY <1>1, <1>4, <1>5, Zenon DEF Pending
<1>7. p.pc = q.pass /\ p.ticket = q.ticket /\ p.cur = q.cur
    BY <1>1 DEF Pending
<1> HIDE DEF p
<1>8. Sound(p)
    BY <1>1, <1>5, <1>6, <1>7 DEF Sound, Spending
<1> QED BY <1>1, <1>2, <1>3, <1>7, <1>8, KeepsMoves, Zenon

(* quotaCanFit looks at one key; ReserveAll refuses. *)
LEMMA FitMoves ==
    ASSUME RInv, NEW r \in Requests, Refused(r) \/ \E k \in Keys : CheckKey(r, k)
    PROVE  Moves(r)
<1> DEFINE q == req[r]
<1>1. /\ q \in Pending /\ q.pc \in {"fit", "reserve"} /\ q.ticket = Nil
      /\ q.cur \in Attempts
    BY Before DEF Refused, CheckKey, Spending, Sound
<1>2. LedgerCall /\ UNCHANGED <<ticket, cost>>
  <2>1. CASE Refused(r)
      BY <2>1 DEF Refused, ReserveRefused, Purge, LedgerCall
  <2>2. ASSUME NEW k \in Keys, CheckKey(r, k) PROVE LedgerCall /\ UNCHANGED <<ticket, cost>>
      BY <2>2, Zenon DEF CheckKey, Snapshot, LedgerCall
  <2> QED BY <2>1, <2>2
<1>3. ASSUME NEW p \in Pending, req' = [req EXCEPT ![r] = p], p.ticket = Nil,
             p.pc \in {"fit", "visit"}, p.cur = q.cur
      PROVE  Moves(r)
  <2>1. Sound(p)
      BY <1>1, <1>3 DEF Sound, Spending
  <2> QED BY <1>1, <1>2, <1>3, <2>1, KeepsMoves, Zenon
<1>4. CASE Refused(r)
  <2> DEFINE p == [q EXCEPT !.pc = "visit"]
  <2>1. req' = [req EXCEPT ![r] = p]
      BY <1>4 DEF Refused
  <2>2. p \in Pending /\ p.pc = "visit" /\ p.ticket = q.ticket /\ p.cur = q.cur
      BY <1>1 DEF Pending
  <2> HIDE DEF p
  <2> QED BY <1>1, <1>3, <2>1, <2>2, Zenon
<1>5. ASSUME NEW k \in Keys, CheckKey(r, k) PROVE Moves(r)
  <2> DEFINE p == [q EXCEPT !.todo = @ \ {k}]
             x == [q EXCEPT !.pc = "visit", !.todo = {}]
  <2>1. q.pc = "fit" /\ (req' = [req EXCEPT ![r] = p] \/ req' = [req EXCEPT ![r] = x])
      BY <1>5, Zenon DEF CheckKey
  <2>2. p \in Pending /\ p.pc = q.pc /\ p.ticket = q.ticket /\ p.cur = q.cur
      BY <1>1 DEF Pending
  <2>3. x \in Pending /\ x.pc = "visit" /\ x.ticket = q.ticket /\ x.cur = q.cur
      BY <1>1, Zenon DEF Pending
  <2> HIDE DEF p, x
  <2>4. CASE req' = [req EXCEPT ![r] = p]
      BY <1>1, <1>3, <2>1, <2>2, <2>4, Zenon
  <2>5. CASE req' = [req EXCEPT ![r] = x]
      BY <1>1, <1>3, <2>3, <2>5, Zenon
  <2> QED BY <2>1, <2>4, <2>5
<1> QED BY <1>4, <1>5

(* A response's facts are recorded, one key at a time. *)
LEMMA LearnMoves ==
    ASSUME RInv, NEW r \in Requests, NEW k \in Keys, Learn(r, k)
    PROVE  Moves(r)
<1> DEFINE q == req[r]
           p == [q EXCEPT !.todo = @ \ {k}]
<1>1. /\ q \in Pending /\ q.pc = "observe" /\ q.ticket # Nil /\ q.cur \in Attempts
      /\ k \in q.todo /\ q.todo \subseteq DOMAIN q.facts
    BY Before DEF Learn, Spending, Sound
<1>2. q.facts[k] \in Reportable
  <2>1. q.facts \in FactMaps
      BY <1>1 DEF Pending
  <2> QED BY <1>1, <2>1, FactsAre
<1>3. req' = [req EXCEPT ![r] = p]
    BY DEF Learn
<1>4. Observe(k, q.facts[k]) \/ ObserveExpired(k, q.facts[k])
    BY DEF Learn
<1>5. LedgerCall
    BY <1>2, <1>4 DEF LedgerCall
<1>6. UNCHANGED <<ticket, cost>>
    BY <1>4 DEF Observe, ObserveExpired
<1>7. p \in Pending
    BY <1>1 DEF Pending
<1>8. /\ p.pc = q.pc /\ p.ticket = q.ticket /\ p.cur = q.cur /\ p.amounts = q.amounts
      /\ p.facts = q.facts /\ p.todo \subseteq q.todo
    BY <1>1 DEF Pending
<1> HIDE DEF p
<1>9. Sound(p)
    BY <1>1, <1>7, <1>8 DEF Sound, Spending
<1> QED BY <1>3, <1>5, <1>6, <1>8, <1>9, KeepsMoves, Zenon

----------------------------------------------------------------------------
(* The steps that take a ticket and give it up. *)

(* ReserveAll hands out the next ticket for the request's amounts. *)
LEMMA ReserveMoves ==
    ASSUME RInv, NEW r \in Requests, Reserve(r)
    PROVE  Moves(r)
<1> DEFINE q == req[r]
           t == nextTicketID + 1
           p == [q EXCEPT !.pc = "ready", !.ticket = t]
<1>1. /\ q \in Pending /\ q.pc = "reserve" /\ q.ticket = Nil /\ q.cur \in Attempts
      /\ TypeOK
    BY Before DEF Reserve, Spending, Sound
<1>2. /\ ReserveAll(q.amounts) /\ nextTicketID' = t /\ t <= MaxTicketID
      /\ ticket' = [ticket EXCEPT ![t] = "live"]
      /\ cost' = [cost EXCEPT ![t] = q.amounts]
    BY DEF Reserve, ReserveAll
<1>3. req' = [req EXCEPT ![r] = p]
    BY <1>2, Zenon DEF Reserve
<1>4. t \in TicketIDs /\ t \in 0 .. MaxTicketID /\ t # Nil
    BY <1>1, <1>2, BoundsAssumption DEF TypeOK, TicketIDs, Nil
<1>5. q.amounts \in [Keys -> Costs \cup {0}]
    BY <1>1 DEF Pending
<1>6. LedgerCall
    BY <1>2, <1>5 DEF LedgerCall
<1> HIDE DEF t
<1>7. p \in Pending
    BY <1>1, <1>4, Zenon DEF Pending
<1>8. p.pc = "ready" /\ p.ticket = t /\ p.cur = q.cur /\ p.amounts = q.amounts
    BY <1>1 DEF Pending
<1> HIDE DEF p
<1>9. Sound(p)
    BY <1>1, <1>4, <1>7, <1>8 DEF Sound, Spending
<1>10. Takes(r, p)
    BY <1>1, <1>2, <1>4, <1>8 DEF Takes, t
<1> QED BY <1>3, <1>6, <1>9, <1>10, Zenon DEF Moves, MovesTo

(* What a request settles its ticket with is a settlement the ledger takes. *)
LEMMA SettlementIsOne ==
    ASSUME RInv, NEW r \in Requests, NEW used \in Actuals
    PROVE  [k \in Keys |-> Settlement(r, k, used)] \in [Keys -> AnySettlement]
<1>1. req[r].facts \in FactMaps
    BY Before DEF Pending
<1>2. used \in Nat
    BY InputsAssumption
<1>3. ASSUME NEW k \in Keys PROVE Settlement(r, k, used) \in AnySettlement
  <2>1. CASE k \in DOMAIN req[r].facts
    <3>1. req[r].facts[k] \in Reportable
        BY <1>1, <2>1, FactsAre
    <3>2. Settlement(r, k, used) = [kind |-> "observed", fact |-> req[r].facts[k]]
        BY <2>1 DEF Settlement
    <3> QED BY <3>1, <3>2 DEF AnySettlement
  <2>2. CASE k \notin DOMAIN req[r].facts
    <3>1. Settlement(r, k, used) = [kind |-> "actual", actual |-> used]
        BY <2>2 DEF Settlement
    <3> QED BY <1>2, <3>1 DEF AnySettlement
  <2> QED BY <2>1, <2>2
<1> QED BY <1>3

(* Release and Reconcile end the request's ticket. *)
LEMMA EndMoves ==
    ASSUME RInv, NEW r \in Requests, NotSent(r) \/ Settle(r)
    PROVE  Moves(r)
<1> DEFINE t == req[r].ticket
<1>1. t \in TicketIDs
    BY Before DEF NotSent, Settle, Spending
<1>2. req' = [req EXCEPT ![r] = Fresh]
    BY DEF NotSent, Settle
<1>3. /\ LedgerCall /\ UNCHANGED cost
      /\ \E st \in {"released", "reconciled"} : ticket' = [ticket EXCEPT ![t] = st]
  <2>1. CASE NotSent(r)
    <3>1. Release(t)
        BY <2>1 DEF NotSent
    <3>2. LedgerCall
        BY <1>1, <3>1 DEF LedgerCall
    <3>3. UNCHANGED cost /\ ticket' = [ticket EXCEPT ![t] = "released"]
        BY <3>1 DEF Release
    <3> QED BY <3>2, <3>3
  <2>2. CASE Settle(r)
    <3>1. PICK used \in Actuals : Reconcile(t, [k \in Keys |-> Settlement(r, k, used)])
        BY <2>2 DEF Settle
    <3> DEFINE s == [k \in Keys |-> Settlement(r, k, used)]
    <3>2. s \in [Keys -> AnySettlement]
        BY SettlementIsOne
    <3>3. Reconcile(t, s)
        BY <3>1
    <3> HIDE DEF s
    <3>4. LedgerCall
        BY <1>1, <3>2, <3>3 DEF LedgerCall
    <3>5. UNCHANGED cost /\ ticket' = [ticket EXCEPT ![t] = "reconciled"]
        BY <3>3 DEF Reconcile
    <3> QED BY <3>4, <3>5
  <2> QED BY <2>1, <2>2
<1>4. GivesUp(r, Fresh)
    BY <1>1, <1>3, FreshIsSound, Zenon DEF GivesUp
<1> QED BY <1>2, <1>3, <1>4, FreshIsSound, Zenon DEF Moves, MovesTo

(* A step of request r. *)
Acts(r) ==
    \/ Start(r) \/ Rank(r) \/ Exhausted(r) \/ Fits(r) \/ Send(r) \/ Answered(r)
    \/ Install(r) \/ Price(r) \/ Reserve(r) \/ Refused(r) \/ NotSent(r) \/ Settle(r)
    \/ \E a \in Attempts : SkipCooling(r, a) \/ Visit(r, a)
    \/ \E k \in Keys : LookUp(r, k) \/ CheckKey(r, k) \/ Learn(r, k)

(* Whatever a request does, it moves as above. *)
LEMMA ActsMoves ==
    ASSUME RInv, NEW r \in Requests, Acts(r)
    PROVE  Moves(r)
BY ResetMoves, PassMoves, AwayMoves, BootstrapMoves, PriceMoves, FitMoves,
   LearnMoves, ReserveMoves, EndMoves DEF Acts

(* Every step is the clock's or one request's. *)
LEMMA NextActs == RNext => Clock \/ \E r \in Requests : Acts(r)
BY DEF RNext, Acts

(* Every step is the clock's or moves one request. *)
LEMMA NextMoves ==
    ASSUME RInv, RNext
    PROVE  Clock \/ \E r \in Requests : Moves(r)
BY NextActs, ActsMoves, Zenon

----------------------------------------------------------------------------
(* A step of one request keeps the tickets and their owners in step. *)
LEMMA OwnersStep ==
    ASSUME RInv, NEW r \in Requests, NEW q, MovesTo(r, q)
    PROVE  Owners'
<1>0. /\ Owners /\ TypeOK /\ FreshIDs /\ req \in [Requests -> Pending]
      /\ \A x \in Requests : req[x].ticket # Nil => req[x].ticket \in TicketIDs
    BY Before, Zenon DEF RInv, PInv, AInv, Sound
<1>1. /\ req'[r] = q
      /\ \A x \in Requests : x # r => req'[x] = req[x]
    BY <1>0, Zenon DEF MovesTo
<1>2. CASE Keeps(r, q)
    BY <1>0, <1>1, <1>2 DEF Keeps, Owners
<1>3. CASE Takes(r, q)
  <2> DEFINE t == q.ticket
  <2>1. /\ t \in TicketIDs /\ t > nextTicketID /\ req[r].ticket = Nil
        /\ ticket' = [ticket EXCEPT ![t] = "live"]
        /\ cost' = [cost EXCEPT ![t] = q.amounts]
      BY <1>0, <1>3 DEF Takes, TypeOK
  <2>2. \A x \in Requests : req[x].ticket # t
      BY <1>0, <2>1 DEF FreshIDs, Owners, TicketIDs, Nil
  <2>3. /\ ticket'[t] = "live" /\ cost'[t] = q.amounts
        /\ \A u \in TicketIDs : u # t => ticket'[u] = ticket[u] /\ cost'[u] = cost[u]
      BY <1>0, <2>1, Zenon DEF TypeOK
  <2> HIDE DEF t
  <2>4. \A x \in Requests : req'[x].ticket # Nil =>
           ticket'[req'[x].ticket] = "live" /\ cost'[req'[x].ticket] = req'[x].amounts
    <3>1. ASSUME NEW x \in Requests, x # r, req[x].ticket # Nil
          PROVE  ticket'[req[x].ticket] = "live" /\ cost'[req[x].ticket] = req[x].amounts
        BY <1>0, <2>2, <2>3, <3>1, Zenon DEF Owners
    <3> QED BY <1>1, <2>3, <3>1, Zenon DEF t
  <2>5. \A x, y \in Requests :
           req'[x].ticket # Nil /\ req'[x].ticket = req'[y].ticket => x = y
      BY <1>0, <1>1, <2>2 DEF Owners, t
  <2>6. \A u \in TicketIDs : ticket'[u] = "live" => \E x \in Requests : req'[x].ticket = u
    <3>1. ASSUME NEW u \in TicketIDs, ticket'[u] = "live", u # t
          PROVE  \E x \in Requests : req'[x].ticket = u
      <4>1. PICK x \in Requests : req[x].ticket = u
          BY <1>0, <2>3, <3>1, Zenon DEF Owners
      <4>2. x # r
          BY <2>1, <3>1, <4>1 DEF TicketIDs, Nil
      <4> QED BY <1>1, <4>1, <4>2, Zenon
    <3> QED BY <1>1, <3>1, Zenon DEF t
  <2> QED BY <2>4, <2>5, <2>6, Zenon DEF Owners
<1>4. CASE GivesUp(r, q)
  <2> DEFINE t == req[r].ticket
  <2>1. /\ t \in TicketIDs /\ q.ticket = Nil /\ t # Nil
        /\ ticket'[t] # "live" /\ cost' = cost
        /\ \A u \in TicketIDs : u # t => ticket'[u] = ticket[u]
      BY <1>0, <1>4 DEF GivesUp, TypeOK, TicketIDs, Nil
  <2>2. \A x \in Requests : x # r => req[x].ticket # t
      BY <1>0, <2>1, Zenon DEF Owners
  <2> QED BY <1>0, <1>1, <2>1, <2>2 DEF Owners
<1> QED BY <1>2, <1>3, <1>4, Zenon DEF MovesTo

(* An attempt's cooldown ends within one cooldown of the clock. *)
LEMMA CoolingStep ==
    ASSUME RInv, [RNext]_allVars
    PROVE  cooling' \in [Attempts -> 0 .. MaxTime + Cooldown]
<1>1. cooling \in [Attempts -> 0 .. MaxTime + Cooldown] /\ now \in 0 .. MaxTime
    BY Zenon DEF RInv, BInv, TypeOK
<1>2. ASSUME NEW a \in Attempts, CoolDown(a)
      PROVE  cooling' \in [Attempts -> 0 .. MaxTime + Cooldown]
  <2>1. now + Cooldown \in 0 .. MaxTime + Cooldown
      BY <1>1, BoundsAssumption, RequestsAssumption
  <2> QED BY <1>1, <1>2, <2>1, Zenon DEF CoolDown
<1>3. ASSUME NEW r \in Requests, Answered(r)
      PROVE  cooling' \in [Attempts -> 0 .. MaxTime + Cooldown]
  <2>1. req[r].cur \in Attempts
      BY <1>3, Before, Zenon DEF Answered, Sound
  <2> QED BY <1>1, <1>2, <1>3, <2>1, Zenon DEF Answered
<1>4. ASSUME NEW r \in Requests, Acts(r) PROVE Answered(r) \/ UNCHANGED cooling
  <2>1. CASE \/ Start(r) \/ Rank(r) \/ Exhausted(r) \/ Fits(r) \/ Send(r)
             \/ \E a \in Attempts : SkipCooling(r, a) \/ Visit(r, a)
      BY <2>1, Zenon DEF Start, Rank, Exhausted, Fits, Send, SkipCooling, Visit, Quiet
  <2>2. CASE \/ Install(r) \/ Price(r) \/ Reserve(r) \/ Refused(r)
             \/ NotSent(r) \/ Settle(r)
      BY <2>2, Zenon DEF Install, Price, Reserve, Refused, NotSent, Settle
  <2>3. CASE \E k \in Keys : LookUp(r, k) \/ CheckKey(r, k) \/ Learn(r, k)
      BY <2>3, Zenon DEF LookUp, CheckKey, Learn
  <2> QED BY <1>4, <2>1, <2>2, <2>3, Zenon DEF Acts
<1>5. (\E r \in Requests : Answered(r)) \/ UNCHANGED cooling
    BY <1>4, NextActs, Zenon DEF allVars, Clock
<1> QED BY <1>1, <1>3, <1>5, Zenon

(* Requests and ledger start without tickets. *)
LEMMA RoutingInit == RInit => RInv
<1> SUFFICES ASSUME RInit PROVE RInv
    OBVIOUS
<1>1. PInv /\ BInv
    BY PointersInit, BoundedInit, Zenon DEF RInit
<1>2. \A r \in Requests : req[r] = Fresh
    BY Zenon DEF RInit
<1>3. req \in [Requests -> Pending]
    BY FreshIsSound, Zenon DEF RInit, Sound
<1>4. Owners
    BY <1>2, FreshIsSound, Zenon DEF Owners, RInit, Init
<1>5. cooling \in [Attempts -> 0 .. MaxTime + Cooldown]
    BY BoundsAssumption, RequestsAssumption DEF RInit
<1> QED BY <1>1, <1>2, <1>3, <1>4, <1>5, FreshIsSound, Zenon DEF RInv

(* Every step, seen from the ledger, is one of its calls or none. *)
LEMMA StepIsCall ==
    ASSUME RInv, [RNext]_allVars
    PROVE  [LedgerCall]_vars
<1>1. CASE RNext
    BY <1>1, NextMoves, Zenon DEF Moves, MovesTo, Clock, LedgerCall
<1>2. CASE UNCHANGED allVars
    BY <1>2, Zenon DEF allVars
<1> QED BY <1>1, <1>2, Zenon

(* No interleaving of requests and clock breaks the invariant. *)
LEMMA RoutingStep == RInv /\ [RNext]_allVars => RInv'
<1> SUFFICES ASSUME RInv, [RNext]_allVars PROVE RInv'
    OBVIOUS
<1>1. PInv' /\ BInv'
    BY StepIsCall, PointersStep, BoundedStep, Zenon DEF RInv
<1>2. cooling' \in [Attempts -> 0 .. MaxTime + Cooldown]
    BY CoolingStep, Zenon
<1>3. CASE Clock \/ UNCHANGED allVars
  <2>1. UNCHANGED <<req, ticket, cost>>
      BY <1>3, Zenon DEF Clock, Tick, allVars, vars
  <2>2. Owners'
      BY <2>1, Zenon DEF RInv, Owners
  <2>3. \A r \in Requests : Sound(req'[r])
      BY <2>1, Zenon DEF RInv
  <2>4. req' \in [Requests -> Pending]
      BY <2>1, Zenon DEF RInv
  <2> QED BY <1>1, <1>2, <2>2, <2>3, <2>4, Zenon DEF RInv, Sound
<1>4. ASSUME NEW r \in Requests, Moves(r) PROVE RInv'
  <2>1. PICK q : MovesTo(r, q)
      BY <1>4, Zenon DEF Moves
  <2>2. /\ req \in [Requests -> Pending] /\ Sound(q) /\ q \in Pending
        /\ req' = [req EXCEPT ![r] = q]
        /\ \A x \in Requests : Sound(req[x])
      BY <2>1, Zenon DEF MovesTo, Sound, RInv
  <2>3. req' \in [Requests -> Pending]
      BY <2>2, Zenon
  <2>4. \A x \in Requests : req'[x] = q \/ req'[x] = req[x]
      BY <2>2, Zenon
  <2>5. \A x \in Requests : Sound(req'[x])
      BY <2>2, <2>4, Zenon
  <2>6. Owners'
      BY <2>1, OwnersStep, Zenon
  <2> QED BY <1>1, <1>2, <2>3, <2>5, <2>6, Zenon DEF RInv, Sound
<1> QED BY <1>3, <1>4, NextMoves, Zenon

----------------------------------------------------------------------------
(* The requests keep the shape their code gives them, and have a ticket    *)
(* exactly between ReserveAll and its settlement.                          *)
THEOREM RoutingTypes == RSpec => []RTypeOK
<1>1. RInv => RTypeOK
  <2> SUFFICES ASSUME RInv PROVE RTypeOK
      OBVIOUS
  <2>1. ASSUME NEW r \in Requests
        PROVE  /\ req[r].left \cup req[r].fits \subseteq Attempts
               /\ req[r].amounts \in [Keys -> Costs \cup {0}]
               /\ (req[r].ticket # Nil) = (req[r].pc \in {"ready", "sent", "observe"})
    <3>1. Sound(req[r]) /\ req[r] \in Pending
        BY Before, Zenon
    <3>2. req[r].left \subseteq Attempts /\ req[r].fits \subseteq Attempts
        BY <3>1, Zenon DEF Pending
    <3>3. req[r].amounts \in [Keys -> Costs \cup {0}]
        BY <3>1, Zenon DEF Pending
    <3> QED BY <3>1, <3>2, <3>3 DEF Sound, Spending
  <2> QED BY <2>1, Zenon DEF RTypeOK, RInv, BInv
<1> QED BY <1>1, RoutingInit, RoutingStep, PTL DEF RSpec

(* However many requests run, every live ticket belongs to exactly one     *)
(* request that will still settle it, and nobody has a dead one: no        *)
(* reservation outlives its request and none is settled twice.             *)
THEOREM EveryTicketHasAnOwner == RSpec => []TicketsHaveOwners
<1>1. ASSUME RInv, NEW t \in TicketIDs
      PROVE  Cardinality({r \in Requests : req[r].ticket = t}) =
                (IF ticket[t] = "live" THEN 1 ELSE 0)
  <2> DEFINE S == {r \in Requests : req[r].ticket = t}
  <2>1. Owners /\ t # Nil
      BY <1>1 DEF RInv, TicketIDs, Nil
  <2>2. CASE ticket[t] = "live"
    <3>1. PICK r \in Requests : req[r].ticket = t
        BY <2>1, <2>2, Zenon DEF Owners
    <3>2. S = {r}
        BY <2>1, <3>1, Zenon DEF Owners
    <3>3. Cardinality({r}) = 1
        BY FS_Singleton, Zenon
    <3> QED BY <2>2, <3>2, <3>3, Zenon
  <2>3. CASE ticket[t] # "live"
    <3>1. S = {}
        BY <2>1, <2>3 DEF Owners
    <3>2. Cardinality({}) = 0
        BY FS_EmptySet, Zenon
    <3> QED BY <2>3, <3>1, <3>2, Zenon
  <2> QED BY <2>2, <2>3, Zenon
<1>2. RInv => TicketsHaveOwners
    BY <1>1, Zenon DEF TicketsHaveOwners
<1> QED BY <1>2, RoutingInit, RoutingStep, PTL DEF RSpec

(* The reserved counters are exact under the calls the requests really     *)
(* make, with whatever a provider reports.                                 *)
THEOREM RoutingAccounts == RSpec => []Accounting
<1>1. RInv => Accounting
    BY Zenon DEF RInv, PInv, AInv
<1> QED BY <1>1, RoutingInit, RoutingStep, PTL DEF RSpec

(* Requests never reserve past the largest limit, so no counter overflows. *)
THEOREM RoutingNeverOverflows == RSpec => []ReservedBounded
<1>1. RInv => ReservedBounded
    BY Zenon DEF RInv, BInv
<1> QED BY <1>1, RoutingInit, RoutingStep, PTL DEF RSpec

(* Of the calls the requests make, too, only a lone bootstrap probe takes  *)
(* an object beyond its balance.                                           *)
THEOREM RoutingSingleProbe == RSpec => SingleBootstrapProbe
<1>1. RInv /\ [RNext]_allVars =>
         [\A k \in Keys, g \in Gens : OverbookedBy(k, g) =>
             /\ observation[k][g].confidence = "estimated"
             /\ \A t \in TicketIDs : held[t][k] = g => ticket[t] = "released"]_vars
    BY StepIsCall, OverbookedByProbe, Zenon DEF RInv
<1> QED BY <1>1, RoutingInit, RoutingStep, PTL DEF RSpec, SingleBootstrapProbe

----------------------------------------------------------------------------
(* A request whose response was being recorded ends by settling. *)
LEMMA EndsBySettling ==
    ASSUME RInv, RNext, NEW r \in Requests,
           req[r].pc = "observe", req'[r].pc = "idle"
    PROVE  Settle(r)
<1>1. req \in [Requests -> Pending] /\ req[r] \in Pending /\ req' # req
    BY Zenon DEF RInv
<1>2. PICK x \in Requests : Acts(x)
    BY <1>1, NextActs, Zenon DEF Clock
<1>3. Moves(x)
    BY <1>2, ActsMoves, Zenon
<1>4. x = r
  <2>1. PICK q : req' = [req EXCEPT ![x] = q]
      BY <1>3, Zenon DEF Moves, MovesTo
  <2> QED BY <1>1, <2>1, Zenon
<1>5. Settle(r) \/ \E k \in Keys : Learn(r, k)
    BY <1>2, <1>4, Zenon
    DEF Acts, Start, Rank, Exhausted, Fits, Send, Install, Price, Reserve, Refused,
                      NotSent, Answered, SkipCooling, Visit, LookUp, CheckKey
<1>6. ASSUME NEW k \in Keys, Learn(r, k) PROVE FALSE
  <2> DEFINE p == [req[r] EXCEPT !.todo = @ \ {k}]
  <2>1. req' = [req EXCEPT ![r] = p]
      BY <1>6, Zenon DEF Learn
  <2>2. p.pc = req[r].pc
      BY <1>1, Zenon DEF Pending
  <2> HIDE DEF p
  <2> QED BY <1>1, <2>1, <2>2, Zenon
<1> QED BY <1>5, <1>6, Zenon

(* Right after a request is settled the ledger says of a key exactly what  *)
(* the response said of it, however the other requests interleave.         *)
THEOREM ReportsAreFinal == RSpec => ReportIsFinal
<1>1. ASSUME RInv, RNext, NEW r \in Requests, NEW k \in Keys,
             req[r].pc = "observe", req'[r].pc = "idle",
             k \in DOMAIN req[r].facts, req[r].amounts[k] > 0
      PROVE  IF Expired(req[r].facts[k])
             THEN buckets'[k] = Nil
             ELSE /\ buckets'[k] # Nil
                  /\ observation'[k][buckets'[k]] = Normalise(req[r].facts[k])
  <2> DEFINE t == req[r].ticket
             f == req[r].facts[k]
  <2>1. /\ TypeOK /\ t \in TicketIDs /\ t # Nil
    <3>1. TypeOK /\ t \in TicketIDs
        BY <1>1, Before, Zenon DEF Spending
    <3> QED BY <3>1 DEF TicketIDs, Nil
  <2>2. cost[t][k] > 0
      BY <1>1, <2>1, Zenon DEF RInv, Owners
  <2>3. PICK used \in Actuals : Reconcile(t, [i \in Keys |-> Settlement(r, i, used)])
      BY <1>1, EndsBySettling, Zenon DEF Settle
  <2> DEFINE s == [i \in Keys |-> Settlement(r, i, used)]
  <2>4. s[k].kind = "observed" /\ s[k].fact = f
      BY <1>1, Zenon DEF Settlement
  <2>5. Reconcile(t, s)
      BY <2>3, Zenon
  <2> HIDE DEF s, f, t
  <2>6. CASE Expired(f)
    <3>1. buckets'[k] = Nil
        BY <2>2, <2>4, <2>5, <2>6, Zenon DEF Reconcile, Holds
    <3> QED BY <2>6, <3>1, Zenon DEF f
  <2>7. CASE ~Expired(f)
    <3> DEFINE g == Slot(Purged, k)
    <3>1. /\ g <= MaxGen /\ buckets'[k] = g
        BY <2>2, <2>4, <2>5, <2>7, Zenon DEF Reconcile, Holds
    <3>2. g \in Nat /\ g # Nil
      <4>1. Purged[k] \in 0 .. MaxGen /\ gen[k] \in 0 .. MaxGen
          BY <2>1, PurgedType, Zenon DEF TypeOK
      <4> QED BY <4>1, BoundsAssumption DEF Slot, Nil
    <3>3. g \in Gens
        BY <3>1, <3>2, BoundsAssumption DEF Gens, Nil
    <3> HIDE DEF g
    <3>4. observation'[k][g] = Normalise(f)
        BY <2>2, <2>4, <2>5, <2>7, <3>3, Zenon DEF Reconcile, Holds, g
    <3> QED BY <2>7, <3>1, <3>2, <3>4, Zenon DEF f
  <2> QED BY <2>6, <2>7, Zenon
<1>2. RInv /\ [RNext]_allVars =>
         [\A r \in Requests, k \in Keys :
             /\ req[r].pc = "observe" /\ req'[r].pc = "idle"
             /\ k \in DOMAIN req[r].facts
             /\ req[r].amounts[k] > 0
             => IF Expired(req[r].facts[k])
                THEN buckets'[k] = Nil
                ELSE /\ buckets'[k] # Nil
                     /\ observation'[k][buckets'[k]] = Normalise(req[r].facts[k])]_allVars
    BY <1>1, Zenon
<1> QED BY <1>2, RoutingInit, RoutingStep, PTL DEF RSpec, ReportIsFinal

----------------------------------------------------------------------------
(* The advance check and the reservation.                                  *)

(* ReserveAll, called now, would find room on k for a request. *)
Room(k) == FitsOrProbes(Purged, k, CostOf[k])

Choosing == {"visit", "bootstrap", "install", "fit", "reserve"}

(* The second pass visits what passed the first, at the same prices. *)
Priced(q) ==
    /\ q.pc = "fit" => q.pass = "fit"
    /\ q.pc = "reserve" => q.pass = "reserve"
    /\ q.pass = "reserve" => q.left \subseteq q.fits
    /\ q.pass = "reserve" /\ q.pc \in Choosing \ {"visit"} => q.cur \in q.fits
    /\ q.pc \in {"fit", "reserve"} => \A k \in Keys : q.amounts[k] > 0 =>
          k \in KeysOf[q.cur] /\ q.amounts[k] = CostOf[k]
    /\ q.pc = "fit" => \A k \in q.todo : q.amounts[k] = CostOf[k]

(* What a request has found out of the ledger and nobody has changed. *)
Foreseen(q) ==
    /\ \A a \in q.fits : \A k \in KeysOf[a] : Room(k)
    /\ q.pc = "install" => Purged[q.key] = Nil
    /\ q.pc = "fit" => \A k \in KeysOf[q.cur] \ q.todo : Room(k)

CalmInv ==
    /\ RInv /\ Unused
    /\ calm \in [Requests -> BOOLEAN]
    /\ \A r \in Requests :
          /\ Priced(req[r])
          /\ calm[r] /\ req[r].pc \in Choosing => Foreseen(req[r])

(* A call that only purges takes no room away and installs nothing. *)
LEMMA PurgeKeepsRoom ==
    ASSUME TypeOK, \A k \in Keys : buckets'[k] \in {Purged[k], Nil},
           UNCHANGED <<now, observation, reserved, probeSettled>>
    PROVE  /\ \A k \in Keys : Purged'[k] = buckets'[k]
           /\ \A k \in Keys : Room(k) => Room(k)'
           /\ \A k \in Keys : Purged[k] = Nil => Purged'[k] = Nil
<1>1. ASSUME NEW k \in Keys PROVE Purged'[k] = buckets'[k]
  <2>1. CASE buckets'[k] = Nil
      BY <2>1, Zenon DEF Purged
  <2>2. CASE buckets'[k] # Nil
    <3>1. buckets'[k] = buckets[k] /\ ~Expired(observation[k][buckets[k]])
        BY <2>2, Zenon DEF Purged
    <3>2. ~(Expired(observation[k][buckets[k]]))'
        BY <3>1, Zenon DEF Expired
    <3> QED BY <3>1, <3>2, Zenon DEF Purged
  <2> QED BY <2>1, <2>2, Zenon
<1>2. ASSUME NEW k \in Keys PROVE Purged'[k] \in {Purged[k], Nil}
    BY <1>1, Zenon
<1>3. ASSUME NEW k \in Keys, Room(k) PROVE Room(k)'
    BY <1>2, <1>3, Zenon DEF Room, FitsOrProbes
<1> QED BY <1>1, <1>2, <1>3, Zenon

(* An undisturbed ledger has the room it had. *)
LEMMA SameLedgerSameRoom ==
    ASSUME UNCHANGED ledger
    PROVE  Purged' = Purged /\ \A k \in Keys : Room(k)' <=> Room(k)
<1>1. Purged' = Purged
    BY Zenon DEF ledger, Purged, Expired
<1> QED BY <1>1, Zenon DEF ledger, Room, FitsOrProbes

(* What request r, now q, has found out still holds after the step. *)
ForeseenNext(q) ==
    /\ \A a \in q.fits : \A k \in KeysOf[a] : Room(k)'
    /\ q.pc = "install" => Purged'[q.key] = Nil
    /\ q.pc = "fit" => \A k \in KeysOf[q.cur] \ q.todo : Room(k)'

StaysCalm(r) ==
    \E q : /\ req' = [req EXCEPT ![r] = q]
           /\ Priced(q)
           /\ calm'[r] /\ q.pc \in Choosing => ForeseenNext(q)

(* What is known of a request before its step. *)
LEMMA CalmBefore ==
    ASSUME CalmInv, NEW r \in Requests
    PROVE  /\ RInv /\ TypeOK /\ req[r] \in Pending /\ Sound(req[r]) /\ Priced(req[r])
           /\ calm[r] /\ req[r].pc \in Choosing => Foreseen(req[r])
           /\ \A a \in Attempts : KeysOf[a] \subseteq Keys
BY Before, RequestsAssumption, Zenon DEF CalmInv

(* The quiet steps keep the ledger and the request's history. *)
LEMMA QuietStaysCalm ==
    ASSUME CalmInv, NEW r \in Requests, UNCHANGED vars,
           calm' = calm, req[r].pc \in Choosing,
           NEW q \in Pending, req' = [req EXCEPT ![r] = q], Priced(q),
           q.pc # "install", q.pc # "fit",
           \A a \in q.fits : a \in req[r].fits \/ \A k \in KeysOf[a] : calm[r] => Room(k)
    PROVE  StaysCalm(r)
<1>1. UNCHANGED ledger
    BY Zenon DEF ledger, vars
<1>2. q.fits \subseteq Attempts
    BY Zenon DEF Pending
<1>3. ASSUME calm'[r], NEW a \in q.fits, NEW k \in KeysOf[a] PROVE Room(k)'
  <2>1. k \in Keys
      BY <1>2, CalmBefore, Zenon
  <2>2. Room(k)
      BY <1>3, CalmBefore, Zenon DEF Foreseen
  <2> QED BY <1>1, <2>1, <2>2, SameLedgerSameRoom, Zenon
<1> QED BY <1>3, Zenon DEF StaysCalm, ForeseenNext

(* The two passes. *)
LEMMA PassStaysCalm ==
    ASSUME CalmInv, NEW r \in Requests,
           \/ \E a \in Attempts : SkipCooling(r, a) \/ Visit(r, a)
           \/ Rank(r) \/ Fits(r)
    PROVE  StaysCalm(r)
<1> DEFINE q == req[r]
<1>1. /\ q \in Pending /\ Priced(q) /\ q.pc \in {"visit", "fit"}
      /\ q.pc = "fit" => q.cur \in Attempts
    BY CalmBefore, Zenon DEF SkipCooling, Visit, Rank, Fits, Sound
<1>2. UNCHANGED vars /\ calm' = calm
    BY Zenon DEF SkipCooling, Visit, Rank, Fits, Quiet
<1>3. q.pc \in Choosing
    BY <1>1, Zenon DEF Choosing
<1>4. ASSUME NEW a \in Attempts, SkipCooling(r, a) PROVE StaysCalm(r)
  <2> DEFINE p == [q EXCEPT !.left = @ \ {a}]
  <2>1. req' = [req EXCEPT ![r] = p] /\ q.pc = "visit" /\ q.pass = "fit"
      BY <1>4, Zenon DEF SkipCooling
  <2>2. p \in Pending /\ p.pc = q.pc /\ p.pass = q.pass /\ p.fits = q.fits
      BY <1>1, Zenon DEF Pending
  <2> HIDE DEF p
  <2>3. Priced(p)
      BY <2>1, <2>2, Zenon DEF Priced
  <2> QED BY <1>2, <1>3, <2>1, <2>2, <2>3, QuietStaysCalm, Zenon
<1>5. ASSUME NEW a \in Attempts, Visit(r, a) PROVE StaysCalm(r)
  <2> DEFINE d == {k \in KeysOf[a] : Published[k] > 0}
             p == [q EXCEPT !.pc = "bootstrap", !.cur = a, !.left = @ \ {a}, !.todo = d]
  <2>1. req' = [req EXCEPT ![r] = p] /\ a \in q.left
      BY <1>5, Zenon DEF Visit
  <2>2. d \in SUBSET Keys
      BY RequestsAssumption, Zenon
  <2> HIDE DEF d
  <2>3. p \in Pending
      BY <1>1, <2>2, Zenon DEF Pending
  <2>4. /\ p.pc = "bootstrap" /\ p.cur = a /\ p.fits = q.fits /\ p.pass = q.pass
        /\ p.left \subseteq q.left
      BY <1>1, Zenon DEF Pending
  <2> HIDE DEF p
  <2>5. Priced(p)
      BY <1>1, <2>1, <2>4, Zenon DEF Priced
  <2> QED BY <1>2, <1>3, <2>1, <2>3, <2>4, <2>5, QuietStaysCalm, Zenon
<1>6. CASE Rank(r)
  <2> DEFINE p == [q EXCEPT !.pass = "reserve", !.left = q.fits]
  <2>1. req' = [req EXCEPT ![r] = p] /\ q.pc = "visit"
      BY <1>6, Zenon DEF Rank
  <2>2. p \in Pending /\ p.pc = q.pc /\ p.left = q.fits /\ p.fits = q.fits
      BY <1>1, Zenon DEF Pending
  <2> HIDE DEF p
  <2>3. Priced(p)
      BY <2>1, <2>2, Zenon DEF Priced, Choosing
  <2> QED BY <1>2, <1>3, <2>1, <2>2, <2>3, QuietStaysCalm, Zenon
<1>7. CASE Fits(r)
  <2> DEFINE p == [q EXCEPT !.pc = "visit", !.fits = @ \cup {q.cur}]
  <2>1. req' = [req EXCEPT ![r] = p] /\ q.pc = "fit" /\ q.todo = {}
      BY <1>7, Zenon DEF Fits
  <2>2. q.fits \cup {q.cur} \in SUBSET Attempts
      BY <1>1, <2>1, Zenon DEF Pending
  <2>3. p \in Pending
      BY <1>1, <2>2, Zenon DEF Pending
  <2>4. p.pc = "visit" /\ p.pass = q.pass /\ p.fits = q.fits \cup {q.cur}
      BY <1>1, Zenon DEF Pending
  <2>5. \A k \in KeysOf[q.cur] : calm[r] => Room(k)
      BY <1>3, <2>1, CalmBefore, Zenon DEF Foreseen
  <2> HIDE DEF p
  <2>6. Priced(p)
      BY <1>1, <2>1, <2>4, Zenon DEF Priced
  <2>7. \A a \in p.fits : a \in q.fits \/ \A k \in KeysOf[a] : calm[r] => Room(k)
      BY <2>4, <2>5, Zenon
  <2> QED BY <1>2, <1>3, <2>1, <2>3, <2>4, <2>6, <2>7, QuietStaysCalm, Zenon
<1> QED BY <1>4, <1>5, <1>6, <1>7, Zenon

(* A request that begins, that ends or that is past the reservation. *)
LEMMA OutsideStaysCalm ==
    ASSUME CalmInv, NEW r \in Requests,
           \/ Start(r) \/ Exhausted(r) \/ Send(r) \/ Answered(r)
           \/ Reserve(r) \/ NotSent(r) \/ Settle(r)
           \/ \E k \in Keys : Learn(r, k)
    PROVE  StaysCalm(r)
<1> DEFINE q == req[r]
<1>1. q \in Pending /\ Priced(q)
    BY CalmBefore, Zenon
<1>2. Priced(Fresh) /\ Fresh.pc \notin Choosing
    BY Zenon DEF Priced, Fresh, Choosing
<1>3. CASE Exhausted(r) \/ NotSent(r) \/ Settle(r)
  <2>1. req' = [req EXCEPT ![r] = Fresh]
      BY <1>3, Zenon DEF Exhausted, NotSent, Settle
  <2> QED BY <1>2, <2>1, Zenon DEF StaysCalm
<1>4. CASE Start(r)
  <2> DEFINE p == [Fresh EXCEPT !.pc = "visit", !.left = Attempts]
  <2>1. req' = [req EXCEPT ![r] = p]
      BY <1>4, Zenon DEF Start
  <2>2. p.pc = "visit" /\ p.pass = "fit" /\ p.fits = {}
      BY Zenon DEF Fresh
  <2> HIDE DEF p
  <2>3. Priced(p) /\ ForeseenNext(p)
      BY <2>2, Zenon DEF Priced, ForeseenNext
  <2> QED BY <2>1, <2>3, Zenon DEF StaysCalm
<1>5. ASSUME NEW p, req' = [req EXCEPT ![r] = p], p.pc \in Spending,
             p.pass = q.pass, p.left = q.left, p.fits = q.fits
      PROVE  StaysCalm(r)
  <2>1. Priced(p) /\ p.pc \notin Choosing
      BY <1>1, <1>5, Zenon DEF Priced, Choosing, Spending
  <2> QED BY <1>5, <2>1, Zenon DEF StaysCalm
<1>6. CASE Send(r)
  <2> DEFINE p == [q EXCEPT !.pc = "sent"]
  <2>1. req' = [req EXCEPT ![r] = p]
      BY <1>6, Zenon DEF Send
  <2>2. p.pc \in Spending /\ p.pass = q.pass /\ p.left = q.left /\ p.fits = q.fits
      BY <1>1, Zenon DEF Pending, Spending
  <2> HIDE DEF p
  <2> QED BY <1>5, <2>1, <2>2, Zenon
<1>7. CASE Answered(r)
  <2>1. PICK said \in SUBSET KeysOf[q.cur], rep \in Reports :
           req' = [req EXCEPT ![r].pc = "observe", ![r].todo = said,
                              ![r].facts = [k \in said |-> Reported(k, rep)]]
      BY <1>7, Zenon DEF Answered
  <2> DEFINE m == [k \in said |-> Reported(k, rep)]
             p == [q EXCEPT !.pc = "observe", !.todo = said, !.facts = m]
  <2>2. req' = [req EXCEPT ![r] = p]
      BY <2>1, Zenon
  <2> HIDE DEF m
  <2>3. p.pc \in Spending /\ p.pass = q.pass /\ p.left = q.left /\ p.fits = q.fits
      BY <1>1, Zenon DEF Pending, Spending
  <2> HIDE DEF p
  <2> QED BY <1>5, <2>2, <2>3, Zenon
<1>8. CASE Reserve(r)
  <2> DEFINE p == [q EXCEPT !.pc = "ready", !.ticket = nextTicketID']
  <2>1. req' = [req EXCEPT ![r] = p]
      BY <1>8, Zenon DEF Reserve
  <2>2. p.pc \in Spending /\ p.pass = q.pass /\ p.left = q.left /\ p.fits = q.fits
      BY <1>1, Zenon DEF Pending, Spending
  <2> HIDE DEF p
  <2> QED BY <1>5, <2>1, <2>2, Zenon
<1>9. ASSUME NEW k \in Keys, Learn(r, k) PROVE StaysCalm(r)
  <2> DEFINE p == [q EXCEPT !.todo = @ \ {k}]
  <2>1. req' = [req EXCEPT ![r] = p] /\ q.pc = "observe"
      BY <1>9, Zenon DEF Learn
  <2>2. p.pc = q.pc /\ p.pass = q.pass /\ p.left = q.left /\ p.fits = q.fits
      BY <1>1, Zenon DEF Pending
  <2> HIDE DEF p
  <2> QED BY <1>5, <2>1, <2>2, Zenon DEF Spending
<1> QED BY <1>3, <1>4, <1>6, <1>7, <1>8, <1>9, Zenon

(* Of an undisturbed request, Disturbs says nothing. *)
LEMMA OwnCallIsCalm ==
    ASSUME CalmInv, NEW r \in Requests, Disturbs(r)
    PROVE  calm'[r] = calm[r]
BY Zenon DEF CalmInv, Disturbs

(* The calls that only purge: the look at a key before the default and in  *)
(* the advance check, the pricing, and a refusal.                          *)
LEMMA PurgeStaysCalm ==
    ASSUME CalmInv, NEW r \in Requests,
           \/ \E k \in Keys : LookUp(r, k) \/ CheckKey(r, k)
           \/ Price(r) \/ Refused(r)
    PROVE  StaysCalm(r)
<1> DEFINE q == req[r]
<1>1. /\ q \in Pending /\ Priced(q) /\ Sound(q) /\ TypeOK
      /\ q.pc \in {"bootstrap", "fit", "reserve"} /\ q.pc \in Choosing
    BY CalmBefore, Zenon DEF LookUp, CheckKey, Price, Refused, Choosing
<1>2. /\ calm'[r] = calm[r] /\ UNCHANGED <<now, observation, reserved, probeSettled>>
      /\ \A j \in Keys : buckets'[j] \in {Purged[j], Nil}
  <2>1. Disturbs(r)
      BY Zenon DEF LookUp, CheckKey, Price, Refused
  <2>2. (\E k \in Keys : Snapshot(k)) \/ Purge
      BY Zenon DEF LookUp, CheckKey, Price, Refused, ReserveRefused, Purge
  <2>3. Purged \in [Keys -> 0 .. MaxGen]
      BY <1>1, PurgedType, Zenon
  <2>4. UNCHANGED <<now, observation, reserved, probeSettled>>
      BY <2>2, Zenon DEF Snapshot, Purge
  <2>5. \A j \in Keys : buckets'[j] \in {Purged[j], Nil}
      BY <2>2, <2>3, Zenon DEF Snapshot, Purge
  <2> QED BY <2>1, <2>4, <2>5, OwnCallIsCalm, Zenon
<1>3. /\ \A k \in Keys : Purged'[k] = buckets'[k]
      /\ \A k \in Keys : Room(k) => Room(k)'
      /\ \A k \in Keys : Purged[k] = Nil => Purged'[k] = Nil
    BY <1>1, <1>2, PurgeKeepsRoom, Zenon
<1>4. ASSUME calm'[r], NEW a \in q.fits, NEW k \in KeysOf[a] PROVE Room(k)'
  <2>1. a \in Attempts
      BY <1>1, Zenon DEF Pending
  <2>2. k \in Keys
      BY <2>1, CalmBefore, Zenon
  <2>3. Room(k)
      BY <1>1, <1>2, <1>4, CalmBefore, Zenon DEF Foreseen
  <2> QED BY <1>3, <2>2, <2>3, Zenon
<1>5. ASSUME NEW k \in Keys, LookUp(r, k) PROVE StaysCalm(r)
  <2> DEFINE c == IF buckets'[k] = Nil THEN "install" ELSE q.pc
             n == IF buckets'[k] = Nil THEN k ELSE NoKey
             p == [q EXCEPT !.todo = @ \ {k}, !.pc = c, !.key = n]
  <2>1. req' = [req EXCEPT ![r] = p] /\ q.pc = "bootstrap"
      BY <1>5, Zenon DEF LookUp
  <2>2. /\ c \in {"bootstrap", "install"}
        /\ c = "install" => n = k /\ buckets'[k] = Nil
      BY <2>1, Zenon
  <2> HIDE DEF c, n
  <2>3. /\ p.pc = c /\ p.key = n /\ p.fits = q.fits /\ p.pass = q.pass
        /\ p.left = q.left /\ p.cur = q.cur
      BY <1>1, Zenon DEF Pending
  <2> HIDE DEF p
  <2>4. Priced(p)
      BY <1>1, <2>1, <2>2, <2>3, Zenon DEF Priced, Choosing
  <2>5. ASSUME calm'[r] PROVE ForeseenNext(p)
      BY <1>3, <1>4, <2>2, <2>3, <2>5, Zenon DEF ForeseenNext
  <2> QED BY <2>1, <2>4, <2>5, Zenon DEF StaysCalm
<1>6. ASSUME NEW k \in Keys, CheckKey(r, k) PROVE StaysCalm(r)
  <2> DEFINE p == [q EXCEPT !.todo = @ \ {k}]
             x == [q EXCEPT !.pc = "visit", !.todo = {}]
  <2>1. /\ q.pc = "fit" /\ k \in q.todo
        /\ IF MayTake(buckets'[k], k, q.amounts[k])
           THEN req' = [req EXCEPT ![r] = p] ELSE req' = [req EXCEPT ![r] = x]
      BY <1>6, Zenon DEF CheckKey
  <2>2. /\ p.pc = q.pc /\ p.pass = q.pass /\ p.fits = q.fits /\ p.left = q.left
        /\ p.cur = q.cur /\ p.amounts = q.amounts /\ p.todo = q.todo \ {k}
      BY <1>1, Zenon DEF Pending
  <2>3. x.pc = "visit" /\ x.pass = q.pass /\ x.fits = q.fits /\ x.left = q.left
      BY <1>1, Zenon DEF Pending
  <2> HIDE DEF p, x
  <2>4. CASE req' = [req EXCEPT ![r] = x]
    <3>1. Priced(x)
        BY <1>1, <2>3, Zenon DEF Priced
    <3>2. ASSUME calm'[r] PROVE ForeseenNext(x)
        BY <1>4, <2>3, <3>2, Zenon DEF ForeseenNext
    <3> QED BY <2>4, <3>1, <3>2, Zenon DEF StaysCalm
  <2>5. CASE /\ MayTake(buckets'[k], k, q.amounts[k])
             /\ req' = [req EXCEPT ![r] = p]
    <3>1. Priced(p)
        BY <1>1, <2>1, <2>2, Zenon DEF Priced
    <3>2. Room(k)'
      <4>1. q.amounts[k] = CostOf[k]
          BY <1>1, <2>1, Zenon DEF Priced
      <4> QED BY <1>2, <1>3, <2>5, <4>1, Zenon DEF MayTake, Room, FitsOrProbes
    <3>3. ASSUME calm'[r], NEW j \in KeysOf[q.cur], j \notin q.todo \ {k} PROVE Room(j)'
      <4>1. j \in Keys
          BY <1>1, <2>1, CalmBefore, Zenon DEF Sound
      <4>2. j # k => Room(j)
          BY <1>1, <1>2, <2>1, <3>3, CalmBefore, Zenon DEF Foreseen
      <4> QED BY <1>3, <3>2, <4>1, <4>2, Zenon
    <3>4. ASSUME calm'[r] PROVE ForeseenNext(p)
        BY <1>4, <2>1, <2>2, <3>3, <3>4, Zenon DEF ForeseenNext
    <3> QED BY <2>5, <3>1, <3>4, Zenon DEF StaysCalm
  <2> QED BY <2>1, <2>4, <2>5, Zenon
<1>7. CASE Price(r)
  <2> DEFINE known == KnownKeys(q.cur)
             d == IF q.pass = "fit" THEN known ELSE {}
             m == [k \in Keys |-> IF k \in known THEN CostOf[k] ELSE 0]
             p == [q EXCEPT !.pc = q.pass, !.todo = d, !.amounts = m]
  <2>1. req' = [req EXCEPT ![r] = p] /\ q.pc = "bootstrap"
      BY <1>7, Zenon DEF Price
  <2>2. /\ q.cur \in Attempts /\ KeysOf[q.cur] \subseteq Keys
        /\ q.pass \in {"fit", "reserve"}
      BY <1>1, <2>1, CalmBefore, Zenon DEF Sound, Pending
  <2>3. /\ known \subseteq KeysOf[q.cur]
        /\ \A k \in KeysOf[q.cur] \ known : Purged[k] = Nil
      BY Zenon DEF KnownKeys
  <2> HIDE DEF known
  <2>4. /\ \A k \in Keys : m[k] > 0 => k \in known
        /\ \A k \in known : m[k] = CostOf[k]
      BY <2>2, <2>3
  <2> HIDE DEF m
  <2>5. /\ p.pc = q.pass /\ p.pass = q.pass /\ p.fits = q.fits /\ p.left = q.left
        /\ p.cur = q.cur /\ p.amounts = m /\ p.todo = d
      BY <1>1, Zenon DEF Pending
  <2> HIDE DEF p
  <2>6. Priced(p)
      BY <1>1, <2>1, <2>2, <2>3, <2>4, <2>5, Zenon DEF Priced, Choosing
  <2>7. ASSUME p.pc = "fit", NEW k \in KeysOf[q.cur] \ d PROVE Room(k)'
    <3>1. k \in Keys /\ Purged[k] = Nil
        BY <2>2, <2>3, <2>5, <2>7, Zenon
    <3>2. Purged'[k] = Nil
        BY <1>3, <3>1, Zenon
    <3> QED BY <3>2, Zenon DEF Room, FitsOrProbes
  <2> HIDE DEF d
  <2>8. ASSUME calm'[r] PROVE ForeseenNext(p)
      BY <1>4, <2>2, <2>5, <2>7, <2>8, Zenon DEF ForeseenNext
  <2> QED BY <2>1, <2>6, <2>8, Zenon DEF StaysCalm
<1>8. CASE Refused(r)
  <2> DEFINE p == [q EXCEPT !.pc = "visit"]
  <2>1. req' = [req EXCEPT ![r] = p]
      BY <1>8, Zenon DEF Refused
  <2>2. p.pc = "visit" /\ p.pass = q.pass /\ p.fits = q.fits /\ p.left = q.left
      BY <1>1, Zenon DEF Pending
  <2> HIDE DEF p
  <2>3. Priced(p)
      BY <1>1, <2>2, Zenon DEF Priced
  <2>4. ASSUME calm'[r] PROVE ForeseenNext(p)
      BY <1>4, <2>2, <2>4, Zenon DEF ForeseenNext
  <2> QED BY <2>1, <2>3, <2>4, Zenon DEF StaysCalm
<1> QED BY <1>5, <1>6, <1>7, <1>8, Zenon

(* A published default installed for an unknown key is a new object on     *)
(* which the bootstrap probe is still free; the other keys keep their room. *)
LEMMA DefaultLeavesRoom ==
    ASSUME TypeOK, Unused, NEW j \in Keys, Purged[j] = Nil, Observe(j, Default(j))
    PROVE  \A k \in Keys : (k = j \/ Room(k)) => Room(k)'
<1> DEFINE g == gen[j] + 1
<1>1. /\ buckets' = [Purged EXCEPT ![j] = g] /\ g <= MaxGen
      /\ observation' = [observation EXCEPT ![j][g] = Normalise(Default(j))]
      /\ UNCHANGED <<now, reserved, probeSettled>>
    BY Zenon DEF Observe, Slot
<1>2. /\ now \in Nat /\ gen[j] \in Nat /\ Purged \in [Keys -> 0 .. MaxGen]
      /\ observation \in [Keys -> [Gens -> QuotaObservation]]
    BY BoundsAssumption, PurgedType DEF TypeOK
<1>3. g \in Gens /\ g > gen[j] /\ g # Nil
    BY <1>1, <1>2, BoundsAssumption DEF Gens, Nil
<1> HIDE DEF g
<1>4. Room(j)'
  <2>1. buckets'[j] = g /\ observation'[j][g] = Normalise(Default(j))
      BY <1>1, <1>2, <1>3, Zenon
  <2>2. /\ Normalise(Default(j)).confidence = "estimated"
        /\ Normalise(Default(j)).resetAt = now + Window
      BY Zenon DEF Normalise, Default
  <2>3. ~(Expired(observation[j][buckets[j]]))'
    <3>1. ~(now + Window <= now)
        BY <1>2, RequestsAssumption
    <3> QED BY <1>1, <2>1, <2>2, <3>1, Zenon DEF Expired
  <2>4. Purged'[j] = g
      BY <1>3, <2>1, <2>3, Zenon DEF Purged
  <2>5. reserved'[j][g] = 0 /\ ~probeSettled'[j][g]
      BY <1>1, <1>3, Zenon DEF Unused
  <2> QED BY <2>1, <2>2, <2>4, <2>5, Zenon DEF Room, FitsOrProbes
<1>5. ASSUME NEW k \in Keys, k # j, Room(k) PROVE Room(k)'
  <2>1. buckets'[k] = Purged[k] /\ observation'[k] = observation[k]
      BY <1>1, <1>2, <1>5, Zenon
  <2>2. Purged'[k] \in {Purged[k], Nil}
      BY <2>1, Zenon DEF Purged
  <2> QED BY <1>1, <1>5, <2>1, <2>2, Zenon DEF Room, FitsOrProbes
<1> QED BY <1>4, <1>5, Zenon

(* The installation of a published default. *)
LEMMA InstallStaysCalm ==
    ASSUME CalmInv, NEW r \in Requests, Install(r)
    PROVE  StaysCalm(r)
<1> DEFINE q == req[r]
           p == [q EXCEPT !.pc = "bootstrap", !.key = NoKey]
<1>1. /\ q \in Pending /\ Priced(q) /\ TypeOK /\ q.pc = "install" /\ q.pc \in Choosing
      /\ q.key \in Keys
    BY CalmBefore, Zenon DEF Install, Choosing, Sound
<1>2. req' = [req EXCEPT ![r] = p] /\ Observe(q.key, Default(q.key))
    BY Zenon DEF Install
<1>3. calm'[r] = calm[r]
    BY OwnCallIsCalm, Zenon DEF Install
<1>4. /\ p.pc = "bootstrap" /\ p.pass = q.pass /\ p.fits = q.fits /\ p.left = q.left
      /\ p.cur = q.cur
    BY <1>1, Zenon DEF Pending
<1> HIDE DEF p
<1>5. Priced(p)
    BY <1>1, <1>4, Zenon DEF Priced, Choosing
<1>6. ASSUME calm'[r], NEW a \in q.fits, NEW k \in KeysOf[a] PROVE Room(k)'
  <2>1. Foreseen(q)
      BY <1>1, <1>3, <1>6, CalmBefore, Zenon
  <2>2. Room(k) /\ Purged[q.key] = Nil
      BY <1>1, <2>1, Zenon DEF Foreseen
  <2>3. a \in Attempts
      BY <1>1, Zenon DEF Pending
  <2>4. k \in Keys
      BY <2>3, CalmBefore, Zenon
  <2>5. Unused
      BY Zenon DEF CalmInv
  <2> QED BY <1>1, <1>2, <2>2, <2>4, <2>5, DefaultLeavesRoom, Zenon
<1>7. ASSUME calm'[r] PROVE ForeseenNext(p)
    BY <1>4, <1>6, <1>7, Zenon DEF ForeseenNext
<1> QED BY <1>2, <1>5, <1>7, Zenon DEF StaysCalm

(* A request's own steps keep what it has found out. *)
LEMMA ActsStaysCalm ==
    ASSUME CalmInv, NEW r \in Requests, Acts(r)
    PROVE  StaysCalm(r)
BY PassStaysCalm, OutsideStaysCalm, PurgeStaysCalm, InstallStaysCalm, Zenon DEF Acts

(* Another request's step leaves the ledger as it was, or ends the calm. *)
LEMMA OthersDisturb ==
    ASSUME CalmInv, NEW x \in Requests, Acts(x)
    PROVE  /\ calm' \in [Requests -> BOOLEAN]
           /\ \A r \in Requests : r # x /\ calm'[r] => calm[r] /\ UNCHANGED ledger
<1>0. calm \in [Requests -> BOOLEAN]
    BY Zenon DEF CalmInv
<1>1. CASE UNCHANGED vars /\ \E b \in BOOLEAN : calm' = [calm EXCEPT ![x] = b]
    BY <1>0, <1>1, Zenon DEF vars, ledger
<1>2. CASE UNCHANGED vars /\ calm' = calm
    BY <1>0, <1>2, Zenon DEF vars, ledger
<1>3. CASE Disturbs(x)
  <2>1. calm' \in [Requests -> BOOLEAN]
      BY <1>0, <1>3, Zenon DEF Disturbs
  <2>2. ASSUME NEW r \in Requests, r # x, calm'[r] PROVE calm[r] /\ UNCHANGED ledger
      BY <1>3, <2>2, Zenon DEF Disturbs
  <2> QED BY <2>1, <2>2, Zenon
<1>4. CASE Start(x) \/ Exhausted(x)
    BY <1>1, <1>4, Zenon DEF Start, Exhausted
<1>5. CASE \/ Rank(x) \/ Fits(x) \/ Send(x) \/ Answered(x)
           \/ \E a \in Attempts : SkipCooling(x, a) \/ Visit(x, a)
    BY <1>2, <1>5, Zenon DEF Rank, Fits, Send, Answered, SkipCooling, Visit, Quiet
<1>6. CASE \/ Install(x) \/ Price(x) \/ Reserve(x) \/ Refused(x) \/ NotSent(x) \/ Settle(x)
           \/ \E k \in Keys : LookUp(x, k) \/ CheckKey(x, k) \/ Learn(x, k)
    BY <1>3, <1>6, Zenon
    DEF Install, Price, Reserve, Refused, NotSent, Settle, LookUp, CheckKey, Learn
<1> QED BY <1>4, <1>5, <1>6, Zenon DEF Acts

(* What an undisturbed request has found out stays so. *)
LEMMA CalmStep == CalmInv /\ [RNext]_allVars => CalmInv'
<1> SUFFICES ASSUME CalmInv, [RNext]_allVars PROVE CalmInv'
    OBVIOUS
<1>0. /\ RInv /\ TypeOK /\ Unused /\ calm \in [Requests -> BOOLEAN]
      /\ req \in [Requests -> Pending]
    BY Zenon DEF CalmInv, RInv, BInv
<1>1. RInv' /\ Unused'
    BY <1>0, RoutingStep, StepIsCall, UnusedStep, Zenon
<1>2. ASSUME NEW r \in Requests, req'[r] = req[r], calm'[r] => calm[r] /\ UNCHANGED ledger
      PROVE  /\ Priced(req'[r])
             /\ calm'[r] /\ req'[r].pc \in Choosing => Foreseen(req[r])'
  <2>1. Priced(req'[r])
      BY <1>2, CalmBefore, Zenon
  <2>2. ASSUME calm'[r], req'[r].pc \in Choosing PROVE Foreseen(req[r])'
    <3>1. Foreseen(req[r]) /\ UNCHANGED ledger
        BY <1>2, <2>2, CalmBefore, Zenon
    <3>2. Purged' = Purged /\ \A k \in Keys : Room(k)' <=> Room(k)
        BY <3>1, SameLedgerSameRoom, Zenon
    <3>3. \A a \in req[r].fits : KeysOf[a] \subseteq Keys
        BY CalmBefore, Zenon DEF Pending
    <3>4. req[r].pc = "fit" => KeysOf[req[r].cur] \subseteq Keys
        BY CalmBefore, Zenon DEF Sound
    <3> QED BY <1>2, <3>1, <3>2, <3>3, <3>4, Zenon DEF Foreseen
  <2> QED BY <2>1, <2>2, Zenon
<1>3. CASE Clock \/ UNCHANGED allVars
  <2>1. /\ UNCHANGED req /\ calm' \in [Requests -> BOOLEAN]
        /\ \A r \in Requests : calm'[r] => calm[r] /\ UNCHANGED ledger
      BY <1>0, <1>3, Zenon DEF Clock, allVars, vars, ledger
  <2> QED BY <1>1, <1>2, <2>1, Zenon DEF CalmInv, Priced
<1>4. ASSUME NEW x \in Requests, Acts(x) PROVE CalmInv'
  <2>1. /\ calm' \in [Requests -> BOOLEAN]
        /\ \A r \in Requests : r # x /\ calm'[r] => calm[r] /\ UNCHANGED ledger
      BY <1>4, OthersDisturb, Zenon
  <2>2. PICK q : /\ req' = [req EXCEPT ![x] = q] /\ Priced(q)
                 /\ calm'[x] /\ q.pc \in Choosing => ForeseenNext(q)
    <3>1. StaysCalm(x)
        BY <1>4, ActsStaysCalm, Zenon
    <3> QED BY <3>1, Zenon DEF StaysCalm
  <2>3. req'[x] = q /\ \A r \in Requests : r # x => req'[r] = req[r]
      BY <1>0, <2>2, Zenon
  <2>4. calm'[x] /\ req'[x].pc \in Choosing => Foreseen(req[x])'
      BY <2>2, <2>3, Zenon DEF ForeseenNext, Foreseen
  <2>5. ASSUME NEW r \in Requests
        PROVE  /\ Priced(req'[r])
               /\ calm'[r] /\ req'[r].pc \in Choosing => Foreseen(req[r])'
    <3>1. CASE r = x
        BY <2>2, <2>3, <2>4, <3>1, Zenon
    <3>2. CASE r # x
        BY <1>2, <2>1, <2>3, <3>2, Zenon
    <3> QED BY <3>1, <3>2, Zenon
  <2> QED BY <1>1, <2>1, <2>5, Zenon DEF CalmInv, Priced
<1> QED BY <1>3, <1>4, NextActs, Zenon

(* An attempt that passed quotaCanFit is refused by ReserveAll only when   *)
(* another request or the clock got in between, for any number of          *)
(* requests, attempts and keys.                                            *)
THEOREM OnlyARaceRefuses == RSpec => RefusedOnlyByRace
<1>1. RInit => CalmInv
  <2> SUFFICES ASSUME RInit PROVE CalmInv
      OBVIOUS
  <2>1. Unused
      BY DEF RInit, Init, Unused, Nil
  <2>2. Priced(Fresh) /\ Fresh.pc \notin Choosing
      BY Zenon DEF Priced, Fresh, Choosing
  <2> QED BY <2>1, <2>2, RoutingInit, Zenon DEF RInit, CalmInv
<1>2. ASSUME CalmInv, RNext, NEW r \in Requests,
             req[r].pc = "reserve", req'[r].pc = "visit", calm[r]
      PROVE  FALSE
  <2>1. /\ req \in [Requests -> Pending] /\ req[r] \in Pending /\ Priced(req[r])
        /\ Foreseen(req[r]) /\ RInv
      BY <1>2, CalmBefore, Zenon DEF CalmInv, RInv, Choosing
  <2>2. PICK x \in Requests : Acts(x)
      BY <1>2, <2>1, NextActs, Zenon DEF Clock
  <2>3. x = r
    <3>1. PICK q : req' = [req EXCEPT ![x] = q]
        BY <2>1, <2>2, ActsMoves, Zenon DEF Moves, MovesTo
    <3> QED BY <1>2, <2>1, <3>1, Zenon
  <2>4. Reserve(r) \/ Refused(r)
      BY <1>2, <2>2, <2>3, Zenon DEF Acts, Start, Rank, Exhausted, Fits, Send, Install, Price,
         NotSent, Settle, Answered, SkipCooling, Visit, LookUp, CheckKey, Learn
  <2>5. CASE Reserve(r)
    <3> DEFINE p == [req[r] EXCEPT !.pc = "ready", !.ticket = nextTicketID']
    <3>1. req' = [req EXCEPT ![r] = p]
        BY <2>5, Zenon DEF Reserve
    <3>2. p.pc = "ready"
        BY <2>1, Zenon DEF Pending
    <3> HIDE DEF p
    <3> QED BY <1>2, <2>1, <3>1, <3>2, Zenon
  <2>6. CASE Refused(r)
    <3>1. PICK k \in Keys : /\ req[r].amounts[k] > 0
                            /\ ~FitsOrProbes(Purged, k, req[r].amounts[k])
        BY <2>6, Zenon DEF Refused, ReserveRefused
    <3>2. /\ k \in KeysOf[req[r].cur] /\ req[r].amounts[k] = CostOf[k]
          /\ req[r].cur \in req[r].fits
        BY <1>2, <2>1, <3>1, Zenon DEF Priced, Choosing
    <3>3. Room(k)
        BY <2>1, <3>2, Zenon DEF Foreseen
    <3> QED BY <3>1, <3>2, <3>3, Zenon DEF Room
  <2> QED BY <2>4, <2>5, <2>6, Zenon
<1>3. CalmInv /\ [RNext]_allVars =>
         [\A r \in Requests :
             req[r].pc = "reserve" /\ req'[r].pc = "visit" => ~calm[r]]_allVars
    BY <1>2, Zenon
<1> QED BY <1>1, <1>3, CalmStep, PTL DEF RSpec, RefusedOnlyByRace
=============================================================================
