------------------------------- MODULE Chain -------------------------------
(***************************************************************************)
(* One client request through the router: admission control, the gate of   *)
(* dispatchChain with its quota hold, the fallback loop of                 *)
(* DefaultFallbackExecutor.Execute and the quota ticket of executeAttempt. *)
(* Requests run concurrently and compete for the admission slots.          *)
(*                                                                         *)
(* What the breakers, the ledger and the upstreams answer is left open     *)
(* (Breakers and QuotaLedger say what they do): every outcome the code     *)
(* distinguishes may occur at every attempt.                               *)
(*                                                                         *)
(* A definition that no action uses, placed before the one it resembles,   *)
(* is a deliberate fault that shows that a property can fail.              *)
(***************************************************************************)
EXTENDS Integers, FiniteSets

CONSTANTS
  Requests,
  Slots,         \* PROXY_MAX_CONCURRENT
  N,             \* number of models, in order of preference
  Provider,      \* Provider[i]: provider of the i-th model
  OpenRouter,    \* the default provider
  FreePool,      \* the models whose name ends in ":free"
  Planned,       \* Planned[r]: the models planned for request r
  MaxAttempts,   \* RetryPolicy.MaxAttempts
  HoldBudget,    \* PROXY_QUOTA_HOLD_MAX_MS
  HoldSettle,    \* quotaHoldSettle
  HoldWaits      \* waits quotaRetryAfterForAttempts may report

ASSUME ChainAssumption ==
  /\ Slots \in Nat \ {0}
  /\ N \in Nat \ {0}
  /\ MaxAttempts \in Nat \ {0}
  /\ FreePool \subseteq 1 .. N
  /\ Planned \in [Requests -> SUBSET (1 .. N)]
  /\ HoldBudget \in Nat
  /\ HoldSettle \in Nat \ {0}
  /\ HoldWaits \subseteq Nat

VARIABLES
  slots,   \* requests holding an admission slot
  req      \* req[r]: the state of request r

vars == <<slots, req>>

Providers == {Provider[i] : i \in 1 .. N}

\* A ticket is "held" when the attempt list carries it and "local" when
\* executeAttempt reserved it itself.
Tickets == {"none", "held", "local", "charged", "released"}

New(stream) ==
  [pc      |-> "arrive",
   stream  |-> stream,
   ctx     |-> "live",                     \* or "cancelled", "expired"
   budget  |-> HoldBudget,                 \* what is left of holdBudget
   wait    |-> 0,                          \* the hold in progress
   chain   |-> {},                         \* availableModels, as positions
   at      |-> 0,                          \* attemptIndex
   down    |-> {},                         \* unavailableProviders
   pools   |-> {},                         \* unavailablePools
   gone    |-> {},                         \* unavailableAttempts
   ticket  |-> [i \in 1 .. N |-> "none"],
   tried   |-> {},                         \* history: attempts begun
   left    |-> {},                         \* history: those sent with a live context
   unfair  |-> {},                         \* history: those penalised unsent
   result  |-> "none"]

Init ==
  /\ slots = {}
  /\ req \in [Requests -> {New(TRUE), New(FALSE)}]

First(S) == CHOOSE i \in S : \A j \in S : i <= j

\* nextExecutableAttempt: the later attempts not ruled out by what the chain
\* has learned.
ExecutableIgnoresPools(q, i) ==
  {j \in q.chain : j > i /\ j \notin q.gone /\ Provider[j] \notin q.down}

ExecutableOffByOne(q, i) ==
  {j \in q.chain : /\ j > i + 1
                   /\ j \notin q.gone
                   /\ Provider[j] \notin q.down
                   /\ ~ (j \in FreePool /\ Provider[j] \in q.pools)}

Executable(q, i) ==
  {j \in q.chain : /\ j > i
                   /\ j \notin q.gone
                   /\ Provider[j] \notin q.down
                   /\ ~ (j \in FreePool /\ Provider[j] \in q.pools)}

\* The local variables that go out of scope when the gate is passed, and when
\* the handler returns.
PastGate(q) == [q EXCEPT !.budget = 0, !.wait = 0]
Returned(q) == [PastGate(q) EXCEPT !.pc = "done", !.ctx = "live", !.stream = FALSE]

\* The deferred releases of Execute and dispatchChain reach the listed tickets.
Released(ticket) == [i \in 1 .. N |-> IF ticket[i] = "held" THEN "released" ELSE ticket[i]]

\* The handler returns: the deferred releases of Execute, of dispatchChain and
\* of the admission slot run, whichever way it came.
Finish(r, q, result) ==
  /\ req' = [req EXCEPT ![r] = [Returned(q) EXCEPT !.result = result,
                                                   !.ticket = Released(@)]]
  /\ slots' = slots \ {r}

\* classifyChainFailure: the context's verdict comes before the chain's.
ChainFailed(r, q, reason) ==
  Finish(r, q, CASE q.ctx = "cancelled" -> "cancelled"
                 [] q.ctx = "expired"   -> "total_timeout"
                 [] OTHER               -> reason)

-----------------------------------------------------------------------------
\* Admission.

Full == Cardinality(slots) >= Slots

\* admissionHold.acquire, at arrival.
Acquire(r) ==
  /\ req[r].pc = "arrive"
  /\ ~ Full
  /\ slots' = slots \cup {r}
  /\ req' = [req EXCEPT ![r].pc = "gate"]

\* The admission timeout passes, or the client goes away.
Reject(r) ==
  /\ req[r].pc \in {"arrive", "reacquire"}
  /\ Full \/ req[r].ctx # "live"
  /\ Finish(r, req[r], "capacity")

-----------------------------------------------------------------------------
\* The gate of dispatchChain.

\* 422 or 503, before the loop: the pinned model, or every model, lacks a
\* capability the request needs.
RefuseCapability(r) ==
  /\ req[r].pc = "gate"
  /\ req[r].budget = HoldBudget
  /\ Finish(r, req[r], "capability")

\* 422: the context fits no eligible model; or 503: nothing is available and
\* there is no hold to wait for.
Refuse(r) ==
  /\ req[r].pc = "gate"
  /\ \E result \in {"too_large", "cooling"} : Finish(r, req[r], result)

HoldKeepsSlot(r, w) ==
  /\ req[r].pc = "gate"
  /\ 0 < w /\ w <= req[r].budget
  /\ UNCHANGED slots
  /\ req' = [req EXCEPT ![r].pc = "hold", ![r].wait = w]

\* Quota is the only blocker and w is affordable: give up the slot and park.
Hold(r, w) ==
  /\ req[r].pc = "gate"
  /\ 0 < w /\ w <= req[r].budget
  /\ slots' = slots \ {r}
  /\ req' = [req EXCEPT ![r].pc = "hold", ![r].wait = w]

\* holdForQuotaReset returns false: the total deadline of a non-stream request
\* cannot absorb the wait, or the context ends meanwhile.
HoldRefused(r) ==
  /\ req[r].pc = "hold"
  /\ ~ req[r].stream \/ req[r].ctx # "live"
  /\ Finish(r, req[r], "cooling")

HoldOver(r) ==
  /\ req[r].pc = "hold"
  /\ req' = [req EXCEPT ![r].pc = "reacquire"]
  /\ UNCHANGED slots

ReacquireForgetsBudget(r) ==
  /\ req[r].pc = "reacquire"
  /\ ~ Full
  /\ slots' = slots \cup {r}
  /\ req' = [req EXCEPT ![r].pc = "gate", ![r].wait = 0]

\* A fresh slot: the gate is tried again with what is left of the budget.
Reacquire(r) ==
  /\ req[r].pc = "reacquire"
  /\ ~ Full
  /\ slots' = slots \cup {r}
  /\ req' = [req EXCEPT ![r].pc = "gate",
                        ![r].budget = @ - (req[r].wait + HoldSettle),
                        ![r].wait = 0]

\* quotaRankAndReserve: some models remain, the first with a reservation.
RankAndReserve(r, chain) ==
  /\ req[r].pc = "gate"
  /\ chain # {}
  /\ Cardinality(chain) <= MaxAttempts
  /\ req' = [req EXCEPT ![r] = [PastGate(@) EXCEPT !.pc = "next",
                                                   !.chain = chain,
                                                   !.ticket[First(chain)] = "held"]]
  /\ UNCHANGED slots

-----------------------------------------------------------------------------
\* The loop of Execute and the ticket of executeAttempt.

Begin(r) ==
  LET q == req[r]
      later == Executable(q, q.at)
  IN  /\ q.pc = "next"
      /\ IF later = {}
           THEN ChainFailed(r, q, "exhausted")
           ELSE /\ req' = [req EXCEPT ![r].pc = "attempt",
                                      ![r].at = First(later),
                                      ![r].tried = @ \cup {First(later)}]
                /\ UNCHANGED slots

\* Not sent: not configured, provider cooling, probe in flight, the request
\* could not be built, or no quota.  The deferred cleanup releases the ticket.
Skip(r) ==
  LET q == req[r]
  IN  /\ q.pc = "attempt"
      /\ req' = [req EXCEPT ![r].pc = "next",
                            ![r].ticket[q.at] = IF @ = "held" THEN "released" ELSE @]
      /\ UNCHANGED slots

\* Client.Do is called, after a reservation unless there is one.  With a
\* context that has already ended the transport returns at once.
Send(r) ==
  LET q == req[r]
  IN  /\ q.pc = "attempt"
      /\ req' = [req EXCEPT ![r].pc = "sent",
                            ![r].ticket[q.at] = IF @ = "held" THEN @ ELSE "local",
                            ![r].left = IF q.ctx = "live" THEN @ \cup {q.at} ELSE @]
      /\ UNCHANGED slots

\* What a provider may answer other than 200.  401, 402 and 403 speak of the
\* account, 413 and 429 of a rate, 408 and 5xx of the server.  Only OpenRouter
\* relays the refusals of others and has a pool of free models; only a direct
\* provider's 400 may say that it does not know a field of the request.  (The
\* next three are what those functions may say of an answer from model i.)
Statuses == {"400", "404", "account", "rate", "server", "other"}

isProviderRelayedError(i) == IF Provider[i] = OpenRouter THEN BOOLEAN ELSE {FALSE}

IsCompatibilityError(i, status) ==
  IF Provider[i] # OpenRouter /\ status = "400" THEN BOOLEAN ELSE {FALSE}

\* observeOpenRouterQuota: the day's allowance of the free pool is spent.
PoolExhausted(i, status) ==
  IF Provider[i] = OpenRouter /\ status = "rate" THEN BOOLEAN ELSE {FALSE}

Responses(i) ==
  UNION {[status : {status}, relayed : isProviderRelayedError(i),
          mismatch : IsCompatibilityError(i, status),
          pool : PoolExhausted(i, status)] : status \in Statuses}

isModelUnavailable(resp) == resp.status = "404"

SkipModel(resp) == resp.status \in {"400", "rate"} \/ resp.relayed

shouldRetryAttempt(resp) == resp.status \in {"server", "rate"}

\* "Who refused": what a response means for the rest of the chain.
Verdict(i, resp) ==
  LET account == resp.status = "account" /\ ~ resp.relayed
  IN  CASE account /\ Provider[i] # OpenRouter          -> "account"
        [] resp.mismatch                               -> "incompatible"
        [] resp.pool                                   -> "pool"
        [] resp.status = "rate"                        -> "quota"
        [] isModelUnavailable(resp) \/ SkipModel(resp) -> "rejected"
        [] shouldRetryAttempt(resp)                    -> "failed"
        [] account                                     -> "denied"
        [] OTHER                                       -> "terminal"

\* What executeAttempt may report of a call, given the context: also a 200, a
\* stream's headers, and a call or a body that broke off.
Answers(q) ==
  IF q.at \in q.left
    THEN {"ok", "headers", "failed"} \cup {Verdict(q.at, resp) : resp \in Responses(q.at)}
           \cup (IF q.ctx = "cancelled" THEN {"cancelled"} ELSE {})
    ELSE IF q.ctx = "cancelled" THEN {"cancelled"} ELSE {"failed"}

\* penalizeScore: not for the client's hang-up, an account or a quota.
Blames(answer) == answer \in {"failed", "incompatible", "rejected", "terminal"}

SettledReleasesCancelled(q, answer) ==
  [q EXCEPT !.ticket[q.at] = IF answer = "cancelled" THEN "released" ELSE "charged",
            !.unfair = IF Blames(answer) THEN @ \cup ({q.at} \ q.left) ELSE @]

\* The ticket is settled, by the response or by the deferred cleanup with the
\* estimate, and the model is scored.
Settled(q, answer) ==
  [q EXCEPT !.ticket[q.at] = "charged",
            !.unfair = IF Blames(answer) THEN @ \cup ({q.at} \ q.left) ELSE @]

Answer(r, answer) ==
  LET q == req[r]
      s == Settled(q, answer)
  IN  /\ q.pc = "sent"
      /\ answer \in Answers(q)
      /\ CASE answer = "ok" -> Finish(r, s, "served")
           [] answer \in {"terminal", "denied"} ->
                ChainFailed(r, s, IF Executable(s, s.at) # {} THEN "terminal" ELSE "exhausted")
           [] OTHER ->
                /\ req' = [req EXCEPT ![r] =
                     [s EXCEPT !.pc = IF answer = "headers" THEN "first_event" ELSE "next",
                               !.down = IF answer \in {"account", "incompatible"}
                                          THEN @ \cup {Provider[q.at]} ELSE @,
                               !.pools = IF answer = "pool"
                                          THEN @ \cup {Provider[q.at]} ELSE @]]
                /\ UNCHANGED slots

\* The first event arrives, or the stream ends by itself, or this is the last
\* attempt: the stream is served, and executeAttempt returns nil however it ends.
Serve(r) ==
  /\ req[r].pc = "first_event"
  /\ Finish(r, req[r], "served")

ReservedNone(ticket, later, j) == ticket

ReservedAll(ticket, later, j) ==
  [i \in 1 .. N |-> IF i \in later THEN "held" ELSE ticket[i]]

\* reserveNextExecutableAttempt: the ticket of attempt j.
Reserved(ticket, later, j) == [ticket EXCEPT ![j] = "held"]

\* The first-event budget passes and ReserveFallback reserves attempt j, the
\* first that quota allows; the earlier ones are struck from the chain.
Abandon(r, j) ==
  LET q == req[r]
      later == Executable(q, q.at)
  IN  /\ q.pc = "first_event"
      /\ j \in later
      /\ req' = [req EXCEPT ![r].pc = "next",
                            ![r].ticket = Reserved(@, later, j),
                            ![r].gone = @ \cup {i \in later : i < j}]
      /\ UNCHANGED slots

\* ... or reserves none: better a slow stream than none.
KeepSlow(r) ==
  LET q == req[r]
      later == Executable(q, q.at)
  IN  /\ q.pc = "first_event"
      /\ later # {}
      /\ Finish(r, [q EXCEPT !.gone = @ \cup later], "served")

-----------------------------------------------------------------------------
\* The client hangs up, or the total budget of a non-stream request, which
\* dispatchChain starts, is spent.
ContextEnds(r) ==
  /\ req[r].pc # "done"
  /\ req[r].ctx = "live"
  /\ \E end \in {"cancelled"} \cup
       (IF req[r].stream \/ req[r].pc = "arrive" THEN {} ELSE {"expired"}) :
       req' = [req EXCEPT ![r].ctx = end]
  /\ UNCHANGED slots

\* A later request in the same place.
Renew(r) ==
  /\ req[r].pc = "done"
  /\ \E stream \in BOOLEAN : req' = [req EXCEPT ![r] = New(stream)]
  /\ UNCHANGED slots

Step(r) ==
  \/ Acquire(r) \/ Reject(r)
  \/ RefuseCapability(r) \/ Refuse(r)
  \/ \E w \in HoldWaits : Hold(r, w)
  \/ HoldRefused(r) \/ HoldOver(r) \/ Reacquire(r)
  \/ \E chain \in SUBSET Planned[r] : RankAndReserve(r, chain)
  \/ Begin(r) \/ Skip(r) \/ Send(r)
  \/ req[r].pc = "sent" /\ \E answer \in Answers(req[r]) : Answer(r, answer)
  \/ Serve(r)
  \/ \E j \in 1 .. N : Abandon(r, j)
  \/ KeepSlow(r)

Next == \E r \in Requests : Step(r) \/ ContextEnds(r) \/ Renew(r)

\* Each request's goroutine runs, its timers fire and its upstream calls end
\* (they are bounded by the header, idle and attempt timeouts).
Spec == Init /\ [][Next]_vars /\ \A r \in Requests : WF_vars(Step(r))

-----------------------------------------------------------------------------
Results == {"none", "served", "capacity", "capability", "too_large", "cooling",
            "exhausted", "terminal", "cancelled", "total_timeout"}

Request ==
  [pc : {"arrive", "gate", "hold", "reacquire", "next", "attempt", "sent",
         "first_event", "done"},
   stream : BOOLEAN,
   ctx : {"live", "cancelled", "expired"},
   budget : (0 - HoldSettle) .. HoldBudget,
   wait : HoldWaits \cup {0},
   chain : SUBSET (1 .. N),
   at : 0 .. N,
   down : SUBSET Providers,
   pools : SUBSET Providers,
   gone : SUBSET (1 .. N),
   ticket : [1 .. N -> Tickets],
   tried : SUBSET (1 .. N),
   left : SUBSET (1 .. N),
   unfair : SUBSET (1 .. N),
   result : Results]

\* Types of the requests' state, and the bound on the admission slots: the
\* hold budget is never overdrawn by more than the settling time.
TypeOK ==
  /\ slots \subseteq Requests
  /\ Cardinality(slots) <= Slots
  /\ req \in [Requests -> Request]

\* A request holds an admission slot exactly while it works: none works
\* without one after a hold, none keeps one while parked, and no way out of
\* the handler leaks one.
SlotWhileWorking ==
  \A r \in Requests :
    r \in slots <=> req[r].pc \in {"gate", "next", "attempt", "sent", "first_event"}

Held(q) == {i \in 1 .. N : q.ticket[i] \in {"held", "local"}}

\* No quota is stranded: a request that is parked or answered holds no
\* reservation, whatever mix of skips, refusals, abandoned streams, provider
\* outages and hang-ups its chain went through.  And none is kept in store: a
\* working request holds at most one, for the attempt it makes or is about to.
NoTicketLeak ==
  \A r \in Requests :
    /\ Cardinality(Held(req[r])) <= 1
    /\ req[r].pc \in {"arrive", "gate", "hold", "reacquire", "done"} => Held(req[r]) = {}

\* Whatever left the process is charged: no call that reached an upstream has
\* its reservation handed back as if it had not happened.
SentIsCharged ==
  \A r \in Requests : \A i \in req[r].left :
    req[r].ticket[i] = "charged" \/ (req[r].pc = "sent" /\ req[r].at = i)

\* "exhausted" means the chain had its full run: every model in it was tried,
\* or belonged to a provider or pool the chain learned to be out, or was
\* refused quota.  "terminal" means models remained.
VerdictMatchesChain ==
  \A r \in Requests :
    LET q == req[r]
        untried == {i \in q.chain \ q.tried :
                      /\ i \notin q.gone
                      /\ Provider[i] \notin q.down
                      /\ ~ (i \in FreePool /\ Provider[i] \in q.pools)}
    IN  /\ q.result = "exhausted" => untried = {}
        /\ q.result = "terminal" => untried # {}

\* A model is never tried after the chain has learned that its provider or its
\* free pool is out, or that quota refuses it.
RuledOutStaysOut ==
  [][\A r \in Requests : \A i \in req'[r].tried \ req[r].tried :
       /\ i \notin req[r].gone
       /\ Provider[i] \notin req[r].down
       /\ ~ (i \in FreePool /\ Provider[i] \in req[r].pools)]_vars

\* A stream that is slow to start is given up only for a model whose quota is
\* already reserved, and that model is the next to be tried.
AbandonedForReserved ==
  [][\A r \in Requests :
       (req[r].pc = "first_event" /\ req'[r].pc = "next") =>
         LET later == Executable(req'[r], req'[r].at)
         IN  later # {} /\ req'[r].ticket[First(later)] = "held"]_vars

\* Every request is answered: the hold loop, the fallback loop and the wait for
\* admission all end.
EveryRequestAnswered ==
  \A r \in Requests : (req[r].pc # "done") ~> (req[r].pc = "done")

\* "our own per-attempt timeout firing, which is real evidence the model is too
\* slow" (router_upstream.go:116): a model is penalised only for a call that
\* was made while the request still had time.
BlamedOnlyIfSent ==
  \A r \in Requests : req[r].unfair = {}

=============================================================================
