------------------------------ MODULE Breakers ------------------------------
(***************************************************************************)
(* The model and provider circuit breakers (router_breaker.go,             *)
(* router_provider_breaker.go) driven by concurrent runs of executeAttempt *)
(* (router_upstream.go).  Every breaker function takes breakerMu on its    *)
(* own, so each call is one step and the calls of different attempts       *)
(* interleave.  What executeAttempt calls once an attempt has an outcome   *)
(* is a list of operations, run one at a time.                             *)
(*                                                                         *)
(* Deadlines are kept as the time left of them, and Tick takes one unit    *)
(* from all: a breaker only compares its deadlines with the clock.         *)
(*                                                                         *)
(* A definition that no action uses, placed before the one it resembles,   *)
(* is a deliberate fault that shows that a property can fail.              *)
(***************************************************************************)
EXTENDS Integers, Sequences

CONSTANTS
  Models, Providers,
  ProviderOf,        \* ProviderOf[m]: the provider serving model m
  OpenRouter,        \* the provider whose account failures stay per model
  Attempts,          \* concurrent runs of executeAttempt
  FailureThreshold,  \* breakerConfig.FailureThreshold, or the profile's
  Cooldown,          \* breakerConfig.Cooldown, in ticks
  ProbeTTL,          \* breakerConfig.RequestTimeout, in ticks
  RetryAfters        \* Retry-After values an upstream sends (0: none)

ASSUME BreakersAssumption ==
  /\ FailureThreshold \in Nat \ {0}
  /\ Cooldown \in Nat \ {0}
  /\ ProbeTTL \in Nat \ {0}
  /\ ProviderOf \in [Models -> Providers]
  /\ RetryAfters \subseteq Nat
  /\ Models \cap Providers = {}
  /\ "none" \notin Models

VARIABLES
  failures,    \* ConsecutiveFailures, as far as it is told apart
  openFor,     \* what is left of OpenUntil, or Closed (the zero time)
  probeFor,    \* what is left of ProbeUntil, 0 when it is unset or has passed
  pc,          \* pc[a]: where attempt a is in executeAttempt
  model,       \* model[a]: the model a is for, None between attempts
  outcome,     \* outcome[a]: how a's upstream call went, once known
  retryAfter,  \* retryAfter[a]: the Retry-After a's answer carried
  todo         \* todo[a]: the breaker calls a has still to make

vars == <<failures, openFor, probeFor, pc, model, outcome, retryAfter, todo>>

Circuits == Models \cup Providers

None == "none"

Closed == -2     \* OpenUntil.IsZero()
Past   == -1     \* time.Now().After(OpenUntil)

Max(i, j) == IF i > j THEN i ELSE j

\* OpenUntil.After(time.Now()): isModelAvailableLocked is ~ Cooling for the
\* model and for its provider.
Cooling(x) == openFor[x] > 0

HalfOpen(x) == openFor[x] \in {Past, 0}

MayStartOnlyClosed(x) == openFor[x] = Closed

\* tryStartAttempt and tryStartProvider return true.  (Both check again under
\* the write lock, so a call that claims takes effect there.)
MayStart(x) == openFor[x] = Closed \/ (HalfOpen(x) /\ probeFor[x] = 0)

\* ... and set ProbeUntil when the circuit is half-open.
Claimed(x) == [probeFor EXCEPT ![x] = IF HalfOpen(x) THEN ProbeTTL ELSE @]

Init ==
  /\ failures = [x \in Circuits |-> 0]
  /\ openFor  = [x \in Circuits |-> Closed]
  /\ probeFor = [x \in Circuits |-> 0]
  /\ pc       = [a \in Attempts |-> "idle"]
  /\ model    = [a \in Attempts |-> None]
  /\ outcome  = [a \in Attempts |-> None]
  /\ retryAfter = [a \in Attempts |-> 0]
  /\ todo     = [a \in Attempts |-> <<>>]

-----------------------------------------------------------------------------
\* The breaker calls executeAttempt makes for each outcome, in its order.
\* "failed" is a transport error, a 5xx or 408, a truncated or oversize body
\* or a stream that stalled or died; "rejected" is any other refusal.
Blame  == <<"penalizeScore", "recordFailure", "resolveProviderProbe">>
Settle == <<"resolveProbe", "resolveProviderProbe">>

SkippedLeaks == <<>>

Skipped == <<"resolveProviderProbe">>

Bookkeeping(o, p) ==
  CASE o = "skipped" -> Skipped
    [] o \in {"refused", "cancelled", "headers"} -> Settle
    [] o \in {"failed", "readCancelled"} -> Blame
    [] o = "quota" -> Settle \o <<"resolveProviderProbe", "resolveProbe">>
    [] o = "account" ->
         <<IF p = OpenRouter THEN "resolveProviderProbe" ELSE "recordProviderFailure",
           "resolveProbe">>
    [] o = "rejected" -> <<"penalizeScore", "resolveProviderProbe", "resolveProbe">>
    [] o = "completed" -> <<"recordSuccess", "resolveProviderSuccess">>
    [] o = "abandoned" -> <<"penalizeScore">>
    [] o = "gone" -> <<>>

Outcomes ==
  {"skipped", "refused", "cancelled", "headers", "failed", "readCancelled",
   "quota", "account", "rejected", "completed", "abandoned", "gone"}

\* Attempt a has outcome o and turns to its bookkeeping.
Conclude(a, o, ra) ==
  /\ outcome' = [outcome EXCEPT ![a] = o]
  /\ retryAfter' = [retryAfter EXCEPT ![a] = ra]
  /\ todo' = [todo EXCEPT ![a] = Bookkeeping(o, ProviderOf[model[a]])]
  /\ pc' = [pc EXCEPT ![a] = "booking"]

-----------------------------------------------------------------------------
\* filterAvailableAttempts let model m into the chain at some earlier time, so
\* what it saw constrains nothing now.  A refusal leaves no trace.
TryStartProvider(a, m) ==
  LET p == ProviderOf[m]
  IN  /\ pc[a] = "idle"
      /\ MayStart(p)
      /\ probeFor' = Claimed(p)
      /\ model' = [model EXCEPT ![a] = m]
      /\ pc' = [pc EXCEPT ![a] = "provider"]
      /\ UNCHANGED <<failures, openFor, outcome, retryAfter, todo>>

TryStartAttempt(a) ==
  /\ pc[a] = "provider"
  /\ IF MayStart(model[a])
       THEN /\ probeFor' = Claimed(model[a])
            /\ pc' = [pc EXCEPT ![a] = "admitted"]
            /\ UNCHANGED <<outcome, retryAfter, todo>>
       ELSE Conclude(a, "skipped", 0) /\ UNCHANGED probeFor
  /\ UNCHANGED <<failures, openFor, model>>

\* newUpstreamRequest fails, or reserveFallbackQuota finds no quota left.
Refuse(a) ==
  /\ pc[a] = "admitted"
  /\ Conclude(a, "refused", 0)
  /\ UNCHANGED <<failures, openFor, probeFor, model>>

\* The request is sent.  Client.Do fails, or answers with a status other than
\* 200, or with the headers of an event stream.
Answer(a, o, ra) ==
  /\ pc[a] = "admitted"
  /\ o \in {"cancelled", "failed", "quota", "account", "rejected", "headers"}
  /\ o \notin {"account", "failed"} => ra = 0
  /\ Conclude(a, o, ra)
  /\ UNCHANGED <<failures, openFor, probeFor, model>>

\* A 200 that is not an event stream (no breaker call lies between it and the
\* end of its body): io.ReadAll returns the whole body, or a truncated or
\* oversize one, or an error because the client's context was cancelled.
ReadBody(a, o) ==
  /\ pc[a] = "admitted"
  /\ o \in {"completed", "failed", "readCancelled"}
  /\ Conclude(a, o, 0)
  /\ UNCHANGED <<failures, openFor, probeFor, model>>

\* The stream ends, or is abandoned before its first event.
EndStream(a, o) ==
  /\ pc[a] = "streaming"
  /\ o \in {"completed", "failed", "gone", "abandoned"}
  /\ Conclude(a, o, 0)
  /\ UNCHANGED <<failures, openFor, probeFor, model>>

-----------------------------------------------------------------------------
TripsLate(n, immediateOpen) == n > FailureThreshold \/ immediateOpen

\* The failure count opens the circuit.
Trips(n, immediateOpen) == n >= FailureThreshold \/ immediateOpen

WindowShortened(left, ra) == Max(Cooldown, ra)

\* The cooldown, or a longer Retry-After; an open window is never shortened.
Window(left, ra) == Max(left, Max(Cooldown, ra))

\* recordFailure and recordProviderFailure on circuit x: a failure after the
\* cooldown restarts the count.  A count is kept only as far as it is told
\* apart: up to the threshold, or up to 1 where every failure opens.
Failed(x, immediateOpen, ra) ==
  LET left == IF openFor[x] = Past THEN Closed ELSE openFor[x]
      n    == (IF openFor[x] = Past THEN 0 ELSE failures[x]) + 1
      most == IF immediateOpen THEN 1 ELSE FailureThreshold
  IN  /\ failures' = [failures EXCEPT ![x] = IF n > most THEN most ELSE n]
      /\ openFor'  = [openFor EXCEPT ![x] =
                        IF Trips(n, immediateOpen) THEN Window(left, ra) ELSE left]
      /\ probeFor' = [probeFor EXCEPT ![x] = 0]

\* resolveProbe, recordSuccess and resolveProviderSuccess: the circuit closes.
Cleared(x) ==
  /\ failures' = [failures EXCEPT ![x] = 0]
  /\ openFor'  = [openFor EXCEPT ![x] = Closed]
  /\ probeFor' = [probeFor EXCEPT ![x] = 0]

\* penalizeScore and resolveProviderProbe: only the probe claim is given back.
Unclaimed(x) ==
  /\ probeFor' = [probeFor EXCEPT ![x] = 0]
  /\ UNCHANGED <<failures, openFor>>

Apply(op, m, ra) ==
  LET p == ProviderOf[m]
  IN  CASE op = "penalizeScore" -> Unclaimed(m)
        [] op = "recordFailure" -> Failed(m, FALSE, ra)
        [] op \in {"resolveProbe", "recordSuccess"} -> Cleared(m)
        [] op = "resolveProviderProbe" -> Unclaimed(p)
        [] op = "resolveProviderSuccess" -> Cleared(p)
        [] op = "recordProviderFailure" -> Failed(p, TRUE, ra)

\* executeAttempt goes on to stream the body, or returns.
Leave(a) ==
  /\ IF outcome[a] = "headers"
       THEN pc' = [pc EXCEPT ![a] = "streaming"] /\ UNCHANGED model
       ELSE pc' = [pc EXCEPT ![a] = "idle"] /\ model' = [model EXCEPT ![a] = None]
  /\ outcome' = [outcome EXCEPT ![a] = None]
  /\ retryAfter' = [retryAfter EXCEPT ![a] = 0]

\* A Retry-After is used once, by the call that records the failure.
Unspent(a) ==
  [retryAfter EXCEPT ![a] =
     IF Head(todo[a]) \in {"recordFailure", "recordProviderFailure"} THEN 0 ELSE @]

\* a makes the next of its breaker calls; after the last one it touches no
\* circuit any more.
Book(a) ==
  /\ pc[a] = "booking"
  /\ todo[a] # <<>>
  /\ Apply(Head(todo[a]), model[a], retryAfter[a])
  /\ todo' = [todo EXCEPT ![a] = Tail(@)]
  /\ IF Len(todo[a]) = 1
       THEN Leave(a)
       ELSE retryAfter' = Unspent(a) /\ UNCHANGED <<pc, model, outcome>>

\* The outcome called for no breaker call.
Return(a) ==
  /\ pc[a] = "booking"
  /\ todo[a] = <<>>
  /\ Leave(a)
  /\ UNCHANGED <<failures, openFor, probeFor, todo>>

-----------------------------------------------------------------------------
\* One unit of time passes; no step of an attempt is bound to a time.
Tick ==
  /\ openFor'  = [x \in Circuits |-> IF openFor[x] > Past THEN openFor[x] - 1 ELSE openFor[x]]
  /\ probeFor' = [x \in Circuits |-> IF probeFor[x] > 0 THEN probeFor[x] - 1 ELSE 0]
  /\ UNCHANGED <<failures, pc, model, outcome, retryAfter, todo>>

Step(a) ==
  \/ \E m \in Models : TryStartProvider(a, m)
  \/ TryStartAttempt(a)
  \/ Refuse(a)
  \/ \E o \in Outcomes, ra \in RetryAfters : Answer(a, o, ra)
  \/ \E o \in Outcomes : ReadBody(a, o) \/ EndStream(a, o)
  \/ Book(a)
  \/ Return(a)

Next == Tick \/ \E a \in Attempts : Step(a)

\* Only the clock is fair: an attempt may hang at any of its steps.
Spec == Init /\ [][Next]_vars /\ WF_vars(Tick)

-----------------------------------------------------------------------------
MaxWindow == CHOOSE w \in RetryAfters \cup {Cooldown} :
               \A v \in RetryAfters \cup {Cooldown} : v <= w

\* Types of the breaker maps and of the attempts.
TypeOK ==
  /\ failures \in [Circuits -> 0 .. FailureThreshold]
  /\ openFor  \in [Circuits -> Closed .. MaxWindow]
  /\ probeFor \in [Circuits -> 0 .. ProbeTTL]
  /\ pc \in [Attempts -> {"idle", "provider", "admitted", "streaming", "booking"}]
  /\ model \in [Attempts -> Models \cup {None}]
  /\ outcome \in [Attempts -> Outcomes \cup {None}]
  /\ retryAfter \in [Attempts -> RetryAfters \cup {0}]
  /\ \A a \in Attempts : pc[a] # "booking" => todo[a] = <<>>

\* A half-open claim always has a live owner: no way out of executeAttempt
\* (skip, local refusal, cancellation, any status, either end of a stream)
\* leaves the claim of a model or of a provider behind, so recovery never has
\* to wait for the TTL of a request that is gone.
ClaimHasOwner ==
  \A x \in Circuits : probeFor[x] > 0 =>
    \E a \in Attempts :
      /\ model[a] # None
      /\ x \in {model[a], ProviderOf[model[a]]}
      /\ pc[a] \in {"provider", "admitted", "booking"}

\* A model circuit never loses an outage: the FailureThreshold-th consecutive
\* failure opens it, whatever stragglers, probes and expiries came between.
FullThresholdOpens ==
  \A m \in Models : openFor[m] = Closed => failures[m] < FailureThreshold

\* "Never SHORTEN an already-open window": a breaker call either closes a
\* cooling circuit or leaves at least what was left of its window, so a
\* straggler's default cooldown cannot undo a long Retry-After.
NeverShortened ==
  [][\A x \in Circuits : Cooling(x) =>
       \/ openFor'[x] = Closed
       \/ openFor'[x] >= openFor[x]
       \/ probeFor' = [y \in Circuits |-> IF probeFor[y] > 0 THEN probeFor[y] - 1 ELSE 0]
            /\ openFor'[x] = openFor[x] - 1]_vars

\* A provider taken out for its account (401, 402, 403) comes back only when
\* one of its models completes a response: neither a cancelled or rejected
\* probe nor the end of its cooldown closes the circuit.
ProviderClosesOnlyOnSuccess ==
  [][\A p \in Providers : (openFor[p] # Closed /\ openFor'[p] = Closed) =>
       \E a \in Attempts : outcome[a] = "completed" /\ ProviderOf[model[a]] = p]_vars

\* No circuit wedges: the clock alone brings every model, together with its
\* provider, back to admitting an attempt, even when the probe's owner hangs
\* for ever (tryStartAttempt and tryStartProvider after ProbeUntil).
CircuitsRecover == \A m \in Models : []<>(MayStart(m) /\ MayStart(ProviderOf[m]))

\* "A cancelled request context is not the model's fault"
\* (router_upstream.go:102): an attempt whose client hung up never adds a
\* failure to its model's circuit.
CancelNotBlamed ==
  [][\A a \in Attempts :
       (outcome[a] \in {"cancelled", "readCancelled"} /\ Len(todo'[a]) < Len(todo[a]))
         => failures'[model[a]] <= failures[model[a]]]_vars

=============================================================================
