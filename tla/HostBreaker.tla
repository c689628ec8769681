---------------------------- MODULE HostBreaker ----------------------------
(***************************************************************************)
(* GlobalBreakerTransport (internal/router/router_breaker.go): the         *)
(* transport-level circuit breaker, one circuit per upstream host.         *)
(* RoundTrip holds the mutex in two separate sections with the network     *)
(* round trip between them, so it is two actions: HostRefuses or Dispatch, *)
(* then HostReturns.                                                       *)
(*                                                                         *)
(* The code stores deadlines and compares them with time.Now(); the model  *)
(* stores what is left of each deadline and HostTick takes one unit from   *)
(* all of them, which keeps the state space finite without bounding time.  *)
(*                                                                         *)
(* A definition that no action uses, placed before the one it resembles,   *)
(* is a deliberate fault that shows that a property can fail.              *)
(***************************************************************************)
EXTENDS Integers

CONSTANTS
  Hosts,          \* upstream hosts
  Callers,        \* concurrent callers of RoundTrip
  HostThreshold,  \* FailureThreshold: transport errors that open a circuit
  HostCooldown,   \* Cooldown: how long it stays open, in ticks
  HostProbeTTL    \* max(Cooldown, 60s), in ticks

ASSUME HostBreakerAssumption ==
  /\ HostThreshold \in Nat \ {0}
  /\ HostCooldown \in Nat \ {0}
  /\ HostProbeTTL \in Nat \ {0}
  /\ HostProbeTTL >= HostCooldown

VARIABLES
  hostFailures,  \* hostBreakerState.failures, saturated at HostThreshold
  hostOpenFor,   \* what is left of openUntil: HostClosed when it is the zero
                 \* time, 0 once the cooldown has elapsed (half-open)
  hostProbeFor,  \* what is left of probeUntil, 0 when it is unset or has passed
  call,          \* call[r]: "idle", or how r was let through: "ordinary", "probe"
  host,          \* host[r]: the host r was last sent to
  claimFor       \* history: what is left of the TTL of the claim r made

hostVars == <<hostFailures, hostOpenFor, hostProbeFor, call, host, claimFor>>

HostClosed == -1

Answers == {"error", "cancelled", "5xx", "429", "other"}

HostStart ==
  /\ hostFailures = [h \in Hosts |-> 0]
  /\ hostOpenFor  = [h \in Hosts |-> HostClosed]
  /\ hostProbeFor = [h \in Hosts |-> 0]
  /\ call         = [r \in Callers |-> "idle"]
  /\ host        \in [Callers -> Hosts]
  /\ claimFor     = [r \in Callers |-> 0]

HostHalfOpen(h) == hostOpenFor[h] = 0

\* The circuit lets a caller through: closed, or half-open with the probe free.
Admits(h) == hostOpenFor[h] = HostClosed \/ (HostHalfOpen(h) /\ hostProbeFor[h] = 0)

RefuseExtendsProbe(r, h) ==
  /\ call[r] = "idle"
  /\ ~ Admits(h)
  /\ hostProbeFor' = [hostProbeFor EXCEPT ![h] = IF HostHalfOpen(h) THEN HostProbeTTL ELSE @]
  /\ UNCHANGED <<hostFailures, hostOpenFor, call, host, claimFor>>

\* RoundTrip fails fast: the circuit is open, or its probe is in flight.
HostRefuses(r, h) ==
  /\ call[r] = "idle"
  /\ ~ Admits(h)
  /\ UNCHANGED hostVars

\* First locked section of a call that is let through; on a half-open circuit
\* the caller claims the probe.
Dispatch(r, h) ==
  /\ call[r] = "idle"
  /\ Admits(h)
  /\ call' = [call EXCEPT ![r] = IF HostHalfOpen(h) THEN "probe" ELSE "ordinary"]
  /\ host' = [host EXCEPT ![r] = h]
  /\ hostProbeFor' = [hostProbeFor EXCEPT ![h] = IF HostHalfOpen(h) THEN HostProbeTTL ELSE @]
  /\ claimFor' = [claimFor EXCEPT ![r] = IF HostHalfOpen(h) THEN HostProbeTTL ELSE 0]
  /\ UNCHANGED <<hostFailures, hostOpenFor>>

CappedInc(n) == IF n < HostThreshold THEN n + 1 ELSE n

Reopened(open) == HostCooldown

ForgivenNot(n) == n
Forgiven(n) == 0

\* The circuit (failures, openFor) after an answer to a call that was
\* (not) the probe.
Verdict(n, open, answer, probing) ==
  CASE answer = "error" ->
         [failures |-> CappedInc(n),
          openFor  |-> IF n + 1 >= HostThreshold THEN Reopened(open) ELSE open]
    [] answer = "5xx" /\ probing -> [failures |-> n, openFor |-> Reopened(open)]
    [] answer = "other" -> [failures |-> Forgiven(n), openFor |-> HostClosed]
    [] OTHER -> [failures |-> n, openFor |-> open]

ClaimAfter(left, answer) == 0

\* Second locked section: whatever the answer, the probe claim is cleared.
HostReturns(r, answer) ==
  LET h == host[r]
      v == Verdict(hostFailures[h], hostOpenFor[h], answer, call[r] = "probe")
  IN  /\ call[r] # "idle"
      /\ hostProbeFor' = [hostProbeFor EXCEPT ![h] = ClaimAfter(@, answer)]
      /\ hostFailures' = [hostFailures EXCEPT ![h] = v.failures]
      /\ hostOpenFor'  = [hostOpenFor EXCEPT ![h] = v.openFor]
      /\ call'         = [call EXCEPT ![r] = "idle"]
      /\ claimFor'     = [claimFor EXCEPT ![r] = 0]
      /\ UNCHANGED host

Elapse(left) == IF left > 0 THEN left - 1 ELSE left

\* One unit of time passes; a call may be in flight for any number of them.
HostTick ==
  /\ hostOpenFor'  = [h \in Hosts |-> Elapse(hostOpenFor[h])]
  /\ hostProbeFor' = [h \in Hosts |-> Elapse(hostProbeFor[h])]
  /\ claimFor'     = [r \in Callers |-> Elapse(claimFor[r])]
  /\ UNCHANGED <<hostFailures, call, host>>

HostNext ==
  \/ HostTick
  \/ \E r \in Callers :
       \/ \E h \in Hosts : HostRefuses(r, h) \/ Dispatch(r, h)
       \/ \E answer \in Answers : HostReturns(r, answer)

\* Only the clock is fair: a call may hang in flight for ever.
HostSpec == HostStart /\ [][HostNext]_hostVars /\ WF_hostVars(HostTick)

-----------------------------------------------------------------------------
\* Types of the state of GlobalBreakerTransport and of its callers.
HostTypeOK ==
  /\ hostFailures \in [Hosts -> 0 .. HostThreshold]
  /\ hostOpenFor  \in [Hosts -> HostClosed .. HostCooldown]
  /\ hostProbeFor \in [Hosts -> 0 .. HostProbeTTL]
  /\ call         \in [Callers -> {"idle", "ordinary", "probe"}]
  /\ host         \in [Callers -> Hosts]
  /\ claimFor     \in [Callers -> 0 .. HostProbeTTL]

\* A host with HostThreshold transport errors on record is never treated as
\* healthy: RoundTrip clears openUntil only together with the failure counter,
\* however the answers of overlapping calls interleave.  Nor is it guarded by
\* a claim that nobody holds: every way RoundTrip returns (error, cancellation,
\* 429, 5xx, success) gives the claim of its probe back.
FailedHostStaysGuarded ==
  \A h \in Hosts :
    /\ hostFailures[h] >= HostThreshold => hostOpenFor[h] # HostClosed
    /\ hostProbeFor[h] > 0 => \E r \in Callers : call[r] = "probe" /\ host[r] = h

\* A host circuit never wedges: time alone brings it back to letting a caller
\* through, even if the probe hangs for ever.
AdmitsAgain == \A h \in Hosts : []<>Admits(h)

\* "Let exactly one probe through; everyone else keeps failing fast until it
\* resolves or the probe TTL lapses" (router_breaker.go:584): two calls never
\* probe the same host with both TTLs still running.
SingleProbe ==
  \A r, s \in Callers :
    (r # s /\ host[r] = host[s]) => ~ (claimFor[r] > 0 /\ claimFor[s] > 0)

=============================================================================
