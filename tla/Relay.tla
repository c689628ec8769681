------------------------------- MODULE Relay -------------------------------
(***************************************************************************)
(* What the stream relay of internal/router/router_stream.go promises, and *)
(* nothing of how it keeps it: the client sees the upstream's units in     *)
(* order, none twice and none left out, and the verdict given when the     *)
(* relay ends (streamOutcome) is one the facts support.  Module Stream     *)
(* implements it with two goroutines and three timers.                     *)
(***************************************************************************)
EXTENDS Naturals, Sequences

CONSTANTS MaxUnits, Kinds

VARIABLES
  wire,      \* the units the upstream has sent
  upstream,  \* "open", or how it ended: "eof", "error"
  out,       \* the numbers of the units the client has received
  silent,    \* nothing has reached the client for an idle window
  verdict    \* "none" while the relay runs, then a streamOutcome or "abandoned"

vars == <<wire, upstream, out, silent, verdict>>

FirstUnits(n) == [i \in 1 .. n |-> i]

Supported(v) ==
  CASE v = "completed"  -> upstream = "eof" /\ out = FirstUnits(Len(wire))
    [] v = "upstreamError" -> upstream = "error"
    [] v = "stalled"    -> silent
    [] v = "abandoned"  -> out = << >>
    [] v \in {"clientGone", "maxReached"} -> TRUE

Init ==
  /\ wire = << >>
  /\ upstream = "open"
  /\ out = << >>
  /\ silent = FALSE
  /\ verdict = "none"

UpstreamSends ==
  /\ upstream = "open" /\ Len(wire) < MaxUnits
  /\ \E k \in Kinds : wire' = Append(wire, k)
  /\ UNCHANGED <<upstream, out, silent, verdict>>

UpstreamEnds ==
  /\ upstream = "open"
  /\ upstream' \in {"eof", "error"}
  /\ UNCHANGED <<wire, out, silent, verdict>>

Deliver ==
  /\ verdict = "none"
  /\ \E n \in Len(out) + 1 .. Len(wire) : out' = FirstUnits(n)
  /\ silent' = FALSE
  /\ UNCHANGED <<wire, upstream, verdict>>

FallSilent ==
  /\ silent' = TRUE
  /\ UNCHANGED <<wire, upstream, out, verdict>>

Finish ==
  /\ verdict = "none"
  /\ verdict' \in {"completed", "upstreamError", "stalled", "abandoned",
                   "clientGone", "maxReached"}
  /\ Supported(verdict')
  /\ UNCHANGED <<wire, upstream, out, silent>>

Next == UpstreamSends \/ UpstreamEnds \/ Deliver \/ FallSilent \/ Finish

Spec == Init /\ [][Next]_vars

=============================================================================
