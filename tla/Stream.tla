------------------------------- MODULE Stream -------------------------------
(***************************************************************************)
(* The relay of one streamed response (internal/router/router_stream.go    *)
(* and the streaming branch of executeAttempt): the wait for the first     *)
(* event, the reader goroutine, and the select loop of streamCopy with its *)
(* idle and lifetime timers and the request context.                       *)
(*                                                                         *)
(* A unit is a line of the event stream, a "keepalive" (comment, blank or  *)
(* any line that is not data) or an "event" (data:).  The goroutines share *)
(* one bufio.Reader, whose cursor is taken; timers are kept as the time    *)
(* left, 0 meaning that the channel holds a value.                         *)
(*                                                                         *)
(* A definition that no action uses, placed before the one it resembles,   *)
(* is a deliberate fault that shows that a property can fail.              *)
(***************************************************************************)
EXTENDS Naturals, Sequences

CONSTANTS
  MaxUnits,  \* bound on the units the upstream sends
  Wait,      \* first-event budget (PROXY_STREAM_FIRST_BYTE_TIMEOUT), in ticks
  Idle,      \* streamIdleTimeout, in ticks
  Life       \* streamMaxDuration, in ticks

ASSUME StreamAssumption ==
  /\ MaxUnits \in Nat
  /\ Wait \in Nat \ {0} /\ Idle \in Nat \ {0} /\ Life \in Nat \ {0}

VARIABLES
  wire,       \* the units the upstream has sent
  upstream,   \* "open", or how the body ended: "eof", "error"
  cancelled,  \* the request context is done (the client left)
  closed,     \* the body has been closed by the relay
  taken,      \* units taken from the shared bufio.Reader
  peek,       \* the first-event goroutine: "off", "reading", "done"
  seen,       \* the units it has consumed (firstEventResult.consumed)
  pc,         \* the handler: "await", "copy", or the verdict it returned
  waitLeft,   \* time left of the first-event budget
  idleLeft,   \* time left of idleTimer
  lifeLeft,   \* time left of maxTimer
  reader,     \* the reader goroutine: "off", "read", "got", "offer", "gone"
  joined,     \* the wrapper has the first-event result (its sync.Once ran)
  replay,     \* consumed units the wrapper has still to hand out
  hand,       \* units read and not yet taken by the select loop
  handErr,    \* the error returned with them: "none", "eof", "error"
  out,        \* history: the units written to the client
  quiet       \* history: ticks since the client last received a unit

vars == <<wire, upstream, cancelled, closed, taken, peek, seen, pc, waitLeft,
          idleLeft, lifeLeft, reader, joined, replay, hand, handErr, out, quiet>>

upstreamVars == <<wire, upstream, cancelled>>
timerVars    == <<waitLeft, idleLeft, lifeLeft, quiet>>
peekVars     == <<peek, seen>>
readerVars   == <<reader, joined, replay, hand, handErr>>

Kinds == {"keepalive", "event"}
Running == {"await", "copy"}

\* With a first-event budget and a fallback left the handler awaits an event;
\* without (budget 0, or LastInChain) it starts copying at once.
Init ==
  /\ wire = << >> /\ upstream = "open"
  /\ cancelled = FALSE /\ closed = FALSE
  /\ taken = 0 /\ seen = << >>
  /\ \/ pc = "await" /\ peek = "reading" /\ reader = "off"
     \/ pc = "copy" /\ peek = "off" /\ reader = "read"
  /\ waitLeft = Wait /\ idleLeft = Idle /\ lifeLeft = Life
  /\ joined = TRUE /\ replay = << >> /\ hand = << >> /\ handErr = "none"
  /\ out = << >> /\ quiet = 0

-----------------------------------------------------------------------------
\* The upstream and the client.
UpstreamSends ==
  /\ upstream = "open" /\ Len(wire) < MaxUnits
  /\ \E k \in Kinds : wire' = Append(wire, k)
  /\ UNCHANGED <<upstream, cancelled, closed, taken, peekVars, pc, timerVars,
                 readerVars, out>>

UpstreamEnds ==
  /\ upstream = "open"
  /\ upstream' \in {"eof", "error"}
  /\ UNCHANGED <<wire, cancelled, closed, taken, peekVars, pc, timerVars,
                 readerVars, out>>

Cancel ==
  /\ ~ cancelled
  /\ cancelled' = TRUE
  /\ UNCHANGED <<wire, upstream, closed, taken, peekVars, pc, timerVars,
                 readerVars, out>>

Elapse(left) == IF left > 0 THEN left - 1 ELSE 0

\* The idle and lifetime timers start with streamCopy.
Tick ==
  /\ waitLeft' = IF pc = "await" THEN Elapse(waitLeft) ELSE waitLeft
  /\ idleLeft' = IF pc = "copy" THEN Elapse(idleLeft) ELSE idleLeft
  /\ lifeLeft' = IF pc = "copy" THEN Elapse(lifeLeft) ELSE lifeLeft
  /\ quiet' = IF pc = "copy" /\ quiet < Idle THEN quiet + 1 ELSE quiet
  /\ UNCHANGED <<upstreamVars, closed, taken, peekVars, pc, readerVars, out>>

-----------------------------------------------------------------------------
\* The errors a read of the body may return once n units have been read: it was
\* closed, the context that carries it is done, or the upstream ended.
ReadErrors(n) ==
  (IF closed \/ cancelled THEN {"error"} ELSE {}) \union
  (IF upstream # "open" /\ n = Len(wire) THEN {upstream} ELSE {})

PeekEnds == peek' = "done"

\* The goroutine of awaitFirstStreamEvent reads a line; an event ends it, and
\* so does an error.
PeekLine ==
  /\ peek = "reading"
  /\ \/ /\ taken < Len(wire)
        /\ taken' = taken + 1
        /\ seen' = Append(seen, taken + 1)
        /\ IF wire[taken + 1] = "event" THEN PeekEnds ELSE UNCHANGED peek
     \/ /\ ReadErrors(taken) # {}
        /\ PeekEnds
        /\ UNCHANGED <<taken, seen>>
  /\ UNCHANGED <<upstreamVars, closed, pc, timerVars, readerVars, out>>

\* streamCopy starts: the timers and the reader goroutine.
StartCopy ==
  /\ pc' = "copy"
  /\ reader' = "read"

\* The result arrives first: the handler goes on with a reader that replays
\* what was consumed.
AwaitResult ==
  /\ pc = "await"
  /\ peek = "done"
  /\ StartCopy
  /\ replay' = seen
  /\ UNCHANGED <<upstreamVars, closed, taken, peekVars, timerVars, joined, hand,
                 handErr, out>>

\* The budget lapses and a fallback is reserved: the body is closed and the
\* chain advances.
Abandon ==
  /\ pc = "await"
  /\ waitLeft = 0
  /\ pc' = "abandoned"
  /\ closed' = TRUE
  /\ UNCHANGED <<upstreamVars, taken, peekVars, timerVars, readerVars, out>>

\* The budget lapses and no fallback can be reserved: the handler goes on with
\* a pendingFirstEventReader.
Continue ==
  /\ pc = "await"
  /\ waitLeft = 0
  /\ StartCopy
  /\ joined' = FALSE
  /\ UNCHANGED <<upstreamVars, closed, taken, peekVars, timerVars, replay,
                 hand, handErr, out>>

-----------------------------------------------------------------------------
\* pendingFirstEventReader: the first Read waits for the other goroutine.
PendingReady == peek \in {"off", "done"}

PendingReplayNothing == replay

\* What the wrapper has to hand out before it reads the body again.
Replay == IF joined THEN replay ELSE seen

\* body.Read returns n > 0 units, or none and an error, or both at once.
Read ==
  /\ reader = "read"
  /\ PendingReady
  /\ joined' = TRUE
  /\ \/ \E n \in 1 .. Len(Replay) :
          /\ hand' = SubSeq(Replay, 1, n)
          /\ replay' = SubSeq(Replay, n + 1, Len(Replay))
          /\ UNCHANGED <<taken, handErr>>
     \/ /\ Replay = << >>
        /\ \E n \in 0 .. Len(wire) - taken :
             /\ hand' = [i \in 1 .. n |-> taken + i]
             /\ taken' = taken + n
             /\ handErr' \in ReadErrors(taken + n) \union (IF n > 0 THEN {"none"} ELSE {})
        /\ replay' = << >>
  /\ reader' = "got"
  /\ UNCHANGED <<upstreamVars, closed, peekVars, pc, timerVars, out>>

\* The goroutine reaches its select on chunks and done.
Offer ==
  /\ reader = "got"
  /\ reader' = "offer"
  /\ UNCHANGED <<upstreamVars, closed, taken, peekVars, pc, timerVars, joined,
                 replay, hand, handErr, out>>

\* The handler has returned and closed done: the offer is withdrawn.
SeeDone ==
  /\ reader = "offer"
  /\ pc \notin Running
  /\ reader' = "gone"
  /\ UNCHANGED <<upstreamVars, closed, taken, peekVars, pc, timerVars, joined,
                 replay, hand, handErr, out>>

-----------------------------------------------------------------------------
ClosesOnAbortOnly(verdict) == verdict \in {"clientGone", "maxReached"}

\* Every way out of streamCopy closes the body.
Closes(verdict) == TRUE

Return(verdict) ==
  /\ pc' = verdict
  /\ closed' = Closes(verdict)

\* A read error is the client leaving if the context is done.
ErrorVerdict(err) ==
  IF err = "eof" THEN "completed"
  ELSE IF cancelled THEN "clientGone" ELSE "upstreamError"

\* streamCopy takes what the goroutine offers, whether or not the idle timer
\* has fired: data is written and restarts the timer, an error ends the relay.
TakeData ==
  /\ pc = "copy" /\ reader = "offer" /\ hand # << >>
  /\ out' = out \o hand
  /\ idleLeft' = Idle
  /\ quiet' = 0
  /\ hand' = << >>
  /\ reader' = IF handErr = "none" THEN "read" ELSE "got"
  /\ UNCHANGED <<upstreamVars, closed, taken, peekVars, pc, waitLeft, lifeLeft,
                 joined, replay, handErr>>

\* Writing to the client fails; the goroutine goes on to its next offer.
WriteFails ==
  /\ pc = "copy" /\ reader = "offer" /\ hand # << >>
  /\ Return("clientGone")
  /\ hand' = << >>
  /\ reader' = IF handErr = "none" THEN "read" ELSE "got"
  /\ UNCHANGED <<upstreamVars, taken, peekVars, timerVars, joined, replay,
                 handErr, out>>

TakeError ==
  /\ pc = "copy" /\ reader = "offer" /\ hand = << >>
  /\ Return(ErrorVerdict(handErr))
  /\ reader' = "gone"
  /\ UNCHANGED <<upstreamVars, taken, peekVars, timerVars, joined, replay,
                 hand, handErr, out>>

MayStallBlind == idleLeft = 0

\* The idle timer fired and no chunk is being offered.
MayStall == idleLeft = 0 /\ reader # "offer"

Stall ==
  /\ pc = "copy"
  /\ MayStall
  /\ Return("stalled")
  /\ UNCHANGED <<upstreamVars, taken, peekVars, timerVars, readerVars, out>>

Expire ==
  /\ pc = "copy" /\ lifeLeft = 0
  /\ Return("maxReached")
  /\ UNCHANGED <<upstreamVars, taken, peekVars, timerVars, readerVars, out>>

SeeCancel ==
  /\ pc = "copy" /\ cancelled
  /\ Return("clientGone")
  /\ UNCHANGED <<upstreamVars, taken, peekVars, timerVars, readerVars, out>>

-----------------------------------------------------------------------------
Await == AwaitResult \/ Abandon \/ Continue
Copy  == TakeData \/ WriteFails \/ TakeError \/ Stall \/ Expire \/ SeeCancel

Next ==
  \/ UpstreamSends \/ UpstreamEnds \/ Cancel \/ Tick
  \/ PeekLine \/ Await
  \/ Read \/ Offer \/ SeeDone
  \/ Copy

\* The scheduler runs every goroutine that can run, and time passes.  Nothing
\* is assumed of the upstream or the client: either may stay silent for ever.
Spec ==
  /\ Init /\ [][Next]_vars
  /\ WF_vars(Tick) /\ WF_vars(PeekLine) /\ WF_vars(Await) /\ WF_vars(Copy)
  /\ WF_vars(Read) /\ WF_vars(Offer) /\ WF_vars(SeeDone)

-----------------------------------------------------------------------------
\* Types of the relay's state.
TypeOK ==
  /\ wire \in Seq(Kinds) /\ Len(wire) <= MaxUnits
  /\ upstream \in {"open", "eof", "error"}
  /\ cancelled \in BOOLEAN /\ closed \in BOOLEAN /\ joined \in BOOLEAN
  /\ taken \in 0 .. MaxUnits
  /\ peek \in {"off", "reading", "done"}
  /\ {seen, replay, hand, out} \subseteq Seq(1 .. MaxUnits)
  /\ pc \in Running \union {"abandoned", "completed", "stalled", "upstreamError",
                            "maxReached", "clientGone"}
  /\ waitLeft \in 0 .. Wait /\ idleLeft \in 0 .. Idle /\ lifeLeft \in 0 .. Life
  /\ reader \in {"off", "read", "got", "offer", "gone"}
  /\ handErr \in {"none", "eof", "error"}
  /\ quiet \in 0 .. Idle

Promise == INSTANCE Relay WITH
  silent  <- quiet = Idle,
  verdict <- IF pc \in Running THEN "none" ELSE pc

\* The relay keeps its promise: whatever the first-event wait consumed, however
\* the goroutines and timers interleave, the client sees the upstream's units in
\* order with none lost or repeated, "completed" means that it has them all, a
\* client that left is never reported as an upstream error, a stall is reported
\* only after an idle window of silence, and nothing was written by an attempt
\* that is abandoned for a fallback.
KeepsPromise == Promise!Spec

\* "prefer real data so a healthy stream is never mislabelled as stalled"
\* (router_stream.go:167): streamCopy never gives up as stalled while the reader
\* goroutine is offering it a chunk.
NoStallOverOffer ==
  [][(pc = "copy" /\ pc' = "stalled") => reader # "offer"]_vars

\* Nothing is left behind: the handler returns and both goroutines end, even if
\* the upstream falls silent for ever or the client never leaves.
EverythingStops ==
  <>[](/\ pc \notin Running
       /\ reader \in {"off", "gone"}
       /\ peek \in {"off", "done"})

=============================================================================
