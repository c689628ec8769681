---------------------------- MODULE StreamProofs ----------------------------
(***************************************************************************)
(* The relay of a streamed response implements what module Relay promises, *)
(* for every length of the stream and every setting of the three timers.   *)
(***************************************************************************)
EXTENDS Stream, SequenceTheorems, TLAPS

\* s holds the numbers of the units that follow the first n.
Follows(s, n) == s \in Seq(Nat) /\ \A i \in 1 .. Len(s) : s[i] = n + i

\* The units still on their way to the client, in the hands of the goroutines.
\* Before the wrapper has joined the first-event goroutine they are all in what
\* that one has consumed; afterwards that goroutine reads no more, and what was
\* written, what is offered and what is left to replay are consecutive.
UnitsInOrder ==
  /\ wire \in Seq(Kinds) /\ taken \in Nat /\ taken <= Len(wire)
  /\ Follows(out, 0)
  /\ Follows(hand, Len(out))
  /\ pc = "await" \/ ~ joined =>
       /\ out = << >> /\ hand = << >> /\ replay = << >>
       /\ Follows(seen, 0) /\ Len(seen) = taken
  /\ pc = "copy" /\ joined =>
       /\ peek # "reading"
       /\ Follows(replay, Len(out) + Len(hand))
       /\ Len(out) + Len(hand) + Len(replay) = taken

\* What the reader goroutine holds, and why a read returned an error: with the
\* body not closed yet, "error" is the upstream's or the client's.
ReaderHolds ==
  /\ closed = FALSE /\ upstream \in {"open", "eof", "error"}
  /\ joined \in BOOLEAN
  /\ pc = "await" => joined /\ reader = "off" /\ handErr = "none"
  /\ pc = "copy" => reader \in {"read", "got", "offer"}
  /\ reader = "read" => handErr = "none" /\ hand = << >>
  /\ reader \in {"got", "offer"} => joined /\ (hand = << >> => handErr # "none")
  /\ handErr \in {"none", "eof", "error"}
  /\ handErr = "eof" => upstream = "eof" /\ taken = Len(wire) /\ replay = << >>
  /\ handErr = "error" => cancelled \/ upstream = "error"

\* The idle timer measures the time since the client last received a unit.
TimerMeasures ==
  /\ quiet \in Nat /\ idleLeft \in Nat
  /\ quiet + idleLeft = Idle

StreamInv == pc \in Running => UnitsInOrder /\ ReaderHolds /\ TimerMeasures

-----------------------------------------------------------------------------
\* The empty run of units follows any.
LEMMA FollowsEmpty == ASSUME NEW n \in Nat PROVE Follows(<< >>, n) /\ Len(<< >>) = 0
BY DEF Follows

\* A unit appended to the first units is the next one.
LEMMA FollowsAppend ==
  ASSUME NEW s, Follows(s, 0)
  PROVE  Follows(Append(s, Len(s) + 1), 0) /\ Len(Append(s, Len(s) + 1)) = Len(s) + 1
BY DEF Follows

\* Two adjoining runs of units are one.
LEMMA FollowsConcat ==
  ASSUME NEW s, NEW t, NEW n \in Nat, Follows(s, n), Follows(t, n + Len(s))
  PROVE  Follows(s \o t, n) /\ Len(s \o t) = Len(s) + Len(t)
BY DEF Follows

\* A run of units cut in two is two adjoining runs.
LEMMA FollowsSplit ==
  ASSUME NEW s, NEW n \in Nat, Follows(s, n), NEW k \in 1 .. Len(s)
  PROVE  /\ Follows(SubSeq(s, 1, k), n) /\ Len(SubSeq(s, 1, k)) = k
         /\ Follows(SubSeq(s, k + 1, Len(s)), n + k)
         /\ Len(SubSeq(s, k + 1, Len(s))) = Len(s) - k
BY SMTT(20) DEF Follows

\* The units taken off the wire are a run.
LEMMA FollowsFresh ==
  ASSUME NEW n \in Nat, NEW k \in Nat
  PROVE  Follows([i \in 1 .. k |-> n + i], n) /\ Len([i \in 1 .. k |-> n + i]) = k
BY DEF Follows

\* The units the client has are the first ones.
LEMMA FollowsIsFirst == ASSUME NEW s, Follows(s, 0) PROVE s = Promise!FirstUnits(Len(s))
BY DEF Follows, Promise!FirstUnits

-----------------------------------------------------------------------------
\* At the start nothing was read and the idle timer is fresh.
LEMMA StreamInit == Init => StreamInv
<1> SUFFICES ASSUME Init PROVE UnitsInOrder /\ ReaderHolds /\ TimerMeasures
    BY DEF StreamInv
<1>1. UnitsInOrder
    BY FollowsEmpty DEF Init, UnitsInOrder, Kinds
<1>2. ReaderHolds
    BY DEF Init, ReaderHolds
<1>3. TimerMeasures
    BY StreamAssumption DEF Init, TimerMeasures
<1> QED BY <1>1, <1>2, <1>3

\* No interleaving of goroutines, timers and upstream breaks the invariant.
LEMMA StreamStep == StreamInv /\ [Next]_vars => StreamInv'
<1> SUFFICES ASSUME StreamInv, [Next]_vars PROVE StreamInv'
    OBVIOUS
<1> SUFFICES ASSUME pc \in Running, UnitsInOrder, ReaderHolds, TimerMeasures, pc' \in Running
             PROVE  UnitsInOrder' /\ ReaderHolds' /\ TimerMeasures'
  <2>1. pc' \in Running => pc \in Running
    <3>1. CASE \/ UpstreamSends \/ UpstreamEnds \/ Cancel \/ Tick \/ PeekLine
               \/ Read \/ Offer \/ SeeDone \/ UNCHANGED vars
        BY <3>1 DEF UpstreamSends, UpstreamEnds, Cancel, Tick, PeekLine, Read, Offer, SeeDone, vars
    <3>2. CASE Await \/ Copy
        BY <3>2 DEF Await, AwaitResult, Abandon, Continue, Copy, TakeData, WriteFails, TakeError,
                    Stall, Expire, SeeCancel, Running
    <3> QED BY <3>1, <3>2 DEF Next
  <2> QED BY <2>1 DEF StreamInv
<1> USE DEF upstreamVars, timerVars, peekVars, readerVars, Running
<1>1. CASE UpstreamSends
  <2>1. /\ wire' \in Seq(Kinds) /\ Len(wire') = Len(wire) + 1
        /\ UNCHANGED <<upstream, cancelled, closed, taken, peekVars, pc, timerVars, readerVars, out>>
      BY <1>1 DEF UpstreamSends, UnitsInOrder
  <2>2. UnitsInOrder'
      BY <2>1 DEF UnitsInOrder
  <2>3. ReaderHolds'
      BY <1>1, <2>1 DEF UpstreamSends, ReaderHolds
  <2> QED BY <2>1, <2>2, <2>3 DEF TimerMeasures
<1>2. CASE UpstreamEnds \/ Cancel
  <2>0. UNCHANGED <<wire, taken, peek, seen, pc, quiet, idleLeft, joined, replay, hand, out>>
      BY <1>2 DEF UpstreamEnds, Cancel
  <2>1. UnitsInOrder' /\ TimerMeasures'
      BY <2>0 DEF UnitsInOrder, TimerMeasures
  <2>2. ReaderHolds'
      BY <1>2 DEF UpstreamEnds, Cancel, ReaderHolds
  <2> QED BY <2>1, <2>2
<1>3. CASE Tick
  <2>1. TimerMeasures'
      BY <1>3 DEF Tick, Elapse, TimerMeasures
  <2> QED BY <1>3, <2>1 DEF Tick, UnitsInOrder, ReaderHolds
<1>4. CASE PeekLine
  <2>1. pc = "await" \/ ~ joined
      BY <1>4 DEF PeekLine, UnitsInOrder
  <2>2. UnitsInOrder'
    <3>1. CASE taken < Len(wire) /\ taken' = taken + 1 /\ seen' = Append(seen, taken + 1)
      <4>1. Follows(seen', 0) /\ Len(seen') = taken'
          BY <2>1, <3>1, FollowsAppend, Zenon DEF UnitsInOrder
      <4> QED BY <1>4, <2>1, <3>1, <4>1 DEF PeekLine, UnitsInOrder, ReaderHolds
    <3>2. CASE UNCHANGED <<taken, seen>>
        BY <1>4, <2>1, <3>2 DEF PeekLine, UnitsInOrder, ReaderHolds
    <3> QED BY <1>4, <3>1, <3>2 DEF PeekLine
  <2>3. handErr = "none"
      BY <2>1 DEF ReaderHolds
  <2> QED BY <1>4, <2>2, <2>3 DEF PeekLine, ReaderHolds, TimerMeasures
<1>5. CASE AwaitResult
  <2>1. UnitsInOrder'
      BY <1>5 DEF AwaitResult, StartCopy, UnitsInOrder, ReaderHolds
  <2> QED BY <1>5, <2>1 DEF AwaitResult, StartCopy, UnitsInOrder, ReaderHolds, TimerMeasures
<1>6. CASE Abandon
    BY <1>6 DEF Abandon
<1>7. CASE Continue
    BY <1>7, Zenon DEF Continue, StartCopy, UnitsInOrder, ReaderHolds, TimerMeasures
<1>8. CASE Read
  <2>1. /\ pc = "copy" /\ hand = << >> /\ handErr = "none" /\ peek # "reading"
        /\ UNCHANGED <<wire, upstream, cancelled, closed, peek, seen, pc, timerVars, out>>
        /\ joined' = TRUE /\ reader' = "got"
      BY <1>8 DEF Read, PendingReady, ReaderHolds
  <2>2. Follows(Replay, Len(out)) /\ Len(out) + Len(Replay) = taken
    <3>1. CASE joined
      <4>1. Len(hand) = 0 /\ Len(out) \in Nat
          BY <2>1 DEF UnitsInOrder, Follows
      <4>2. Follows(replay, Len(out) + 0) /\ Len(out) + 0 + Len(replay) = taken
          BY <2>1, <3>1, <4>1 DEF UnitsInOrder
      <4> QED BY <3>1, <4>1, <4>2 DEF Replay, Follows
    <3>2. CASE ~ joined
      <4>1. Len(out) = 0 /\ Len(seen) = taken /\ taken \in Nat /\ Follows(seen, 0)
          BY <3>2 DEF UnitsInOrder
      <4> QED BY <3>2, <4>1 DEF Replay
    <3> QED BY <3>1, <3>2
  <2>3. Len(out) \in Nat /\ Len(Replay) \in Nat
    <3>1. out \in Seq(Nat)
        BY DEF Follows, UnitsInOrder
    <3>2. Replay \in Seq(Nat)
        BY <2>2 DEF Follows
    <3> QED BY <3>1, <3>2
  <2>4. ASSUME NEW n \in 1 .. Len(Replay),
               hand' = SubSeq(Replay, 1, n), replay' = SubSeq(Replay, n + 1, Len(Replay)),
               UNCHANGED <<taken, handErr>>
        PROVE  UnitsInOrder' /\ ReaderHolds'
    <3>1. /\ Follows(hand', Len(out)) /\ Len(hand') = n
          /\ Follows(replay', Len(out) + n) /\ Len(replay') = Len(Replay) - n
      <4> DEFINE s == Replay
                 m == Len(out)
      <4>1. Follows(s, m) /\ m \in Nat /\ n \in 1 .. Len(s)
          BY <2>2, <2>3
      <4> HIDE DEF s, m
      <4>2. /\ Follows(SubSeq(s, 1, n), m) /\ Len(SubSeq(s, 1, n)) = n
            /\ Follows(SubSeq(s, n + 1, Len(s)), m + n)
            /\ Len(SubSeq(s, n + 1, Len(s))) = Len(s) - n
          BY <4>1, FollowsSplit
      <4> QED BY <2>4, <4>2 DEF s, m
    <3>2. UnitsInOrder'
      <4>1. Follows(replay', Len(out) + Len(hand')) /\ Len(out) + Len(hand') + Len(replay') = taken
          BY <2>2, <2>3, <3>1
      <4> QED BY <2>1, <2>4, <3>1, <4>1, Zenon DEF UnitsInOrder
    <3>3. ReaderHolds'
        BY <2>1, <2>4, <3>1 DEF ReaderHolds
    <3> QED BY <3>2, <3>3
  <2>5. ASSUME Replay = << >>, replay' = << >>,
               NEW n \in 0 .. Len(wire) - taken,
               hand' = [i \in 1 .. n |-> taken + i], taken' = taken + n,
               handErr' \in ReadErrors(taken + n) \union (IF n > 0 THEN {"none"} ELSE {})
        PROVE  UnitsInOrder' /\ ReaderHolds'
    <3>1. Len(out) = taken /\ taken \in Nat /\ Len(wire) \in Nat
        BY <2>2, <2>3, <2>5 DEF UnitsInOrder
    <3>2. Follows(hand', Len(out)) /\ Len(hand') = n
        BY <2>5, <3>1, FollowsFresh
    <3>3. UnitsInOrder'
        BY <2>1, <2>3, <2>5, <3>1, <3>2, FollowsEmpty DEF UnitsInOrder
    <3>4. /\ handErr' \in {"none", "eof", "error"}
          /\ handErr' = "none" => n > 0
          /\ handErr' = "eof" => upstream = "eof" /\ taken' = Len(wire)
          /\ handErr' = "error" => cancelled \/ upstream = "error"
      <4>1. closed = FALSE /\ upstream \in {"open", "eof", "error"}
          BY DEF ReaderHolds
      <4>2. CASE n > 0 /\ handErr' = "none"
          BY <4>2
      <4>3. CASE cancelled /\ handErr' = "error"
          BY <4>3
      <4>4. CASE upstream # "open" /\ taken + n = Len(wire) /\ handErr' = upstream
          BY <2>5, <4>1, <4>4
      <4> QED BY <2>5, <4>1, <4>2, <4>3, <4>4 DEF ReadErrors
    <3>5. hand' = << >> => n = 0
        BY <3>2
    <3> QED BY <2>1, <2>5, <3>3, <3>4, <3>5 DEF ReaderHolds
  <2>6. TimerMeasures'
      BY <2>1 DEF TimerMeasures
  <2> QED BY <1>8, <2>4, <2>5, <2>6 DEF Read
<1>9. CASE Offer
    BY <1>9 DEF Offer, UnitsInOrder, ReaderHolds, TimerMeasures
<1>10. CASE TakeData
  <2>1. joined /\ pc = "copy" /\ out' = out \o hand /\ hand' = << >>
      BY <1>10 DEF TakeData, ReaderHolds
  <2>2. Follows(out', 0) /\ Len(out') = Len(out) + Len(hand)
    <3>1. Len(out) \in Nat
        BY DEF UnitsInOrder, Follows
    <3> QED BY <2>1, <3>1, FollowsConcat DEF UnitsInOrder
  <2>3. Follows(hand', Len(out')) /\ Len(hand') = 0
      BY <2>1, <2>2, FollowsEmpty DEF Follows
  <2>4. UnitsInOrder'
      BY <1>10, <2>1, <2>2, <2>3 DEF TakeData, UnitsInOrder
  <2>5. ReaderHolds'
      BY <1>10 DEF TakeData, ReaderHolds
  <2>6. TimerMeasures'
      BY <1>10, StreamAssumption DEF TakeData, TimerMeasures
  <2> QED BY <2>4, <2>5, <2>6
<1>11. CASE WriteFails \/ Stall \/ Expire \/ SeeCancel \/ SeeDone
    BY <1>11 DEF WriteFails, Stall, Expire, SeeCancel, SeeDone, Return
<1>12. CASE TakeError
    BY <1>12 DEF TakeError, Return, ErrorVerdict
<1>13. CASE UNCHANGED vars
    BY <1>13 DEF vars, UnitsInOrder, ReaderHolds, TimerMeasures
<1> QED
    BY <1>1, <1>2, <1>3, <1>4, <1>5, <1>6, <1>7, <1>8, <1>9, <1>10, <1>11, <1>12, <1>13
       DEF Next, Await, Copy

-----------------------------------------------------------------------------
\* A verdict that the facts support ends the relay as the promise allows.
LEMMA FinishAllowed ==
  ASSUME pc \in Running, pc' \notin Running, UNCHANGED <<wire, upstream, out, quiet>>,
         pc' \in {"completed", "upstreamError", "stalled", "abandoned", "clientGone", "maxReached"},
         pc' = "completed" => upstream = "eof" /\ out = Promise!FirstUnits(Len(wire)),
         pc' = "upstreamError" => upstream = "error",
         pc' = "stalled" => quiet = Idle,
         pc' = "abandoned" => out = << >>
  PROVE  Promise!Finish
BY Zenon DEF Promise!Finish, Promise!Supported, Running

\* The first states of the relay are first states of its promise.
LEMMA PromiseInit == Init => Promise!Init
BY StreamAssumption DEF Init, Promise!Init, Running

\* Every step of the relay is a step of its promise, or none.
LEMMA PromiseStep == StreamInv /\ [Next]_vars => [Promise!Next]_(Promise!vars)
<1> SUFFICES ASSUME StreamInv, [Next]_vars PROVE [Promise!Next]_(Promise!vars)
    OBVIOUS
<1> USE DEF upstreamVars, timerVars, peekVars, readerVars
<1>1. CASE UpstreamSends
    BY <1>1 DEF UpstreamSends, Promise!Next, Promise!UpstreamSends
<1>2. CASE UpstreamEnds
    BY <1>2 DEF UpstreamEnds, Promise!Next, Promise!UpstreamEnds
<1>3. CASE Cancel \/ PeekLine \/ Read \/ Offer \/ SeeDone \/ UNCHANGED vars
    BY <1>3 DEF Cancel, PeekLine, Read, Offer, SeeDone, vars, Promise!vars
<1>4. CASE Tick
  <2>1. UNCHANGED <<wire, upstream, out, pc>>
      BY <1>4 DEF Tick
  <2>2. CASE quiet' = Idle
      BY <2>1, <2>2 DEF Promise!Next, Promise!FallSilent
  <2>3. CASE quiet' # Idle
    <3>1. quiet # Idle
        BY <1>4, <2>3, StreamAssumption DEF Tick
    <3> QED BY <2>1, <2>3, <3>1 DEF Promise!vars
  <2> QED BY <2>2, <2>3
<1>5. CASE AwaitResult \/ Continue
    BY <1>5 DEF AwaitResult, Continue, StartCopy, Running, Promise!vars
<1>6. CASE Abandon
  <2>1. out = << >>
      BY <1>6 DEF Abandon, StreamInv, UnitsInOrder, Running
  <2> QED BY <1>6, <2>1, FinishAllowed DEF Abandon, Running, Promise!Next
<1>7. CASE TakeData
  <2>1. pc = "copy" /\ UnitsInOrder /\ ReaderHolds /\ UnitsInOrder'
      BY <1>7, StreamStep DEF TakeData, StreamInv, Running
  <2>2. out' = Promise!FirstUnits(Len(out'))
      BY <2>1, FollowsIsFirst DEF UnitsInOrder
  <2>3. Len(out') \in Len(out) + 1 .. Len(wire)
    <3>1. out \in Seq(Nat) /\ hand \in Seq(Nat) /\ replay \in Seq(Nat) /\ hand # << >>
        BY <1>7, <2>1 DEF TakeData, UnitsInOrder, ReaderHolds, Follows
    <3>2. Len(out) + Len(hand) + Len(replay) = taken /\ taken <= Len(wire) /\ wire \in Seq(Kinds)
        BY <1>7, <2>1 DEF TakeData, UnitsInOrder, ReaderHolds
    <3>3. Len(out') = Len(out) + Len(hand)
        BY <1>7, <3>1 DEF TakeData
    <3>4. Len(hand) > 0
        BY <3>1
    <3> QED BY <3>1, <3>2, <3>3, <3>4
  <2>4. quiet' # Idle
      BY <1>7, StreamAssumption DEF TakeData
  <2> QED BY <1>7, <2>1, <2>2, <2>3, <2>4, Zenon
      DEF TakeData, Promise!Next, Promise!Deliver, Running
<1>8. CASE WriteFails \/ Expire \/ SeeCancel
    BY <1>8, FinishAllowed DEF WriteFails, Expire, SeeCancel, Return, Running, Promise!Next
<1>9. CASE TakeError
  <2>1. UnitsInOrder /\ ReaderHolds /\ pc = "copy" /\ hand = << >> /\ joined /\ handErr # "none"
      BY <1>9 DEF TakeError, StreamInv, Running, ReaderHolds
  <2>2. CASE handErr = "eof"
    <3>1. replay = << >> /\ taken = Len(wire) /\ upstream = "eof"
        BY <2>1, <2>2 DEF ReaderHolds
    <3>2. Follows(out, 0) /\ Len(out) + Len(hand) + Len(replay) = taken
        BY <2>1 DEF UnitsInOrder
    <3>3. Len(out) = Len(wire)
        BY <2>1, <3>1, <3>2 DEF Follows
    <3>4. out = Promise!FirstUnits(Len(wire))
        BY <3>2, <3>3, FollowsIsFirst
    <3> QED BY <1>9, <2>1, <2>2, <3>1, <3>4, FinishAllowed
            DEF TakeError, Return, ErrorVerdict, Running, Promise!Next
  <2>3. CASE handErr = "error"
      BY <1>9, <2>1, <2>3, FinishAllowed
         DEF TakeError, Return, ErrorVerdict, ReaderHolds, Running, Promise!Next
  <2> QED BY <2>1, <2>2, <2>3 DEF ReaderHolds
<1>10. CASE Stall
  <2>1. quiet = Idle
      BY <1>10 DEF Stall, MayStall, StreamInv, TimerMeasures, Running
  <2> QED BY <1>10, <2>1, FinishAllowed DEF Stall, Return, Running, Promise!Next
<1> QED
    BY <1>1, <1>2, <1>3, <1>4, <1>5, <1>6, <1>7, <1>8, <1>9, <1>10 DEF Next, Await, Copy

\* streamCopy, its reader goroutine, the first-event wait and the timers
\* together implement the abstract relay: the client sees the units in order,
\* none lost or repeated, and every verdict is one the facts support.
THEOREM StreamImplementsRelay == Spec => KeepsPromise
BY StreamInit, StreamStep, PromiseInit, PromiseStep, PTL DEF Spec, KeepsPromise, Promise!Spec

\* "prefer real data so a healthy stream is never mislabelled as stalled": the
\* idle timer ends the relay only while no chunk is being offered.
THEOREM StallIsSilence == Spec => NoStallOverOffer
<1>1. [Next]_vars => [(pc = "copy" /\ pc' = "stalled") => reader # "offer"]_vars
  <2> SUFFICES ASSUME Next, pc = "copy", pc' = "stalled" PROVE reader # "offer"
      OBVIOUS
  <2>1. CASE Stall
      BY <2>1 DEF Stall, MayStall
  <2>2. CASE UpstreamSends \/ UpstreamEnds \/ Cancel \/ Tick \/ PeekLine \/ Read \/ Offer \/ SeeDone
      BY <2>2 DEF UpstreamSends, UpstreamEnds, Cancel, Tick, PeekLine, Read, Offer, SeeDone
  <2>3. CASE Await
      BY <2>3 DEF Await, AwaitResult, Abandon, Continue
  <2>4. CASE TakeData \/ WriteFails \/ Expire \/ SeeCancel
      BY <2>4 DEF TakeData, WriteFails, Expire, SeeCancel, Return
  <2>5. CASE TakeError
      BY <2>5 DEF TakeError, Return, ErrorVerdict
  <2> QED BY <2>1, <2>2, <2>3, <2>4, <2>5 DEF Next, Copy
<1> QED BY <1>1, PTL DEF Spec, NoStallOverOffer

=============================================================================
