----------------------------- MODULE ScoreStore -----------------------------
(***************************************************************************)
(* Reliability scores and their persistence (router_scoring.go,            *)
(* router_scoring_store.go, RouterService.Close, main's shutdown).         *)
(*                                                                         *)
(* Scorers are concurrent attempts: countScoredAttempt advances the        *)
(* attempt clock before breakerMu is taken, so the two halves interleave.  *)
(* Savers are the background flusher and Close; SaveScores swaps the dirty *)
(* flag, takes a snapshot under the read lock and replaces the file, in    *)
(* three steps.  The process may crash between any two steps; the file     *)
(* survives it.  A score is abstracted to the evidence it has absorbed.    *)
(*                                                                         *)
(* A definition that no action uses, placed before the one it resembles,   *)
(* is a deliberate fault that shows that a property can fail.              *)
(***************************************************************************)
EXTENDS Integers

CONSTANTS
  Models,    \* breaker keys
  Scorers,   \* concurrent attempts reporting an outcome
  MaxSeq     \* bound on the attempt clock, for model checking

ASSUME ScoreStoreAssumption == MaxSeq \in Nat

VARIABLES
  phase,     \* of the process: "up", "closing", "exited", "down"
  seq,       \* scoreAttempts
  score,     \* score[m]: evidence absorbed and ScoreAttemptSeq
  dirty,     \* scoresDirty
  scorer,    \* scorer[s]: idle, or the clock value its outcome was given
  saver,     \* saver[v]: where v is in SaveScores
  snap,      \* snap[v]: the snapshot v is writing
  disk,      \* the score file
  tail       \* history: the scores when Close was called

scoreVars == <<phase, seq, score, dirty, scorer, saver, snap, disk, tail>>

Savers == {"flusher", "close"}

Unscored == [evidence |-> 0, seq |-> 0]
NoScores == [m \in Models |-> Unscored]
EmptyFile == [models |-> NoScores, seq |-> 0]

Unstamped == 0    \* scorer[s] between attempts: the clock starts at 1

ScoreInit ==
  /\ phase  = "up"
  /\ seq    = 0
  /\ score  = NoScores
  /\ dirty  = FALSE
  /\ scorer = [s \in Scorers |-> Unstamped]
  /\ saver  = [v \in Savers |-> "idle"]
  /\ snap   = [v \in Savers |-> EmptyFile]
  /\ disk   = EmptyFile
  /\ tail   = NoScores

Alive == phase \in {"up", "closing"}

\* countScoredAttempt: one more outcome on the proxy-wide clock.
CountScoredAttempt(s) ==
  /\ Alive
  /\ scorer[s] = Unstamped
  /\ seq < MaxSeq
  /\ seq' = seq + 1
  /\ scorer' = [scorer EXCEPT ![s] = seq + 1]
  /\ UNCHANGED <<phase, score, dirty, saver, snap, disk, tail>>

\* ScoreAttemptSeq: the clock value the outcome was given.
Stamp(s) == scorer[s]

\* applyScoreSuccess or applyScoreFailure and markScoresDirty, under breakerMu.
\* (The swap of SaveScores takes no lock, but it does not read the scores, so
\* one that falls between the two is the same as one just before them.)
ApplyScore(s, m) ==
  /\ Alive
  /\ scorer[s] # Unstamped
  /\ score' = [score EXCEPT ![m] = [evidence |-> @.evidence + 1, seq |-> Stamp(s)]]
  /\ dirty' = TRUE
  /\ scorer' = [scorer EXCEPT ![s] = Unstamped]
  /\ UNCHANGED <<phase, seq, saver, snap, disk, tail>>

-----------------------------------------------------------------------------
\* The flusher's ticker fires, or Close has just been called.
MaySaveWhenQuiet(v) ==
  /\ saver[v] = "idle"
  /\ v = "flusher" => phase = "up" /\ \A r \in Scorers : scorer[r] = Unstamped
  /\ v = "close" => phase = "closing"

MaySave(v) ==
  /\ saver[v] = "idle"
  /\ v = "flusher" => phase = "up"
  /\ v = "close" => phase = "closing"

\* SaveScores: scoresDirty.Swap(false); nothing to do when it was clean.
SwapDirty(v) ==
  /\ MaySave(v)
  /\ saver' = [saver EXCEPT ![v] = IF dirty THEN "swapped" ELSE
                                   IF v = "close" THEN "done" ELSE "idle"]
  /\ dirty' = FALSE
  /\ UNCHANGED <<phase, seq, score, scorer, snap, disk, tail>>

\* snapshotScores, under the read lock.
SnapshotScores(v) ==
  /\ Alive
  /\ saver[v] = "swapped"
  /\ snap' = [snap EXCEPT ![v] = [models |-> score, seq |-> seq]]
  /\ saver' = [saver EXCEPT ![v] = "snapped"]
  /\ UNCHANGED <<phase, seq, score, dirty, scorer, disk, tail>>

AfterSave(v) == IF v = "close" THEN "done" ELSE "idle"

\* writeScoreFile succeeds: the file is replaced as a whole.
WriteScoreFile(v) ==
  /\ Alive
  /\ saver[v] = "snapped"
  /\ disk' = snap[v]
  /\ snap' = [snap EXCEPT ![v] = EmptyFile]
  /\ saver' = [saver EXCEPT ![v] = AfterSave(v)]
  /\ UNCHANGED <<phase, seq, score, dirty, scorer, tail>>

WriteFailsForgets(v) ==
  /\ Alive
  /\ saver[v] = "snapped"
  /\ snap' = [snap EXCEPT ![v] = EmptyFile]
  /\ saver' = [saver EXCEPT ![v] = AfterSave(v)]
  /\ UNCHANGED <<phase, seq, score, dirty, scorer, disk, tail>>

\* writeScoreFile fails at any of its steps: the old file stands and the flag
\* is set again, for the next tick.
WriteFails(v) ==
  /\ Alive
  /\ saver[v] = "snapped"
  /\ dirty' = TRUE
  /\ snap' = [snap EXCEPT ![v] = EmptyFile]
  /\ saver' = [saver EXCEPT ![v] = AfterSave(v)]
  /\ UNCHANGED <<phase, seq, score, scorer, disk, tail>>

-----------------------------------------------------------------------------
\* main returns: cancelScores stops the ticker without waiting for a save in
\* progress, and Close begins.
BeginClose ==
  /\ phase = "up"
  /\ phase' = "closing"
  /\ tail' = score
  /\ UNCHANGED <<seq, score, dirty, scorer, saver, snap, disk>>

\* Close has returned: the process exits, whatever is still running in it.
Exit ==
  /\ phase = "closing"
  /\ saver["close"] = "done"
  /\ phase' = "exited"
  /\ scorer' = [s \in Scorers |-> Unstamped]
  /\ saver' = [v \in Savers |-> "idle"]
  /\ snap' = [v \in Savers |-> EmptyFile]
  /\ UNCHANGED <<seq, score, dirty, disk, tail>>

\* All but the file is lost.
Crash ==
  /\ Alive
  /\ phase' = "down"
  /\ seq' = 0
  /\ score' = NoScores
  /\ dirty' = FALSE
  /\ scorer' = [s \in Scorers |-> Unstamped]
  /\ saver' = [v \in Savers |-> "idle"]
  /\ snap' = [v \in Savers |-> EmptyFile]
  /\ tail' = NoScores
  /\ UNCHANGED disk

\* restoreScores: what the file holds of the models the policy still knows,
\* and the attempt clock unless nothing was restored.
RestoreForgetsClock(known) ==
  LET restored == {m \in known : disk.models[m] # Unscored}
  IN  /\ score' = [m \in Models |-> IF m \in restored THEN disk.models[m] ELSE Unscored]
      /\ seq' = 0

RestoreScores(known) ==
  LET restored == {m \in known : disk.models[m] # Unscored}
  IN  /\ score' = [m \in Models |-> IF m \in restored THEN disk.models[m] ELSE Unscored]
      /\ seq' = IF restored # {} THEN disk.seq ELSE 0

\* A new process: NewRouterService and LoadScores, which restores nothing from
\* a stale or foreign file (known = {}).
Start(known) ==
  /\ ~ Alive
  /\ phase' = "up"
  /\ RestoreScores(known)
  /\ dirty' = FALSE
  /\ tail' = NoScores
  /\ UNCHANGED <<scorer, saver, snap, disk>>

ScoreNext ==
  \/ \E s \in Scorers :
       CountScoredAttempt(s) \/ \E m \in Models : ApplyScore(s, m)
  \/ \E v \in Savers :
       SwapDirty(v) \/ SnapshotScores(v) \/ WriteScoreFile(v) \/ WriteFails(v)
  \/ BeginClose \/ Exit \/ Crash
  \/ \E known \in SUBSET Models : Start(known)

\* The flusher's ticker keeps firing and its goroutine keeps running, and the
\* disk does not refuse every write for ever.
Fairness ==
  /\ WF_scoreVars(SwapDirty("flusher") \/ SnapshotScores("flusher"))
  /\ SF_scoreVars(WriteScoreFile("flusher"))

ScoreSpec == ScoreInit /\ [][ScoreNext]_scoreVars /\ Fairness

-----------------------------------------------------------------------------
Score    == [evidence : 0 .. MaxSeq, seq : 0 .. MaxSeq]
Snapshot == [models : [Models -> Score], seq : 0 .. MaxSeq]

\* Types of the score map, its savers and the file.
ScoreTypeOK ==
  /\ phase \in {"up", "closing", "exited", "down"}
  /\ seq \in 0 .. MaxSeq
  /\ score \in [Models -> Score]
  /\ dirty \in BOOLEAN
  /\ scorer \in [Scorers -> 0 .. MaxSeq]
  /\ saver \in [Savers -> {"idle", "swapped", "snapped", "done"}]
  /\ snap \in [Savers -> Snapshot]
  /\ disk \in Snapshot
  /\ tail \in [Models -> Score]

\* No score sits in the future of the attempt clock it decays against, in
\* memory, in a snapshot or in the file, across crashes, restarts and policy
\* changes: otherwise "no restored score could ever decay".
NoScoreFromTheFuture ==
  /\ \A m \in Models : score[m].seq <= seq
  /\ \A m \in Models : disk.models[m].seq <= disk.seq
  /\ \A v \in Savers, m \in Models : snap[v].models[m].seq <= snap[v].seq

\* While the process is up and the flusher idle, a clean flag means the file
\* holds every score in memory: no outcome recorded during a save (before or
\* after its snapshot), and no failed save, is forgotten.
CleanMeansSaved ==
  (phase = "up" /\ ~ dirty /\ saver["flusher"] = "idle") =>
    \A m \in Models : score[m] # Unscored => disk.models[m] = score[m]

\* Every outcome recorded while the process stays up reaches the file, though
\* saves may fail and more outcomes may arrive meanwhile.
EventuallySaved ==
  LET m == CHOOSE x \in Models : TRUE  \* the models are interchangeable
  IN \A n \in 1 .. MaxSeq :
    (phase = "up" /\ score[m].evidence = n) ~>
      (phase # "up" \/ disk.models[m].evidence >= n)

\* "a clean shutdown never loses the tail of what the process learned"
\* (router.go:116): once Close has returned and its own write did not fail,
\* the file holds everything scored before Close was called.
CloseKeepsTail ==
  (phase = "exited" /\ ~ dirty) =>
    \A m \in Models : disk.models[m].evidence >= tail[m].evidence

=============================================================================
