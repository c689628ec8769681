---------------------------- MODULE FilesProofs ----------------------------
(***************************************************************************)
(* Theorems about the files the proxy keeps, whatever crashes, fails or    *)
(* runs at the same time: the vault of credentials and the legacy file     *)
(* (Credentials), the score file (ScoreStore), and the executable and the  *)
(* configuration of a tool (Installation), for every value of their        *)
(* constants.                                                              *)
(***************************************************************************)
EXTENDS Credentials, ScoreStore, Installation, Sequences, TLAPS

File == [Providers -> [secret : Secrets \cup {Legacy, None}, key : Nat]]

Process ==
    [cmd : {"none", "serve", "login", "logout", "put", "drop"},
     pc : {"idle", "status", "key", "fillStatus", "fillKey", "legacy", "compare",
           "mset", "mwrite", "verify", "unlink", "write", "confirm"},
     buf : File, key : Nat, prov : Providers, secret : Secrets \cup {None}]

\* The shapes of the state, which say nothing of the order of things.
Shapes ==
    /\ vault \in File
    /\ blob \in Nat /\ minted \in Nat
    /\ proc \in [Processes -> Process]
    /\ clobbered \in BOOLEAN /\ discarded \in BOOLEAN

\* A process at rest and an empty vault have their shapes.
LEMMA IdleShape == Idle \in Process /\ NoFile \in File
BY CredentialsAssumption DEF Process, Idle, File, NoFile, NoEntry, Missing, None

\* The machine starts with no vault and no command running.
LEMMA ShapesInit == Init => Shapes
<1> SUFFICES ASSUME Init PROVE Shapes
    OBVIOUS
<1>1. proc \in [Processes -> Process] /\ vault \in File
    BY IdleShape DEF Init
<1> QED BY <1>1, Zenon DEF Init, Shapes, Missing

\* What p writes is a file again.
LEMMA WrittenShape == ASSUME NEW p \in Processes, Shapes PROVE Written(p) \in File
BY CredentialsAssumption DEF Shapes, Process, File, Written, NoEntry, Missing, None

\* A process that gives up or carries on keeps its shape.
LEMMA FailsShape ==
    ASSUME NEW p \in Processes, Shapes, Fails(p) PROVE proc' \in [Processes -> Process]
BY IdleShape DEF Shapes, Fails

\* A command that goes on after the migration keeps the shape of its process.
LEMMA ProceedsShape ==
    ASSUME NEW p \in Processes, Shapes, Proceeds(p) PROVE proc' \in [Processes -> Process]
<1>1. Own(p) \in Process
    BY IdleShape, Zenon DEF Own, Process, Shapes, Missing
<1> QED BY <1>1 DEF Shapes, Proceeds

\* A command starts with the master key, and touches no other process.
LEMMA BeginMoves ==
    ASSUME NEW p \in Processes, Shapes, Begin(p)
    PROVE  /\ proc' \in [Processes -> Process]
           /\ proc'[p].pc \in {"status", "key"}
           /\ \A r \in Processes \ {p} : proc'[r] = proc[r]
<1>1. proc[p] \in Process
    BY DEF Shapes
<1>2. ASSUME NEW q \in Process, q.pc \in {"status", "key"}, proc' = [proc EXCEPT ![p] = q]
      PROVE  /\ proc' \in [Processes -> Process]
             /\ proc'[p].pc \in {"status", "key"}
             /\ \A r \in Processes \ {p} : proc'[r] = proc[r]
    BY <1>2 DEF Shapes
<1>3. CASE proc' = [proc EXCEPT ![p].cmd = "serve", ![p].pc = "status"]
  <2> DEFINE q == [proc[p] EXCEPT !.cmd = "serve", !.pc = "status"]
  <2>1. q \in Process /\ q.pc = "status"
      BY <1>1, Zenon DEF Process
  <2> QED BY <1>2, <1>3, <2>1, Zenon
<1>4. ASSUME NEW s \in Secrets,
             proc' = [proc EXCEPT ![p].cmd = "login", ![p].pc = "status", ![p].secret = s]
      PROVE \E q \in Process : q.pc = "status" /\ proc' = [proc EXCEPT ![p] = q]
  <2> DEFINE q == [proc[p] EXCEPT !.cmd = "login", !.pc = "status", !.secret = s]
  <2>1. q \in Process /\ q.pc = "status"
      BY <1>1, Zenon DEF Process
  <2> QED BY <1>4, <2>1, Zenon
<1>5. CASE proc' = [proc EXCEPT ![p].cmd = "logout", ![p].pc = "status"]
  <2> DEFINE q == [proc[p] EXCEPT !.cmd = "logout", !.pc = "status"]
  <2>1. q \in Process /\ q.pc = "status"
      BY <1>1, Zenon DEF Process
  <2> QED BY <1>2, <1>5, <2>1, Zenon
<1>6. ASSUME NEW v \in Providers, NEW s \in Secrets,
             proc' = [proc EXCEPT ![p].cmd = "put", ![p].pc = "key",
                                  ![p].prov = v, ![p].secret = s]
      PROVE \E q \in Process : q.pc = "key" /\ proc' = [proc EXCEPT ![p] = q]
  <2> DEFINE q == [proc[p] EXCEPT !.cmd = "put", !.pc = "key", !.prov = v, !.secret = s]
  <2>1. q \in Process /\ q.pc = "key"
      BY <1>1, Zenon DEF Process
  <2> QED BY <1>6, <2>1, Zenon
<1>7. ASSUME NEW v \in Providers,
             proc' = [proc EXCEPT ![p].cmd = "drop", ![p].pc = "key", ![p].prov = v]
      PROVE \E q \in Process : q.pc = "key" /\ proc' = [proc EXCEPT ![p] = q]
  <2> DEFINE q == [proc[p] EXCEPT !.cmd = "drop", !.pc = "key", !.prov = v]
  <2>1. q \in Process /\ q.pc = "key"
      BY <1>1, Zenon DEF Process
  <2> QED BY <1>7, <2>1, Zenon
<1> QED BY <1>2, <1>3, <1>4, <1>5, <1>6, <1>7, Zenon DEF Begin

\* No interleaving of commands breaks the shapes.
LEMMA ShapesStep == Shapes /\ [Next]_vars => Shapes'
<1> SUFFICES ASSUME Shapes, [Next]_vars PROVE Shapes'
    OBVIOUS
<1>1. ASSUME NEW p \in Processes, Begin(p) PROVE Shapes'
    BY <1>1, BeginMoves, Zenon DEF Begin, Shapes, Files
<1>2. ASSUME NEW p \in Processes, MakeBlob(p) PROVE Shapes'
    BY <1>2, CredentialsAssumption DEF MakeBlob, Shapes, Process, Empty
<1>3. ASSUME NEW p \in Processes, FillBlob(p) PROVE Shapes'
    BY <1>3 DEF FillBlob, Shapes, Process
<1>4. ASSUME NEW p \in Processes, FillFails(p) PROVE Shapes'
    BY <1>4, FailsShape DEF FillFails, Shapes, Missing
<1>5. ASSUME NEW p \in Processes, Status(p) PROVE Shapes'
    BY <1>5, ProceedsShape DEF Status, Goto, Shapes, Process, Files
<1>6. ASSUME NEW p \in Processes, ReadLegacy(p) PROVE Shapes'
    BY <1>6, ProceedsShape DEF ReadLegacy, Goto, Shapes, Process, Files
<1>7. ASSUME NEW p \in Processes, Compare(p) PROVE Shapes'
    BY <1>7, ProceedsShape DEF Compare, Goto, Shapes, Process, Files
<1>8. ASSUME NEW p \in Processes, Verify(p) PROVE Shapes'
    BY <1>8, ProceedsShape DEF Verify, Goto, Shapes, Process, Files
<1>9. ASSUME NEW p \in Processes, Unlink(p) PROVE Shapes'
    BY <1>9, ProceedsShape DEF Unlink, Shapes
<1>10. ASSUME NEW p \in Processes, Load(p) PROVE Shapes'
    BY <1>10, ProceedsShape, FailsShape DEF Load, Shapes, Process, Files
<1>11. ASSUME NEW p \in Processes, Replace(p) PROVE Shapes'
    BY <1>11, ProceedsShape, FailsShape, WrittenShape
       DEF Replace, AfterWrite, AfterError, Goto, Shapes, Process
<1>12. ASSUME NEW p \in Processes, ReplaceFails(p) PROVE Shapes'
    BY <1>12, ProceedsShape, FailsShape DEF ReplaceFails, AfterError, Shapes, Files
<1>13. ASSUME NEW p \in Processes, Confirm(p) \/ Dies(p) PROVE Shapes'
    BY <1>13, FailsShape DEF Confirm, Dies, Shapes, Files
<1>14. CASE Rotate
    BY <1>14 DEF Rotate, Shapes
<1>15. CASE UNCHANGED vars
    BY <1>15 DEF vars, Shapes
<1> QED
    BY <1>1, <1>2, <1>3, <1>4, <1>5, <1>6, <1>7, <1>8, <1>9, <1>10, <1>11, <1>12,
       <1>13, <1>14, <1>15 DEF Next

-----------------------------------------------------------------------------
Writing(p) == proc[p].pc \in {"mwrite", "write"}

\* What a process read for its replacement opened under the key it seals with,
\* however often the master key has been replaced since.
OneKeyInv ==
    /\ Shapes
    /\ OneKeyPerFile
    /\ \A p \in Processes : Writing(p) => Opens(proc[p].key, proc[p].buf)

\* An empty vault opens under any key.
LEMMA OneKeyInit == Init => OneKeyInv
<1> SUFFICES ASSUME Init PROVE OneKeyInv
    OBVIOUS
<1>1. \A p \in Processes : ~ Writing(p)
    BY Zenon DEF Init, Idle, Writing
<1>2. OneKeyPerFile
    BY DEF Init, OneKeyPerFile, NoFile
<1> QED BY <1>1, <1>2, ShapesInit DEF OneKeyInv

\* Giving up and carrying on end a replacement; the others have theirs still.
LEMMA OthersWrite ==
    ASSUME Shapes, NEW p \in Processes, Fails(p) \/ Proceeds(p),
           \A r \in Processes : Writing(r) => Opens(proc[r].key, proc[r].buf)
    PROVE  \A r \in Processes : Writing(r)' => Opens(proc'[r].key, proc'[r].buf)
<1>1. Idle.pc = "idle"
    BY DEF Idle
<1>2. Own(p).pc \in {"idle", "key"}
    BY <1>1 DEF Own, Shapes, Process
<1>3. proc'[p].pc \in {"idle", "key"} /\ \A r \in Processes \ {p} : proc'[r] = proc[r]
    BY <1>1, <1>2 DEF Fails, Proceeds, Shapes
<1> QED BY <1>3 DEF Writing

\* What a command is about to write opens under one key, so the file does after it.
LEMMA OneKeyStep == OneKeyInv /\ [Next]_vars => OneKeyInv'
<1> SUFFICES ASSUME OneKeyInv, [Next]_vars, Shapes, Shapes' PROVE OneKeyInv'
    BY ShapesStep DEF OneKeyInv
<1> DEFINE Sealed == \A p \in Processes : Writing(p) => Opens(proc[p].key, proc[p].buf)
<1>0. Sealed /\ OneKeyPerFile
    BY DEF OneKeyInv
<1> SUFFICES Sealed' /\ OneKeyPerFile'
    BY DEF OneKeyInv
<1>1. ASSUME NEW p \in Processes,
             \/ Begin(p) \/ MakeBlob(p) \/ FillBlob(p)
             \/ \E pc \in {"legacy", "compare", "mset", "unlink"} : Goto(p, pc) /\ UNCHANGED vault
      PROVE Sealed' /\ OneKeyPerFile'
  <2>1. UNCHANGED vault
      BY <1>1, Zenon DEF Begin, MakeBlob, FillBlob, Files
  <2>2. ~ Writing(p)' /\ \A r \in Processes \ {p} : proc'[r] = proc[r]
      BY <1>1, BeginMoves DEF MakeBlob, FillBlob, Goto, Writing, Shapes, Process
  <2> QED BY <1>0, <2>1, <2>2 DEF Writing, OneKeyPerFile
<1>2. ASSUME NEW p \in Processes, Fails(p) \/ Proceeds(p), UNCHANGED vault
      PROVE Sealed' /\ OneKeyPerFile'
    BY <1>0, <1>2, OthersWrite DEF OneKeyPerFile
<1>3. ASSUME NEW p \in Processes,
             \/ FillFails(p) \/ Status(p) \/ ReadLegacy(p) \/ Compare(p) \/ Verify(p)
             \/ Unlink(p) \/ ReplaceFails(p) \/ Confirm(p) \/ Dies(p)
      PROVE Sealed' /\ OneKeyPerFile'
    BY <1>1, <1>2, <1>3
       DEF FillFails, Status, ReadLegacy, Compare, Verify, Unlink, ReplaceFails, AfterError,
           Confirm, Dies, Files
<1>4. ASSUME NEW p \in Processes, Load(p) PROVE Sealed' /\ OneKeyPerFile'
  <2>1. CASE Fails(p) \/ Proceeds(p)
      BY <1>2, <1>4, <2>1 DEF Load, Files
  <2>2. CASE ~ (Fails(p) \/ Proceeds(p))
    <3>1. /\ MayReplace(vault)
          /\ proc' = [proc EXCEPT ![p].pc = IF @ = "mset" THEN "mwrite" ELSE "write",
                                  ![p].buf = vault, ![p].key = blob]
          /\ UNCHANGED vault
        BY <1>4, <2>2 DEF Load, Files
    <3>2. proc'[p].buf = vault /\ proc'[p].key = blob /\ Opens(blob, vault)
        BY <3>1 DEF Shapes, Process, MayReplace, Unlocked
    <3>3. \A r \in Processes \ {p} : proc'[r] = proc[r]
        BY <3>1 DEF Shapes
    <3>4. Sealed'
        BY <1>0, <3>2, <3>3 DEF Writing
    <3> QED BY <1>0, <3>1, <3>4, Zenon DEF OneKeyPerFile
  <2> QED BY <2>1, <2>2
<1>5. ASSUME NEW p \in Processes, Replace(p) PROVE Sealed' /\ OneKeyPerFile'
  <2>1. Opens(proc[p].key, Written(p))
      BY <1>0, <1>5 DEF Replace, Writing, Opens, Written, Shapes, Process, File
  <2>2. OneKeyPerFile'
      BY <1>5, <2>1 DEF Replace, Opens, OneKeyPerFile
  <2>3. CASE Fails(p) \/ Proceeds(p)
      BY <1>0, <2>2, <2>3, OthersWrite
  <2>4. CASE \E pc \in {"verify", "confirm"} : Goto(p, pc)
    <3>1. ~ Writing(p)' /\ \A r \in Processes \ {p} : proc'[r] = proc[r]
        BY <2>4 DEF Goto, Writing, Shapes, Process
    <3> QED BY <1>0, <2>2, <3>1 DEF Writing
  <2> QED BY <1>5, <2>3, <2>4 DEF Replace, AfterWrite, AfterError
<1>6. CASE Rotate
    BY <1>0, <1>6 DEF Rotate, Writing, OneKeyPerFile
<1>7. CASE UNCHANGED vars
    BY <1>0, <1>7 DEF vars, Writing, OneKeyPerFile
<1> QED BY <1>1, <1>3, <1>4, <1>5, <1>6, <1>7 DEF Next

\* authenticateEntries before each replacement keeps the vault whole: all its
\* entries open under one key, with any number of processes, keys and deaths.
THEOREM VaultHasOneKey == Spec => []OneKeyPerFile
<1>1. OneKeyInv => OneKeyPerFile
    BY DEF OneKeyInv
<1> QED BY <1>1, OneKeyInit, OneKeyStep, PTL DEF Spec

-----------------------------------------------------------------------------
\* The legacy credential is in the vault, or was given up there.
InVault == vault[OpenRouter].secret = Legacy \/ discarded \/ clobbered

\* The legacy file is gone, or about to go, only when it is.
LegacyInv ==
    /\ Shapes
    /\ legacy # Legacy => InVault
    /\ \A p \in Processes : proc[p].pc = "unlink" => InVault

\* The legacy file holds its credential at the start.
LEMMA LegacyInit == Init => LegacyInv
<1> SUFFICES ASSUME Init PROVE LegacyInv
    OBVIOUS
<1>1. \A p \in Processes : proc[p].pc = "idle"
    BY Zenon DEF Init, Idle
<1> QED BY <1>1, ShapesInit DEF LegacyInv, Init

\* Once in the vault it stays there until somebody gives it up: a replacement
\* that migrates writes it, one for OpenRouter is a user's, and one for another
\* provider writes back what it read, or undoes what it did not.
LEMMA InVaultStays == Shapes /\ InVault /\ [Next]_vars => InVault'
<1> SUFFICES ASSUME Shapes, InVault, [Next]_vars PROVE InVault'
    OBVIOUS
<1>1. ASSUME NEW p \in Processes, Replace(p) PROVE InVault'
  <2>1. CASE Migrating(p)
    <3>1. Written(p)[OpenRouter].secret = Legacy
        BY <2>1, CredentialsAssumption DEF Written, Shapes, Process, File
    <3> QED BY <1>1, <3>1 DEF Replace, InVault
  <2>2. CASE ~ Migrating(p) /\ proc[p].prov = OpenRouter
      BY <1>1, <2>2, Zenon DEF Replace, InVault
  <2>3. CASE ~ Migrating(p) /\ proc[p].prov # OpenRouter
    <3>1. Written(p)[OpenRouter] = proc[p].buf[OpenRouter]
        BY <2>3, CredentialsAssumption DEF Written, Shapes, Process, File
    <3>2. CASE proc[p].buf = vault
        BY <1>1, <3>1, <3>2, Zenon DEF Replace, InVault
    <3>3. CASE proc[p].buf # vault
        BY <1>1, <3>3, Zenon DEF Replace, InVault
    <3> QED BY <3>2, <3>3
  <2> QED BY <2>1, <2>2, <2>3
<1>2. CASE UNCHANGED <<vault, clobbered, discarded>>
    BY <1>2 DEF InVault
<1> QED
    BY <1>1, <1>2, Zenon
       DEF Next, vars, Files, Begin, MakeBlob, FillBlob, FillFails, Status, ReadLegacy, Compare,
           Verify, Unlink, Load, ReplaceFails, Confirm, Dies, Rotate

\* Only a process that saw the credential in the vault comes to remove the file.
LEMMA UnlinkSaw ==
    ASSUME Shapes, [Next]_vars, NEW p \in Processes,
           proc'[p].pc = "unlink", proc[p].pc # "unlink"
    PROVE  InVault
<1>1. Idle.pc = "idle"
    BY DEF Idle
<1>2. ASSUME NEW r \in Processes, Fails(r) PROVE FALSE
    BY <1>1, <1>2 DEF Fails, Shapes
<1>3. ASSUME NEW r \in Processes, Proceeds(r) PROVE FALSE
  <2>1. Own(r).pc # "unlink"
      BY <1>1 DEF Own, Shapes, Process
  <2> QED BY <1>3, <2>1 DEF Proceeds, Shapes
<1>4. ASSUME NEW r \in Processes, NEW pc, Goto(r, pc) PROVE r = p /\ pc = "unlink"
    BY <1>4 DEF Goto, Shapes, Process
<1>5. ASSUME NEW r \in Processes, Begin(r) \/ MakeBlob(r) \/ FillBlob(r) PROVE FALSE
    BY <1>5, BeginMoves DEF MakeBlob, FillBlob, Shapes, Process
<1>6. ASSUME NEW r \in Processes, Load(r) PROVE FALSE
    BY <1>2, <1>3, <1>6 DEF Load, Shapes, Process
<1>7. ASSUME NEW r \in Processes, FillFails(r) \/ ReplaceFails(r) \/ Confirm(r) \/ Dies(r)
                                \/ Unlink(r) \/ Replace(r) \/ Status(r) \/ ReadLegacy(r)
      PROVE FALSE
    BY <1>2, <1>3, <1>4, <1>7
       DEF FillFails, ReplaceFails, Confirm, Dies, Unlink, Replace, Status, ReadLegacy,
           AfterError, AfterWrite
<1>8. ASSUME NEW r \in Processes, Compare(r) \/ Verify(r) PROVE InVault
    BY <1>3, <1>4, <1>8 DEF Compare, Verify, InVault
<1>9. ~ UNCHANGED proc
    OBVIOUS
<1> QED BY <1>5, <1>6, <1>7, <1>8, <1>9 DEF Next, Rotate, vars

\* The legacy file is unlinked only once the vault has been seen to have the secret.
LEMMA LegacyStep == LegacyInv /\ [Next]_vars => LegacyInv'
<1> SUFFICES ASSUME LegacyInv, [Next]_vars PROVE LegacyInv'
    OBVIOUS
<1>1. Shapes /\ Shapes' /\ (InVault => InVault')
    BY ShapesStep, InVaultStays DEF LegacyInv
<1>2. \A p \in Processes : proc'[p].pc = "unlink" => InVault'
    BY <1>1, UnlinkSaw DEF LegacyInv
<1>3. legacy' # Legacy => InVault'
  <2>1. ASSUME NEW p \in Processes, Unlink(p) PROVE InVault'
      BY <1>1, <2>1 DEF Unlink, LegacyInv
  <2>2. CASE UNCHANGED legacy
      BY <1>1, <2>2 DEF LegacyInv
  <2> QED
      BY <2>1, <2>2, Zenon
         DEF Next, vars, Files, Begin, MakeBlob, FillBlob, FillFails, Status, ReadLegacy,
             Compare, Verify, Load, Replace, ReplaceFails, Confirm, Dies, Rotate
<1> QED BY <1>1, <1>2, <1>3 DEF LegacyInv

\* migrateLegacyOpenRouterKey never loses the credential it moves: the file is
\* removed only after the vault was seen to hold it, and nothing but a user's
\* command, or a replacement that undoes another's, takes it from there.
THEOREM LegacyCredentialKept == Spec => []LegacyKept
<1>1. LegacyInv => LegacyKept
    BY DEF LegacyInv, LegacyKept, InVault
<1> QED BY <1>1, LegacyInit, LegacyStep, PTL DEF Spec

-----------------------------------------------------------------------------
\* The reliability scores and their file.
\* The shapes the proofs need: evidence is not bounded by the clock here.
ScoreShape == [evidence : Nat, seq : Nat]
FileShape  == [models : [Models -> ScoreShape], seq : Nat]

ScoreShapes ==
  /\ phase \in {"up", "closing", "exited", "down"}
  /\ seq \in Nat
  /\ score \in [Models -> ScoreShape]
  /\ dirty \in BOOLEAN
  /\ scorer \in [Scorers -> Nat]
  /\ saver \in [Savers -> {"idle", "swapped", "snapped", "done"}]
  /\ snap \in [Savers -> FileShape]
  /\ disk \in FileShape

\* The scores of a file are not ahead of the clock stored with them.
Consistent(file) == \A m \in Models : file.models[m].seq <= file.seq

\* What the clock was when an outcome was counted bounds what it may stamp.
FutureInv ==
  /\ ScoreShapes
  /\ \A s \in Scorers : scorer[s] <= seq
  /\ ~ Alive => \A s \in Scorers : scorer[s] = Unstamped
  /\ \A m \in Models : score[m].seq <= seq
  /\ Consistent(disk)
  /\ \A v \in Savers : Consistent(snap[v])

\* An empty file and an unscored policy have their shapes.
LEMMA EmptyShape ==
  /\ EmptyFile \in FileShape /\ Consistent(EmptyFile)
  /\ NoScores \in [Models -> ScoreShape]
BY DEF EmptyFile, FileShape, ScoreShape, NoScores, Unscored, Consistent

\* Nothing is scored at the first start.
LEMMA FutureInit == ScoreInit => FutureInv
<1> SUFFICES ASSUME ScoreInit PROVE FutureInv
    OBVIOUS
<1>1. ASSUME NEW m \in Models PROVE score[m].seq <= seq
  <2>1. score[m] = Unscored /\ seq = 0
      BY DEF ScoreInit, NoScores
  <2> QED BY <2>1 DEF Unscored
<1>2. \A s \in Scorers : scorer[s] <= seq
    BY DEF ScoreInit, Unstamped
<1>3. ScoreShapes
    BY EmptyShape, Zenon DEF ScoreInit, ScoreShapes, Unstamped
<1> QED BY <1>1, <1>2, <1>3, EmptyShape DEF ScoreInit, FutureInv, Alive

\* No step of a scorer, a saver, the shutdown, a crash or a restart puts a
\* score ahead of the clock.
LEMMA FutureStep == FutureInv /\ [ScoreNext]_scoreVars => FutureInv'
<1> SUFFICES ASSUME FutureInv, [ScoreNext]_scoreVars PROVE FutureInv'
    OBVIOUS
<1> USE DEF FutureInv, ScoreShapes, Alive
<1>1. ASSUME NEW s \in Scorers, CountScoredAttempt(s) PROVE FutureInv'
    BY <1>1 DEF CountScoredAttempt, ScoreShape
<1>2. ASSUME NEW s \in Scorers, NEW m \in Models, ApplyScore(s, m) PROVE FutureInv'
    BY <1>2 DEF ApplyScore, Stamp, Unstamped, ScoreShape
<1>3. ASSUME NEW v \in Savers, SwapDirty(v) PROVE FutureInv'
    BY <1>3, Zenon DEF SwapDirty
<1>4. ASSUME NEW v \in Savers, SnapshotScores(v) PROVE FutureInv'
  <2>1. [models |-> score, seq |-> seq] \in FileShape
      BY DEF FileShape
  <2>2. Consistent([models |-> score, seq |-> seq])
      BY DEF Consistent
  <2> QED BY <1>4, <2>1, <2>2 DEF SnapshotScores
<1>5. ASSUME NEW v \in Savers, WriteScoreFile(v) PROVE FutureInv'
    BY <1>5, EmptyShape DEF WriteScoreFile, AfterSave
<1>6. ASSUME NEW v \in Savers, WriteFails(v) PROVE FutureInv'
    BY <1>6, EmptyShape DEF WriteFails, AfterSave
<1>7. CASE BeginClose
    BY <1>7 DEF BeginClose
<1>8. CASE Exit
    BY <1>8, EmptyShape DEF Exit, Unstamped
<1>9. CASE Crash
  <2>1. \A m \in Models : score'[m].seq <= seq'
      BY <1>9 DEF Crash, NoScores, Unscored
  <2>2. \A s \in Scorers : scorer'[s] <= seq'
      BY <1>9 DEF Crash, Unstamped
  <2>3. ScoreShapes'
      BY <1>9, EmptyShape, Zenon DEF Crash, Unstamped
  <2> QED BY <1>9, <2>1, <2>2, <2>3, EmptyShape DEF Crash
<1>10. ASSUME NEW known \in SUBSET Models, Start(known) PROVE FutureInv'
  <2> DEFINE restored == {m \in known : disk.models[m] # Unscored}
  <2>1. /\ score' = [m \in Models |-> IF m \in restored THEN disk.models[m] ELSE Unscored]
        /\ seq' = IF restored # {} THEN disk.seq ELSE 0
      BY <1>10 DEF Start, RestoreScores
  <2>2. Unscored \in ScoreShape /\ Unscored.seq = 0
      BY DEF Unscored, ScoreShape
  <2>3. disk.models \in [Models -> ScoreShape] /\ disk.seq \in Nat
      BY DEF FileShape
  <2>4. seq' \in Nat /\ score' \in [Models -> ScoreShape]
      BY <2>1, <2>2, <2>3
  <2>5. ASSUME NEW m \in Models PROVE score'[m].seq <= seq'
    <3>1. CASE m \in restored
        BY <2>1, <3>1 DEF Consistent
    <3>2. CASE m \notin restored
        BY <2>1, <2>2, <2>4, <3>2
    <3> QED BY <3>1, <3>2
  <2>6. \A s \in Scorers : scorer'[s] <= seq'
      BY <1>10, <2>4 DEF Start, Unstamped
  <2> QED BY <1>10, <2>4, <2>5, <2>6, Zenon DEF Start
<1>11. CASE UNCHANGED scoreVars
    BY <1>11 DEF scoreVars
<1> QED
    BY <1>1, <1>2, <1>3, <1>4, <1>5, <1>6, <1>7, <1>8, <1>9, <1>10, <1>11 DEF ScoreNext

\* restoreScores and the clock of countScoredAttempt: no score is ever stamped
\* ahead of the attempt clock it decays against, in memory, in a snapshot or in
\* the file, whatever crashes, restarts, policy changes and savers do.
THEOREM ScoresBehindTheClock == ScoreSpec => []NoScoreFromTheFuture
<1>1. FutureInv => NoScoreFromTheFuture
    BY DEF FutureInv, NoScoreFromTheFuture, Consistent
<1> QED BY <1>1, FutureInit, FutureStep, PTL DEF ScoreSpec

-----------------------------------------------------------------------------
\* The file holds every score there is.
Covers(file) == \A m \in Models : score[m] # Unscored => file.models[m] = score[m]

\* A clean flag is a promise that somebody keeps: the file already covers the
\* scores, or the flusher has still to take its snapshot, or the snapshot it is
\* writing covers them.  Close saves only after the process has left "up".
SavedInv ==
  /\ ScoreShapes
  /\ phase = "up" => saver["close"] = "idle"
  /\ ~ Alive => \A v \in Savers : saver[v] = "idle"
  /\ saver["flusher"] # "done"
  /\ phase = "up" /\ ~ dirty /\ saver["flusher"] = "idle" => Covers(disk)
  /\ phase = "up" /\ ~ dirty /\ saver["flusher"] = "snapped" => Covers(snap["flusher"])

\* There is nothing to save at the first start.
LEMMA SavedInit == ScoreInit => SavedInv
<1> SUFFICES ASSUME ScoreInit PROVE SavedInv
    OBVIOUS
<1>1. ScoreShapes
    BY FutureInit DEF FutureInv
<1>2. Covers(disk)
    BY DEF ScoreInit, Covers, EmptyFile
<1> QED BY <1>1, <1>2 DEF ScoreInit, SavedInv, Savers, Alive

\* An outcome scored during a save sets the flag again, before or after the
\* snapshot; a failed write sets it too; a restart reads only what is on disk.
LEMMA SavedStep == FutureInv' /\ SavedInv /\ [ScoreNext]_scoreVars => SavedInv'
<1> SUFFICES ASSUME FutureInv', SavedInv, [ScoreNext]_scoreVars PROVE SavedInv'
    OBVIOUS
<1>0. ScoreShapes'
    BY DEF FutureInv
<1> USE <1>0 DEF SavedInv, Alive, Savers
<1>1. ASSUME NEW s \in Scorers, CountScoredAttempt(s) PROVE SavedInv'
    BY <1>1 DEF CountScoredAttempt, Covers
<1>2. ASSUME NEW s \in Scorers, NEW m \in Models, ApplyScore(s, m) PROVE SavedInv'
    BY <1>2 DEF ApplyScore
<1>3. ASSUME NEW v \in Savers, SwapDirty(v) PROVE SavedInv'
    BY <1>3 DEF SwapDirty, MaySave, ScoreShapes, Covers
<1>4. ASSUME NEW v \in Savers, SnapshotScores(v) PROVE SavedInv'
    BY <1>4 DEF SnapshotScores, ScoreShapes, Covers
<1>5. ASSUME NEW v \in Savers, WriteScoreFile(v) PROVE SavedInv'
    BY <1>5 DEF WriteScoreFile, AfterSave, ScoreShapes, Covers
<1>6. ASSUME NEW v \in Savers, WriteFails(v) PROVE SavedInv'
    BY <1>6 DEF WriteFails, AfterSave, ScoreShapes
<1>7. CASE BeginClose
    BY <1>7 DEF BeginClose
<1>8. CASE Exit
    BY <1>8 DEF Exit
<1>9. CASE Crash
    BY <1>9 DEF Crash
<1>10. ASSUME NEW known \in SUBSET Models, Start(known) PROVE SavedInv'
    BY <1>10 DEF Start, RestoreScores, Covers
<1>11. CASE UNCHANGED scoreVars
    BY <1>11 DEF scoreVars, Covers
<1> QED
    BY <1>1, <1>2, <1>3, <1>4, <1>5, <1>6, <1>7, <1>8, <1>9, <1>10, <1>11 DEF ScoreNext

\* SaveScores swaps the flag before its snapshot: while the process is up and
\* the flusher idle, a clean flag means that the file holds every score in
\* memory, though outcomes arrive during a save and writes fail.
THEOREM CleanFlagMeansSaved == ScoreSpec => []CleanMeansSaved
<1>1. SavedInv => CleanMeansSaved
    BY DEF SavedInv, CleanMeansSaved, Covers
<1> QED BY <1>1, FutureInit, FutureStep, SavedInit, SavedStep, PTL DEF ScoreSpec

-----------------------------------------------------------------------------
\* The installed executable and the configuration file of a tool; the running
\* proxy processes have their images.
\* The steps of the processes and of the updater, and the steps of setup.
ProcessStep ==
    \/ \E l \in Launchers :
         Probe(l) \/ LaunchFails(l) \/ \E p \in Procs : Launch(l, p)
    \/ \E p \in Procs : CleanUp(p) \/ Listen(p) \/ Ends(p)

UpdateStep ==
    \/ Check \/ Download \/ VerifyRelease \/ Extract \/ GivesUp
    \/ DropOld \/ MoveAside \/ MoveFails
    \/ Install \/ InstallFails \/ UpdaterDies

SetupStep ==
    \/ \E u \in URLs : BeginApply(u)
    \/ Backup \/ BackupDies \/ Write \/ WriteDies
    \/ Revert \/ RevertDies

\* Every step is a process's, the updater's or setup's.
LEMMA NextParts ==
    [InstallNext]_installVars => ProcessStep \/ UpdateStep \/ SetupStep \/ UNCHANGED installVars
BY DEF InstallNext, ProcessStep, UpdateStep, SetupStep

\* Setup never touches the executable.
LEMMA SetupFrame == SetupStep => UNCHANGED exeVars
BY DEF SetupStep, BeginApply, Backup, BackupDies, Write,
       WriteDies, Revert, RevertDies

\* Processes and updater never touch the configuration of a tool.
LEMMA ExeFrame == ProcessStep \/ UpdateStep => UNCHANGED configVars
BY DEF ProcessStep, UpdateStep, Probe, LaunchFails, Launch, CleanUp,
       Listen, Ends,
       Check, Download, VerifyRelease, Extract, GivesUp,
       DropOld, MoveAside, MoveFails, Install,
       InstallFails, UpdaterDies

-----------------------------------------------------------------------------
\* The name of the executable is free between the renames only; what a running
\* process was started from is then in .old, which therefore cannot be removed.
ExeInv ==
    /\ exe \in Nat /\ old \in Nat
    /\ image \in [Procs -> [st : {"gone", "boot", "clean", "serving"}, img : Nat]]
    /\ exe = Absent <=> update \in {"aside", "stuck"}
    /\ exe = Absent => old # Absent
    /\ \A p \in Procs :
         image[p].st # "gone" => image[p].img # Absent /\ image[p].img \in {exe, old}

\* The machine starts with an executable in place.
LEMMA ExeInit == InstallInit => ExeInv
<1> SUFFICES ASSUME InstallInit PROVE ExeInv
    OBVIOUS
<1>1. /\ Gone \in [st : {"gone", "boot", "clean", "serving"}, img : Nat]
      /\ Gone.st = "gone"
    BY DEF Gone, Absent
<1> QED BY <1>1 DEF InstallInit, ExeInv, Absent

\* The executable is away only while an update is, or got stuck, between its two
\* renames, and its .old is there then.
LEMMA ExeStep == ExeInv /\ [InstallNext]_installVars => ExeInv'
<1> SUFFICES ASSUME ExeInv, [InstallNext]_installVars PROVE ExeInv'
    OBVIOUS
<1> USE DEF ExeInv, Absent
<1>1. ASSUME NEW l \in Launchers, Probe(l) \/ LaunchFails(l) PROVE ExeInv'
    BY <1>1 DEF Probe, LaunchFails
<1>2. ASSUME NEW l \in Launchers, NEW p \in Procs, Launch(l, p) PROVE ExeInv'
    BY <1>2 DEF Launch
<1>3. ASSUME NEW p \in Procs, CleanUp(p) PROVE ExeInv'
  <2>1. CASE InUse(old)
      BY <1>3, <2>1 DEF CleanUp, OldAfterRemove
  <2>2. CASE ~ InUse(old)
    <3>1. exe # Absent
        BY <1>3, <2>2 DEF CleanUp, InUse
    <3>2. \A r \in Procs : image[r].st # "gone" => image[r].img = exe
        BY <2>2 DEF InUse
    <3> QED BY <1>3, <2>2, <3>1, <3>2 DEF CleanUp, OldAfterRemove
  <2> QED BY <2>1, <2>2
<1>4. ASSUME NEW p \in Procs, Listen(p) \/ Ends(p) PROVE ExeInv'
    BY <1>4 DEF Listen, Ends, Gone
<1>5. CASE Check \/ Download \/ VerifyRelease \/ Extract \/ GivesUp
    BY <1>5
       DEF Check, Download, VerifyRelease, Extract, GivesUp,
           fetchVars
<1>6. CASE DropOld
  <2>1. \A r \in Procs : image[r].st # "gone" /\ ~ InUse(old) => image[r].img = exe
      BY DEF InUse
  <2> QED BY <1>6, <2>1 DEF DropOld, OldAfterRemove
<1>7. CASE MoveAside
    BY <1>7 DEF MoveAside, InUse
<1>8. CASE MoveFails \/ UpdaterDies
    BY <1>8 DEF MoveFails, UpdaterDies
<1>9. CASE Install
    BY <1>9 DEF Install
<1>10. CASE InstallFails
    BY <1>10 DEF InstallFails, RollBack
<1>11. CASE UNCHANGED exeVars
    BY <1>11 DEF exeVars
<1> QED
    BY <1>1, <1>2, <1>3, <1>4, <1>5, <1>6, <1>7, <1>8, <1>9, <1>10, <1>11, NextParts, SetupFrame
       DEF ProcessStep, UpdateStep, installVars

\* replaceExecutable and cleanupStaleUpdate: whatever fails or dies, a working
\* executable is kept, and its name is free only between the two renames.
THEOREM ExecutableIsKept == InstallSpec => []ExecutableKept
<1>1. ExeInv => ExecutableKept
    BY DEF ExeInv, ExecutableKept
<1> QED BY <1>1, ExeInit, ExeStep, PTL DEF InstallSpec

-----------------------------------------------------------------------------
\* From the verification to the second rename, what was fetched is sound or the
\* operator waived the check.
FetchInv ==
    /\ OnlyVerifiedInstalled
    /\ update \in {"checked", "downloaded"} => fetch \in [opt : Options, sound : BOOLEAN]
    /\ update \in {"verified", "fetched", "dropped", "aside"} =>
         /\ fetch \in [insecure : BOOLEAN, sound : BOOLEAN]
         /\ fetch.sound \/ fetch.insecure

\* Nothing is fetched at the start.
LEMMA FetchInit == InstallInit => FetchInv
BY DEF InstallInit, FetchInv, OnlyVerifiedInstalled

\* What verifyRelease lets through.
LEMMA VerifiedIsSound ==
    ASSUME NEW opt \in Options, NEW rel \in Release, NEW sound \in BOOLEAN,
           Verified(opt, rel, sound)
    PROVE  sound \/ opt.insecure
BY DEF Verified, SumMatches, Options, Release

\* A release gets past Verify only sound, or with the check waived.
LEMMA FetchStep == FetchInv /\ [InstallNext]_installVars => FetchInv'
<1> SUFFICES ASSUME FetchInv, [InstallNext]_installVars PROVE FetchInv'
    OBVIOUS
<1> USE DEF FetchInv, OnlyVerifiedInstalled
<1>1. CASE Check
    BY <1>1 DEF Check
<1>2. CASE Download
    BY <1>2 DEF Download
<1>3. CASE VerifyRelease
  <2>1. fetch \in [opt : Options, sound : BOOLEAN]
      BY <1>3 DEF VerifyRelease
  <2>2. fetch.sound \/ fetch.opt.insecure
      BY <1>3, <2>1, VerifiedIsSound DEF VerifyRelease
  <2>3. fetch.opt.insecure \in BOOLEAN /\ fetch.sound \in BOOLEAN
      BY <2>1 DEF Options
  <2> QED BY <1>3, <2>2, <2>3 DEF VerifyRelease
<1>4. CASE Extract
    BY <1>4 DEF Extract, fetchVars
<1>5. CASE GivesUp \/ MoveFails \/ InstallFails \/ UpdaterDies
    BY <1>5 DEF GivesUp, MoveFails, InstallFails, UpdaterDies
<1>6. CASE DropOld \/ MoveAside
    BY <1>6 DEF DropOld, MoveAside, fetchVars
<1>7. CASE Install
    BY <1>7 DEF Install
<1>8. CASE ProcessStep \/ UNCHANGED exeVars
    BY <1>8
       DEF ProcessStep, exeVars, fetchVars, Probe, LaunchFails,
           Launch, CleanUp, Listen, Ends
<1> QED
    BY <1>1, <1>2, <1>3, <1>4, <1>5, <1>6, <1>7, <1>8, NextParts, SetupFrame
       DEF UpdateStep, installVars

\* runUpdate: an archive other than the one the release's checksums name is
\* never installed unless the operator waived the check.
THEOREM VerifiedIsInstalled == InstallSpec => []OnlyVerifiedInstalled
<1>1. FetchInv => OnlyVerifiedInstalled
    BY DEF FetchInv
<1> QED BY <1>1, FetchInit, FetchStep, PTL DEF InstallSpec

-----------------------------------------------------------------------------
ConfigFile == [tool : Tools, user : BOOLEAN, url : URLs \cup {NoURL}]

\* While setup is about to write, the last backup is the user's text.
TextInv ==
    /\ config \in ConfigFile
    /\ backups \in Seq(ConfigFile)
    /\ misled \in BOOLEAN
    /\ setup.st # "idle" => setup = [st |-> setup.st, read |-> setup.read, url |-> setup.url]
    /\ setup.st # "idle" => setup.read \in ConfigFile /\ setup.url \in URLs
    /\ UserTextKept
    /\ setup.st = "write" => misled \/ (backups # <<>> /\ Latest.user)

\* The user's text is in the configuration at the start.
LEMMA TextInit == InstallInit => TextInv
<1> SUFFICES ASSUME InstallInit PROVE TextInv
    OBVIOUS
<1>1. config \in ConfigFile /\ config.user
    BY Zenon DEF InstallInit, ConfigFile
<1>2. setup.st = "idle"
    BY DEF InstallInit, Resting
<1>3. backups \in Seq(ConfigFile)
    BY DEF InstallInit
<1> QED BY <1>1, <1>2, <1>3, Zenon DEF InstallInit, TextInv, UserTextKept

\* backupFile: the copy is the latest backup.
LEMMA SaveLatest ==
    ASSUME NEW copy \in ConfigFile, backups \in Seq(ConfigFile), Save(copy)
    PROVE  /\ backups' \in Seq(ConfigFile)
           /\ backups' # <<>>
           /\ Latest' = copy
BY DEF Save, Latest

\* The latest backup is a configuration file.
LEMMA LatestShape ==
    ASSUME backups \in Seq(ConfigFile), backups # <<>> PROVE Latest \in ConfigFile
BY DEF Latest

\* Setup writes only after a backup that has the user's text.
LEMMA TextStep == TextInv /\ [InstallNext]_installVars => TextInv'
<1> SUFFICES ASSUME TextInv, [InstallNext]_installVars PROVE TextInv'
    OBVIOUS
<1> USE DEF TextInv, UserTextKept
<1>0. Torn \in ConfigFile /\ ~ Torn.user
    BY Zenon DEF Torn, ConfigFile
<1>1. ASSUME NEW u \in URLs, BeginApply(u) PROVE TextInv'
    BY <1>1 DEF BeginApply, Latest
<1>2. CASE Backup
  <2>1. setup' = [st |-> "write", read |-> setup.read, url |-> setup.url]
      BY <1>2 DEF Backup
  <2> QED BY <1>2, <2>1, SaveLatest, Zenon DEF Backup, ConfigFile
<1>3. CASE BackupDies
    BY <1>0, <1>3, SaveLatest, Zenon DEF BackupDies, Resting, ConfigFile
<1>4. CASE Write
  <2>1. Merged \in ConfigFile
      BY <1>4 DEF Write, Merged, ConfigFile
  <2> QED BY <1>4, <2>1 DEF Write, Resting, Latest
<1>5. CASE WriteDies
    BY <1>0, <1>5 DEF WriteDies, Resting, Latest
<1>6. CASE Revert
  <2>1. Latest \in ConfigFile
      BY <1>6, LatestShape DEF Revert
  <2>2. Latest' = Latest
      BY <1>6 DEF Revert, Latest
  <2> QED BY <1>6, <2>1, <2>2 DEF Revert, ConfigFile
<1>7. CASE RevertDies
  <2>1. Latest \in ConfigFile
      BY <1>7, LatestShape DEF RevertDies
  <2>2. Latest' = Latest
      BY <1>7 DEF RevertDies, Latest
  <2> QED BY <1>0, <1>7, <2>1, <2>2 DEF RevertDies, ConfigFile
<1>8. CASE UNCHANGED configVars
    BY <1>8 DEF configVars, Latest
<1> QED
    BY <1>1, <1>2, <1>3, <1>4, <1>5, <1>6, <1>7, <1>8, NextParts, ExeFrame, Zenon
       DEF SetupStep, installVars

\* setup --apply and --revert: what the user wrote is in the configuration file
\* or in the backup that revert would restore, though any write may die.
THEOREM UserTextIsKept == InstallSpec => []UserTextKept
<1>1. TextInv => UserTextKept
    BY DEF TextInv
<1> QED BY <1>1, TextInit, TextStep, PTL DEF InstallSpec

=============================================================================
