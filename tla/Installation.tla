---------------------------- MODULE Installation ----------------------------
(***************************************************************************)
(* The files of an installation on Windows, and the commands that rewrite  *)
(* them: the self-update of the executable (cmd/update.go, two renames     *)
(* that any step may fail or die between), the proxy processes that run it *)
(* and clean up after an update (cmd/main.go), the launcher that starts    *)
(* them (cmd/keepalive-launcher), and setup (cmd/setup.go), which edits    *)
(* the configuration file of another tool after copying it aside.          *)
(*                                                                         *)
(* An image of the executable is a number, in the order of installation,   *)
(* Absent when there is no file.                                           *)
(* A configuration file is the tool it belongs to (JSON for Claude Code,   *)
(* TOML with a marked block for Codex), the user's part of it, intact or   *)
(* not, and the proxy URL setup wrote, NoURL when there is none.           *)
(* The system may die in the middle of os.WriteFile, which leaves a torn   *)
(* file.                                                                   *)
(*                                                                         *)
(* A definition that no action uses, placed before the one it resembles,   *)
(* is a deliberate fault that shows that a property can fail.              *)
(***************************************************************************)
EXTENDS Naturals, Sequences

CONSTANTS
    Procs,       \* proxy processes
    Launchers,   \* launchers running at once
    URLs,        \* proxy URLs setup may be asked to write
    MaxVersion,  \* bound on the releases
    MaxBackups   \* bound on the backups of the configuration file

ASSUME InstallationAssumption == {MaxVersion, MaxBackups} \subseteq Nat

VARIABLES
    exe, old,   \* images in calvoproxy.exe and calvoproxy.exe.old
    update,     \* where the updater is
    fetch,      \* its options, and whether its archive is the release's
    unsound,    \* images whose archive is not the one the release was made of
    waived,     \* history: images installed under --insecure
    image,      \* [st, img] of a proxy process
    launcher,   \* "idle", or "closed" once it found nobody listening
    config,     \* the tool's configuration file
    backups,    \* <tool>-<time>.bak, in the order of their names
    setup,      \* the setup command: [st, read, url]
    misled      \* history: a torn file was backed up, or a torn backup restored

fetchVars == <<fetch, unsound, waived>>
exeVars == <<exe, old, update, fetchVars, image, launcher>>
configVars == <<config, backups, setup, misled>>
installVars == <<exeVars, configVars>>

Absent == 0
NoURL == "none"
Tools == {"claude-code", "codex"}
Gone == [st |-> "gone", img |-> Absent]
Release == [sums : BOOLEAN, listed : BOOLEAN, signed : BOOLEAN]
Options == [insecure : BOOLEAN, key : BOOLEAN]
NoFetch == [insecure |-> FALSE, sound |-> TRUE]
Resting == [st |-> "idle", read |-> NoURL, url |-> NoURL]

InstallInit ==
    /\ exe = 1 /\ old = Absent /\ update = "idle"
    /\ fetch = NoFetch /\ unsound = {} /\ waived = {}
    /\ image = [p \in Procs |-> Gone]
    /\ launcher = [l \in Launchers |-> "idle"]
    /\ config \in [tool : Tools, user : {TRUE}, url : {NoURL}]
    /\ backups = <<>>
    /\ setup = Resting /\ misled = FALSE

----------------------------------------------------------------------------
(* The file of a running image cannot be removed or replaced, only renamed. *)
InUse(v) == v # Absent /\ \E p \in Procs : image[p].img = v

Listening == {p \in Procs : image[p].st = "serving"}

(* The launcher: portOpen, and if nobody listens a detached process. *)
Probe(l) ==
    /\ launcher[l] = "idle" /\ Listening = {}
    /\ launcher' = [launcher EXCEPT ![l] = "closed"]
    /\ UNCHANGED <<exe, old, update, fetchVars, image, configVars>>

Launch(l, p) ==
    /\ launcher[l] = "closed"
    /\ image[p] = Gone /\ exe # Absent
    /\ image' = [image EXCEPT ![p] = [st |-> "boot", img |-> exe]]
    /\ launcher' = [launcher EXCEPT ![l] = "idle"]
    /\ UNCHANGED <<exe, old, update, fetchVars, configVars>>

(* cmd.Start fails: the launcher returns without a word. *)
LaunchFails(l) ==
    /\ launcher[l] = "closed"
    /\ launcher' = [launcher EXCEPT ![l] = "idle"]
    /\ UNCHANGED <<exe, old, update, fetchVars, image, configVars>>

(* What is left of .old after os.Remove. *)
OldAfterRemove == IF InUse(old) THEN old ELSE Absent

(* main: cleanupStaleUpdate comes before anything else. *)
CleanUp(p) ==
    /\ image[p].st = "boot"
    /\ old' = OldAfterRemove
    /\ image' = [image EXCEPT ![p].st = "clean"]
    /\ UNCHANGED <<exe, update, fetchVars, launcher, configVars>>

(* The server listens, or exits because the port is taken. *)
Listen(p) ==
    /\ image[p].st = "clean"
    /\ image' = [image EXCEPT ![p] = IF Listening = {} THEN [@ EXCEPT !.st = "serving"] ELSE Gone]
    /\ UNCHANGED <<exe, old, update, fetchVars, launcher, configVars>>

(* A process ends, at any point. *)
Ends(p) ==
    /\ image[p] # Gone
    /\ image' = [image EXCEPT ![p] = Gone]
    /\ UNCHANGED <<exe, old, update, fetchVars, launcher, configVars>>

----------------------------------------------------------------------------
(* runUpdate, with any options: there is a newer release (or --force), and *)
(* it has an archive for this platform.                                    *)
Check ==
    /\ update = "idle" /\ exe \in 1 .. MaxVersion - 1
    /\ \E opt \in Options : fetch' = [opt |-> opt, sound |-> TRUE]
    /\ update' = "checked"
    /\ UNCHANGED <<exe, old, unsound, waived, image, launcher, configVars>>

(* The archive arrives, whole or not. *)
Download ==
    /\ update = "checked"
    /\ \E sound \in BOOLEAN : fetch' = [fetch EXCEPT !.sound = sound]
    /\ update' = "downloaded"
    /\ UNCHANGED <<exe, old, unsound, waived, image, launcher, configVars>>

(* sha256FromSums and verifySHA256: the archive has a line in the list and *)
(* matches it; --insecure stands in for a missing line only.               *)
SumMatchesIfListed(opt, rel, sound) == rel.listed => sound

SumMatches(opt, rel, sound) == IF rel.listed THEN sound ELSE opt.insecure

(* verifyReleaseSignature, when a release key is configured. *)
SignatureMatches(opt, rel) == opt.key => rel.signed

Verified(opt, rel, sound) ==
    IF rel.sums THEN SumMatches(opt, rel, sound) /\ SignatureMatches(opt, rel)
                ELSE ~opt.key /\ opt.insecure

(* What else the release holds, a list or not, matters here for the first  *)
(* time.                                                                   *)
VerifyRelease ==
    /\ update = "downloaded"
    /\ \E rel \in Release : Verified(fetch.opt, rel, fetch.sound)
    /\ fetch' = [insecure |-> fetch.opt.insecure, sound |-> fetch.sound]
    /\ update' = "verified"
    /\ UNCHANGED <<exe, old, unsound, waived, image, launcher, configVars>>

(* extractBinary, and the temporary file of replaceExecutable. *)
Extract ==
    /\ update = "verified"
    /\ update' = "fetched"
    /\ UNCHANGED <<exe, old, fetchVars, image, launcher, configVars>>

(* Any of these steps fails, or finds the archive not verified: a message  *)
(* and a return.                                                           *)
GivesUp ==
    /\ update \in {"checked", "downloaded", "verified"}
    /\ update' = "idle" /\ fetch' = NoFetch
    /\ UNCHANGED <<exe, old, unsound, waived, image, launcher, configVars>>

(* replaceExecutable: the leftover of an earlier update goes first ... *)
DropOld ==
    /\ update = "fetched"
    /\ old' = OldAfterRemove
    /\ update' = "dropped"
    /\ UNCHANGED <<exe, fetchVars, image, launcher, configVars>>

(* ... the executable is renamed to .old, in place of what is still there, *)
(* which fails when a process runs that ...                                *)
MoveAside ==
    /\ update = "dropped" /\ ~InUse(old)
    /\ exe' = Absent /\ old' = exe
    /\ update' = "aside"
    /\ UNCHANGED <<fetchVars, image, launcher, configVars>>

MoveFails ==
    /\ update = "dropped"
    /\ update' = "idle" /\ fetch' = NoFetch
    /\ UNCHANGED <<exe, old, unsound, waived, image, launcher, configVars>>

(* ... and the temporary file takes its name. *)
Install ==
    /\ update = "aside"
    /\ exe' = old + 1
    /\ unsound' = IF fetch.sound THEN unsound ELSE unsound \cup {exe'}
    /\ waived' = IF fetch.insecure THEN waived \cup {exe'} ELSE waived
    /\ update' = "idle" /\ fetch' = NoFetch
    /\ UNCHANGED <<old, image, launcher, configVars>>

NoRollBack == UNCHANGED <<exe, old>>

RollBack == exe' = old /\ old' = Absent

InstallFails ==
    /\ update = "aside"
    /\ RollBack
    /\ update' = "idle" /\ fetch' = NoFetch
    /\ UNCHANGED <<unsound, waived, image, launcher, configVars>>

(* The updater dies; or, between the renames, even the rename back fails. *)
UpdaterDies ==
    /\ update \notin {"idle", "stuck"}
    /\ update' = IF update = "aside" THEN "stuck" ELSE "idle"
    /\ fetch' = NoFetch
    /\ UNCHANGED <<exe, old, unsound, waived, image, launcher, configVars>>

----------------------------------------------------------------------------
(* setup --apply: Current finds the file not configured for this URL, and  *)
(* Apply reads it; a settings file that is not valid JSON is refused, the  *)
(* TOML file is not looked at.  Hermes' file is never written.             *)
Torn == [config EXCEPT !.user = FALSE, !.url = NoURL]

Configured(u) == config.url = u

Readable == config.tool = "claude-code" => config.user

BeginApply(u) ==
    /\ setup.st = "idle" /\ ~Configured(u) /\ Readable
    /\ setup' = [st |-> "backup", read |-> config, url |-> u]
    /\ UNCHANGED <<exeVars, config, backups, misled>>

SaveNothing(copy) == UNCHANGED backups

(* ... backupFile copies it under the name of the second, which may be the *)
(* name of the last backup; dying in the middle leaves a torn copy ...     *)
Save(copy) ==
    \/ Len(backups) < MaxBackups /\ backups' = Append(backups, copy)
    \/ backups # <<>> /\ backups' = [backups EXCEPT ![Len(backups)] = copy]

Backup ==
    /\ setup.st = "backup"
    /\ Save(config)
    /\ misled' = (misled \/ ~config.user)
    /\ setup' = [setup EXCEPT !.st = "write"]
    /\ UNCHANGED <<exeVars, config>>

BackupDies ==
    /\ setup.st = "backup"
    /\ Save(Torn)
    /\ misled' = (misled \/ ~config.user)
    /\ setup' = Resting
    /\ UNCHANGED <<exeVars, config>>

(* ... and the text that was read is written with the URL in it: merged    *)
(* into the keys of the settings file, or by replaceMarkedBlock, which     *)
(* keeps everything outside the markers.                                   *)
Merged == [setup.read EXCEPT !.url = setup.url]

Write ==
    /\ setup.st = "write"
    /\ config' = Merged
    /\ setup' = Resting
    /\ UNCHANGED <<exeVars, backups, misled>>

WriteDies ==
    /\ setup.st = "write"
    /\ config' = Torn
    /\ setup' = Resting
    /\ UNCHANGED <<exeVars, backups, misled>>

Latest == backups[Len(backups)]

(* setup --revert: the latest backup is written over the file. *)
Revert ==
    /\ setup.st = "idle" /\ backups # <<>>
    /\ config' = Latest
    /\ misled' = (misled \/ ~Latest.user)
    /\ UNCHANGED <<exeVars, backups, setup>>

RevertDies ==
    /\ setup.st = "idle" /\ backups # <<>>
    /\ config' = Torn
    /\ misled' = (misled \/ ~Latest.user)
    /\ UNCHANGED <<exeVars, backups, setup>>

InstallNext ==
    \/ \E l \in Launchers : Probe(l) \/ LaunchFails(l) \/ \E p \in Procs : Launch(l, p)
    \/ \E p \in Procs : CleanUp(p) \/ Listen(p) \/ Ends(p)
    \/ Check \/ Download \/ VerifyRelease \/ Extract \/ GivesUp
    \/ DropOld \/ MoveAside \/ MoveFails \/ Install \/ InstallFails \/ UpdaterDies
    \/ \E u \in URLs : BeginApply(u)
    \/ Backup \/ BackupDies \/ Write \/ WriteDies \/ Revert \/ RevertDies

InstallSpec == InstallInit /\ [][InstallNext]_installVars

----------------------------------------------------------------------------
(* Whatever renames fail, and whenever the updater or a proxy process      *)
(* dies, or starts and cleans up, a working executable is kept, under its  *)
(* name or as .old; and its name is free only between the two renames of   *)
(* the swap, or after the updater died there.                              *)
ExecutableKept ==
    /\ exe # Absent \/ old # Absent
    /\ exe = Absent => update \in {"aside", "stuck"}

(* No step of an update installs an archive that differs from the one the  *)
(* release's checksums name, unless the operator waived the check with     *)
(* --insecure: not when the list, the line or the signature is missing,    *)
(* and not through a rollback or an update that died and was run again.    *)
OnlyVerifiedInstalled == unsound \subseteq waived

(* What the user wrote is never lost to setup: it is in the file or, when  *)
(* a write died, in the backup revert would restore, unless a copy whose   *)
(* own write had died was restored, or a file that a dead write left was   *)
(* backed up as if it were the user's.                                     *)
UserTextKept ==
    misled \/ config.user \/ (backups # <<>> /\ Latest.user)
=============================================================================
