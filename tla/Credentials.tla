---------------------------- MODULE Credentials ----------------------------
(***************************************************************************)
(* The stored provider credentials: the encrypted vault                    *)
(* (internal/secretstore/vault.go), its master key, the legacy plain-text  *)
(* key file (cmd/keystore.go) and the commands that use them: the server's *)
(* start, login, logout (cmd/provider_credentials.go, cmd/login.go) and    *)
(* the key handler of the administrative interface                         *)
(* (cmd/admin_providers.go).                                               *)
(*                                                                         *)
(* Several processes run these commands at once.  The vault's mutex is     *)
(* local to its process, so a Set or a Delete of one process reads the     *)
(* file, and replaces it in a later step; a process may die in between.    *)
(* The file is replaced by a rename, so that a reader finds a whole file.  *)
(*                                                                         *)
(* A definition that no action uses, placed before the one it resembles,   *)
(* is a deliberate fault that shows that a property can fail.              *)
(***************************************************************************)
EXTENDS Naturals

CONSTANTS
    Processes,
    Providers,   \* allowed providers
    OpenRouter,  \* the one login, logout and the legacy file are about
    Secrets,     \* credentials a user may store
    Legacy,      \* the credential the legacy file starts with
    MaxKeys      \* bound on the master keys that ever exist

ASSUME CredentialsAssumption ==
    /\ OpenRouter \in Providers
    /\ MaxKeys \in Nat \ {0}

VARIABLES
    vault,     \* the entries of the vault file: [secret, key] by provider
    blob,      \* the master key: Missing, Empty (created, not written), or its number
    minted,    \* master keys made so far
    legacy,    \* content of the legacy file, None when there is none
    proc,      \* [cmd, pc, buf, key, prov, secret] of a process
    clobbered, \* history: a replacement undid another one it had not read
    discarded  \* history: a user stored or removed an OpenRouter credential

vars == <<vault, blob, minted, legacy, proc, clobbered, discarded>>

None == "none"
Missing == 0
Empty == MaxKeys + 1
Keys == 1 .. MaxKeys
NoEntry == [secret |-> None, key |-> Missing]
NoFile == [v \in Providers |-> NoEntry]
Idle == [cmd |-> "none", pc |-> "idle", buf |-> NoFile, key |-> Missing,
         prov |-> OpenRouter, secret |-> None]

Init ==
    /\ vault = NoFile
    /\ blob = Missing /\ minted = 0
    /\ legacy = Legacy
    /\ proc = [p \in Processes |-> Idle]
    /\ clobbered = FALSE /\ discarded = FALSE

----------------------------------------------------------------------------
(* authenticateEntries *)
Opens(k, file) == \A v \in Providers : file[v] # NoEntry => file[v].key = k

Goto(p, pc) == proc' = [proc EXCEPT ![p].pc = pc]
Fails(p) == proc' = [proc EXCEPT ![p] = Idle]
Files == <<vault, blob, minted, legacy, clobbered, discarded>>

(* A command starts: the server, which then takes requests, login, logout, *)
(* or a key request of a server that is already up.                        *)
Begin(p) ==
    /\ proc[p] = Idle
    /\ \/ proc' = [proc EXCEPT ![p].cmd = "serve", ![p].pc = "status"]
       \/ \E s \in Secrets :
             proc' = [proc EXCEPT ![p].cmd = "login", ![p].pc = "status", ![p].secret = s]
       \/ proc' = [proc EXCEPT ![p].cmd = "logout", ![p].pc = "status"]
       \/ \E v \in Providers, s \in Secrets :
             proc' = [proc EXCEPT ![p].cmd = "put", ![p].pc = "key",
                                  ![p].prov = v, ![p].secret = s]
       \/ \E v \in Providers :
             proc' = [proc EXCEPT ![p].cmd = "drop", ![p].pc = "key", ![p].prov = v]
    /\ UNCHANGED Files

(* Load of the master key: the first to need it makes it, in a file of its *)
(* own that must not exist yet, ...                                        *)
Needs(p) == proc[p].pc \in {"status", "key"}

MakeBlob(p) ==
    /\ Needs(p) /\ blob = Missing /\ minted < MaxKeys
    /\ blob' = Empty
    /\ proc' = [proc EXCEPT ![p].pc = IF @ = "status" THEN "fillStatus" ELSE "fillKey"]
    /\ UNCHANGED <<vault, minted, legacy, clobbered, discarded>>

(* ... and then fills it; ... *)
FillBlob(p) ==
    /\ proc[p].pc \in {"fillStatus", "fillKey"}
    /\ minted' = minted + 1
    /\ blob' = minted + 1
    /\ proc' = [proc EXCEPT ![p].pc = IF @ = "fillStatus" THEN "status" ELSE "key"]
    /\ UNCHANGED <<vault, legacy, clobbered, discarded>>

(* ... when that fails the file is removed again. *)
FillFails(p) ==
    /\ proc[p].pc \in {"fillStatus", "fillKey"}
    /\ blob' = Missing
    /\ Fails(p)
    /\ UNCHANGED <<vault, minted, legacy, clobbered, discarded>>

(* Mounted key files (Linux): the operator mounts another key. *)
Rotate ==
    /\ blob \in Keys /\ minted < MaxKeys
    /\ minted' = minted + 1 /\ blob' = minted + 1
    /\ UNCHANGED <<vault, legacy, proc, clobbered, discarded>>

Unlocked(file) == blob \in Keys /\ Opens(blob, file)
Decrypts(v) == vault[v] # NoEntry /\ vault[v].key = blob

(* Where a command goes on after initializeManagedCredentials. *)
Own(p) == IF proc[p].cmd = "serve" THEN Idle
          ELSE [proc[p] EXCEPT !.pc = "key", !.buf = NoFile, !.key = Missing]
Proceeds(p) == proc' = [proc EXCEPT ![p] = Own(p)]

Removes(p) == proc[p].cmd \in {"logout", "drop"}
Migrating(p) == proc[p].pc \in {"mset", "mwrite"}
Ready(p) == ~(Needs(p) /\ blob = Missing)

(* Status: a locked vault is left alone. *)
Status(p) ==
    /\ proc[p].pc = "status" /\ Ready(p)
    /\ IF Unlocked(vault) THEN Goto(p, "legacy") ELSE Proceeds(p)
    /\ UNCHANGED Files

(* migrateLegacyOpenRouterKey reads the legacy file, ... *)
ReadLegacy(p) ==
    /\ proc[p].pc = "legacy"
    /\ IF legacy = None THEN Proceeds(p) ELSE Goto(p, "compare")
    /\ UNCHANGED Files

(* ... asks the vault for its entry, ... *)
Compare(p) ==
    /\ proc[p].pc = "compare"
    /\ CASE vault[OpenRouter] = NoEntry -> Goto(p, "mset")
         [] Decrypts(OpenRouter) /\ vault[OpenRouter].secret = Legacy -> Goto(p, "unlink")
         [] OTHER -> Proceeds(p)
    /\ UNCHANGED Files

(* ... stores it there and reads it back (Load and Replace below), ... *)
Verify(p) ==
    /\ proc[p].pc = "verify"
    /\ IF Decrypts(OpenRouter) /\ vault[OpenRouter].secret = Legacy
       THEN Goto(p, "unlink")
       ELSE Proceeds(p)
    /\ UNCHANGED Files

(* ... and removes the legacy file, which may fail. *)
Unlink(p) ==
    /\ proc[p].pc = "unlink"
    /\ legacy' \in {None, legacy}
    /\ Proceeds(p)
    /\ UNCHANGED <<vault, blob, minted, clobbered, discarded>>

(* The first half of Set and Delete: the file is read, and every entry of  *)
(* it must open under the master key.  Delete of what is not there does    *)
(* nothing.                                                                *)
MayReplaceAny(file) == blob \in Keys

MayReplace(file) == Unlocked(file)

Load(p) ==
    /\ proc[p].pc \in {"mset", "key"}
    /\ Ready(p) \/ (Removes(p) /\ vault = NoFile)
    /\ CASE proc[p].pc = "key" /\ Removes(p) /\ vault = NoFile -> Fails(p)
         [] ~MayReplace(vault) -> IF proc[p].pc = "mset" THEN Proceeds(p) ELSE Fails(p)
         [] proc[p].pc = "key" /\ Removes(p) /\ vault[proc[p].prov] = NoEntry -> Fails(p)
         [] OTHER ->
              proc' = [proc EXCEPT ![p].pc = IF @ = "mset" THEN "mwrite" ELSE "write",
                                   ![p].buf = vault, ![p].key = blob]
    /\ UNCHANGED Files

(* The file p writes: what it read, with its own entry changed. *)
Written(p) ==
    LET v == IF Migrating(p) THEN OpenRouter ELSE proc[p].prov
        s == IF Migrating(p) THEN Legacy ELSE proc[p].secret
    IN [proc[p].buf EXCEPT ![v] =
          IF ~Migrating(p) /\ Removes(p) THEN NoEntry
          ELSE [secret |-> s, key |-> proc[p].key]]

(* The second half, writeFile: the new file takes the name of the old one. *)
(* An error before the rename changes nothing; a directory that cannot be  *)
(* synced is reported as an error after it.                                *)
AfterErrorCarriesOn(p) == IF Migrating(p) THEN Goto(p, "unlink") ELSE Fails(p)

AfterError(p) == IF Migrating(p) THEN Proceeds(p) ELSE Fails(p)

AfterWrite(p) ==
    CASE Migrating(p) -> Goto(p, "verify")
      [] proc[p].cmd = "login" -> Goto(p, "confirm")
      [] OTHER -> Fails(p)

Replace(p) ==
    /\ proc[p].pc \in {"mwrite", "write"}
    /\ vault' = Written(p)
    /\ clobbered' = (clobbered \/ proc[p].buf # vault)
    /\ discarded' = (discarded \/ (~Migrating(p) /\ proc[p].prov = OpenRouter))
    /\ AfterWrite(p) \/ AfterError(p)
    /\ UNCHANGED <<blob, minted, legacy>>

ReplaceFails(p) ==
    /\ proc[p].pc \in {"mwrite", "write"}
    /\ AfterError(p)
    /\ UNCHANGED Files

(* storeManagedOpenRouterKey reads the key back and reports. *)
Confirm(p) ==
    /\ proc[p].pc = "confirm"
    /\ Fails(p)
    /\ UNCHANGED Files

(* The process dies. *)
Dies(p) ==
    /\ proc[p] # Idle
    /\ Fails(p)
    /\ UNCHANGED Files

Next ==
    \/ \E p \in Processes :
          Begin(p) \/ MakeBlob(p) \/ FillBlob(p) \/ FillFails(p) \/ Status(p)
          \/ ReadLegacy(p) \/ Compare(p) \/ Verify(p) \/ Unlink(p) \/ Load(p)
          \/ Replace(p) \/ ReplaceFails(p) \/ Confirm(p) \/ Dies(p)
    \/ Rotate

Spec == Init /\ [][Next]_vars

----------------------------------------------------------------------------
Entries == [secret : Secrets \cup {Legacy}, key : Keys] \cup {NoEntry}

(* Every entry carries a secret and the key it was sealed with, and what a *)
(* process is about to write was sealed with a whole master key (loadKey). *)
TypeOK ==
    /\ vault \in [Providers -> Entries]
    /\ blob \in {Missing, Empty} \cup Keys
    /\ minted \in 0 .. MaxKeys
    /\ legacy \in {Legacy, None}
    /\ \A p \in Processes : /\ proc[p].buf \in [Providers -> Entries]
                            /\ proc[p].pc \in {"mwrite", "write"} => proc[p].key \in Keys
    /\ clobbered \in BOOLEAN /\ discarded \in BOOLEAN

(* authenticateEntries before each replacement: whatever keys come and go, *)
(* with commands of several processes in between, all entries of the file  *)
(* open under one key, so that a vault is never half locked.               *)
OneKeyPerFile ==
    \A v, w \in Providers :
        vault[v] # NoEntry /\ vault[w] # NoEntry => vault[v].key = vault[w].key

(* migrateLegacyOpenRouterKey: through crashes, failed writes, locked      *)
(* vaults and concurrent commands, the legacy credential is in its file or *)
(* in the vault until a user stores or removes an OpenRouter credential -  *)
(* or a replacement by another process overwrites one it had not read.     *)
LegacyKept ==
    \/ legacy = Legacy \/ vault[OpenRouter].secret = Legacy
    \/ discarded \/ clobbered
=============================================================================
