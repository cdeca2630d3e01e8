---------------------------- MODULE ProviderVault ----------------------------
(***************************************************************************)
(* The stored connection of one provider: a key, or a plan the user signs  *)
(* in to (app/src/vault.rs, plan_login.rs, slices/connect.rs,              *)
(* providers/plan.rs, providers/xai_plan.rs).                              *)
(*                                                                         *)
(* providers.json names the connection, the tokens of a plan are a file of *)
(* their own.  A change is a series of writes, renames and removals, each  *)
(* of which may fail before or after it happened; the code undoes what it  *)
(* did, and a start puts right what a crash left.  A refresh of the tokens *)
(* writes their file without the lock of the vault.                        *)
(*                                                                         *)
(* A credential is a number: sign-ins draw theirs from 1, keys from 100.   *)
(* The other providers of the file are carried along and left out.         *)
(***************************************************************************)
EXTENDS Integers, FiniteSets

CONSTANTS
    MaxSignIns,               \* bound on the sign-ins that are started
    MaxKeys,                  \* bound on the keys that are stored
    VaultFaults,              \* bound on the writes that fail
    VaultStops                \* bound on the times the server stops

ASSUME VaultAssumed == MaxSignIns \in Nat

VARIABLES
    unlocked,                 \* the server runs
    vault,                    \* VaultState
    files,                    \* the directory
    step, change,             \* the operation that holds the lock
    generation, attempts,     \* PlanLogin, and the sign-ins
    refresh,                  \* the tokens a refresh started from
    said,                     \* what the user may expect to be stored
    keys, vaultFaults, crashes, stops,
    quiet                     \* no refresh ended too late

operation == <<step, change>>
signIns == <<generation, attempts>>
counts == <<keys, crashes, stops, quiet>>
vaultVars == <<unlocked, vault, files, operation, signIns, refresh, said, vaultFaults,
               counts>>

SignIn == 1 .. MaxSignIns
NoFile == 0
Blank == -1                   \* a staged file without tokens

Unconnected == [auth |-> "none", of |-> 0]
Key(n) == [auth |-> "key", of |-> n]
Plan == [auth |-> "plan", of |-> 0]
PlanOf(n) == [auth |-> "plan", of |-> n]

NoWork == [name |-> "none", previous |-> Unconnected, bytes |-> NoFile, of |-> 0,
           rollback |-> FALSE]

(* What providers.json and the plan's file say together.                   *)
Connection(entry, tokens) == IF entry = Plan THEN PlanOf(tokens) ELSE entry

VaultInit ==
    /\ unlocked = TRUE
    /\ vault = Unconnected
    /\ files = [vault |-> Unconnected, final |-> NoFile,
                marker |-> NoFile, backup |-> NoFile,
                staged |-> [g \in SignIn |-> NoFile]]
    /\ step = "idle" /\ change = NoWork
    /\ generation = 0
    /\ attempts = [g \in SignIn |-> "none"]
    /\ refresh = NoFile
    /\ said = {Unconnected}
    /\ keys = 0
    /\ vaultFaults = 0 /\ crashes = 0 /\ stops = 0
    /\ quiet = TRUE

-----------------------------------------------------------------------------
(* One write, rename or removal of storage.rs: done, or failed before or   *)
(* after the directory changed.                                            *)
Do(changed, then, otherwise) ==
    \/ /\ files' = changed /\ step' = then
       /\ UNCHANGED vaultFaults
    \/ /\ vaultFaults < VaultFaults
       /\ vaultFaults' = vaultFaults + 1
       /\ files' \in {files, changed} /\ step' = otherwise

Proceed(then) == step' = then /\ UNCHANGED <<files, vaultFaults>>

Same == UNCHANGED <<unlocked, signIns, refresh, said, counts>>

Begin(name, of) ==
    /\ unlocked /\ step = "idle"
    /\ change' = [NoWork EXCEPT !.name = name, !.previous = vault, !.of = of,
                              !.bytes = files.final]

Step(label) == unlocked /\ step = label

(* commit                                                                  *)
Commit(entry, then, otherwise) ==
    /\ vault' = entry
    /\ Do([files EXCEPT !.vault = entry], then, otherwise)

(* Every failed change ends with the entry it found, in memory and stored. *)
Undo ==
    /\ Step("undo")
    /\ Commit(change.previous, "refused", "refused")
    /\ Same /\ UNCHANGED change

-----------------------------------------------------------------------------
(* insert_api_key: the entry first, then the plan's file goes.             *)
InsertKey ==
    /\ Begin("insert", 100 + keys)
    /\ keys < MaxKeys
    /\ keys' = keys + 1
    /\ Commit(Key(100 + keys), "insert: remove", "undo")
    /\ UNCHANGED <<unlocked, signIns, refresh, said, crashes, stops, quiet>>

RemovePlanFile ==
    /\ Step("insert: remove")
    /\ IF files.final = NoFile THEN Proceed("stored")
       ELSE Do([files EXCEPT !.final = NoFile], "stored", "insert: restore")
    /\ Same /\ UNCHANGED <<vault, change>>

RestorePlanFile ==
    /\ Step("insert: restore")
    /\ IF change.bytes = NoFile THEN Proceed("undo")
       ELSE Do([files EXCEPT !.final = change.bytes], "undo", "refused")
    /\ Same /\ UNCHANGED <<vault, change>>

-----------------------------------------------------------------------------
(* install_plan: a copy of the old tokens, the new file in their place,    *)
(* the entry, and the copy goes.  Under the lock of the sign-ins too.      *)
InstallPlan(g) ==
    /\ g = generation /\ attempts[g] = "written"
    /\ Begin("install", g)
    /\ \/ /\ IF files.final = NoFile THEN UNCHANGED files
             ELSE files' = [files EXCEPT !.backup = files.final]
          /\ step' = "install: rename"
          /\ UNCHANGED vaultFaults
       \/ /\ vaultFaults < VaultFaults /\ files.final # NoFile
          /\ vaultFaults' = vaultFaults + 1
          /\ step' = "refused"
          /\ UNCHANGED files
    /\ Same /\ UNCHANGED vault

RenameStaged ==
    /\ Step("install: rename")
    /\ Do([files EXCEPT !.final = files.staged[change.of],
                        !.staged[change.of] = NoFile],
          "install: commit", "install: return")
    /\ Same /\ UNCHANGED <<vault, change>>

CommitPlan ==
    /\ Step("install: commit")
    /\ Commit(Plan, "install: clean", "install: rollback")
    /\ Same /\ UNCHANGED change

RemoveBackup ==
    /\ Step("install: clean")
    /\ \/ /\ files' = [files EXCEPT !.backup = NoFile]
          /\ step' = "stored"
          /\ vaultFaults' \in {vaultFaults} \union
                 IF files.backup # NoFile /\ vaultFaults < VaultFaults
                 THEN {vaultFaults + 1} ELSE {}
       \/ /\ files.backup # NoFile /\ vaultFaults < VaultFaults
          /\ vaultFaults' = vaultFaults + 1
          /\ step' = "install: rollback"
          /\ UNCHANGED files
    /\ Same /\ UNCHANGED <<vault, change>>

Unstaged ==
    [files EXCEPT !.staged[change.of] = files.final, !.final = NoFile]

RollbackInstall ==
    /\ Step("install: rollback")
    /\ vault' = change.previous
    /\ change' = [change EXCEPT !.rollback = TRUE]
    /\ Do(Unstaged, "install: backup", "install: return")
    /\ Same

(* return_plan_to_stage_if_moved                                           *)
ReturnToStage ==
    /\ Step("install: return")
    /\ IF files.staged[change.of] # NoFile \/ files.final = NoFile
       THEN Proceed("install: backup")
       ELSE Do(Unstaged, "install: backup", "refused")
    /\ Same /\ UNCHANGED <<vault, change>>

RestoreBackup ==
    LET then == IF change.rollback THEN "undo" ELSE "refused" IN
    /\ Step("install: backup")
    /\ IF files.backup = NoFile THEN Proceed(then)
       ELSE Do([files EXCEPT !.final = files.backup, !.backup = NoFile], then, "refused")
    /\ Same /\ UNCHANGED <<vault, change>>

-----------------------------------------------------------------------------
(* forget: the plan's file becomes a marker, the entry goes, the marker    *)
(* goes.                                                                   *)
RemovedFile == [files EXCEPT !.final = NoFile]
Marked == [files EXCEPT !.marker = files.final, !.final = NoFile]
Unmarked == [files EXCEPT !.final = files.marker, !.marker = NoFile]

Forget ==
    /\ vault # Unconnected
    /\ Begin("forget", 0)
    /\ CASE vault # Plan -> Proceed("forget: commit")
         [] vault = Plan /\ files.final # NoFile /\ files.marker = NoFile ->
                Do(Marked, "forget: commit", "forget: return")
         [] vault = Plan /\ files.final = NoFile /\ files.marker # NoFile ->
                Proceed("forget: commit")
         [] OTHER -> Proceed("refused")
    /\ Same /\ UNCHANGED vault

(* restore_plan_from_marker                                                *)
ReturnFromMarker ==
    /\ Step("forget: return")
    /\ IF files.final = NoFile /\ files.marker # NoFile
       THEN Do(Unmarked, "refused", "refused")
       ELSE Proceed("refused")
    /\ Same /\ UNCHANGED <<vault, change>>

CommitForget ==
    /\ Step("forget: commit")
    /\ change' = [change EXCEPT !.bytes = files.marker]
    /\ Commit(Unconnected, IF change.previous = Plan THEN "forget: marker" ELSE "stored",
              "forget: rollback")
    /\ Same

RemoveMarker ==
    /\ Step("forget: marker")
    /\ Do([files EXCEPT !.marker = NoFile], "forget: final", "forget: rollback")
    /\ Same /\ UNCHANGED <<vault, change>>

RemoveFinal ==
    /\ Step("forget: final")
    /\ IF files.final = NoFile THEN Proceed("stored")
       ELSE Do([files EXCEPT !.final = NoFile], "stored", "forget: rollback")
    /\ Same /\ UNCHANGED <<vault, change>>

(* rollback_forget, restore_plan_deletion                                  *)
RollbackForget ==
    /\ Step("forget: rollback")
    /\ vault' = change.previous
    /\ CASE change.previous # Plan -> Proceed("undo")
         [] change.previous = Plan /\ files.final = NoFile /\ files.marker # NoFile ->
                Do(Unmarked, "undo", "refused")
         [] change.previous = Plan /\ files.final = NoFile /\ files.marker = NoFile ->
                Do([files EXCEPT !.final = change.bytes], "undo", "refused")
         [] change.previous = Plan /\ files.final # NoFile ->
                Proceed(IF files.marker = NoFile THEN "undo" ELSE "refused")
    /\ Same /\ UNCHANGED change

-----------------------------------------------------------------------------
Target ==
    CASE change.name = "insert" -> Key(change.of)
      [] change.name = "install" -> PlanOf(change.of)
      [] OTHER -> Unconnected

(* The answer.  What was not installed of a sign-in is discarded.          *)
Answer ==
    /\ unlocked /\ step \in {"stored", "refused"}
    /\ step' = "idle" /\ change' = NoWork
    /\ said' = IF step = "stored" THEN {Target} ELSE said
    /\ IF change.name = "install"
       THEN /\ attempts' = [attempts EXCEPT ![change.of] = "gone"]
            /\ files' = [files EXCEPT !.staged[change.of] = NoFile]
       ELSE UNCHANGED <<attempts, files>>
    /\ UNCHANGED <<unlocked, vault, generation, refresh, vaultFaults, counts>>

-----------------------------------------------------------------------------
(* Sign-ins.  A new one aborts the task of the one before, which drops its *)
(* staged file; a write of tokens that has begun is not aborted.           *)
StartSignIn ==
    /\ unlocked /\ change.name # "install"
    /\ generation < MaxSignIns
    /\ generation' = generation + 1
    /\ attempts' = [attempts EXCEPT ![generation + 1] = "polling"]
    /\ files' = [files EXCEPT !.staged[generation + 1] = Blank]
    /\ UNCHANGED <<unlocked, vault, operation, refresh, said, vaultFaults, counts>>

SignInMoves(g, from, to, content) ==
    /\ unlocked /\ attempts[g] = from
    /\ attempts' = [attempts EXCEPT ![g] = to]
    /\ files' = [files EXCEPT !.staged[g] = content]
    /\ UNCHANGED <<unlocked, vault, operation, generation, refresh, said, vaultFaults,
                   counts>>

TokensArrive(g) == SignInMoves(g, "polling", "writing", files.staged[g])
TokensWritten(g) == SignInMoves(g, "writing", "written", g)
SignInFails(g) == SignInMoves(g, "polling", "gone", NoFile)

DiscardSignIn(g) ==
    /\ g # generation
    /\ \/ SignInMoves(g, "polling", "gone", NoFile)
       \/ SignInMoves(g, "writing", "orphan", NoFile)
       \/ SignInMoves(g, "written", "gone", NoFile)

OrphanWrites(g) == SignInMoves(g, "orphan", "gone", g)

-----------------------------------------------------------------------------
(* access_token: the file is read, the provider asked, the file written.   *)
RefreshBegins ==
    /\ unlocked /\ vault = Plan
    /\ files.final # NoFile /\ refresh = NoFile
    /\ refresh' = files.final
    /\ UNCHANGED <<unlocked, vault, files, operation, signIns, said, vaultFaults, counts>>

RefreshEnds ==
    /\ unlocked /\ refresh # NoFile
    /\ refresh' = NoFile
    /\ \/ /\ files' = [files EXCEPT !.final = refresh]
          /\ quiet' = (quiet /\ step = "idle" /\ files.final = refresh)
       \/ UNCHANGED <<files, quiet>>
    /\ UNCHANGED <<unlocked, vault, operation, signIns, said, vaultFaults, keys, crashes,
                   stops>>

-----------------------------------------------------------------------------
VaultCrash ==
    /\ unlocked /\ stops < VaultStops
    /\ stops' = stops + 1
    /\ crashes' = crashes + IF step = "idle" THEN 0 ELSE 1
    /\ said' = IF step = "idle" THEN said ELSE said \union {Target}
    /\ unlocked' = FALSE
    /\ step' = "idle" /\ change' = NoWork
    /\ vault' = Unconnected
    /\ attempts' = [g \in SignIn |-> "none"]
    /\ refresh' = NoFile
    /\ UNCHANGED <<files, generation, keys, vaultFaults, quiet>>

(* reconcile: which directories it accepts, and what it makes of them.     *)
Opens ==
    IF files.vault = Plan
    THEN (files.final = NoFile) # (files.marker = NoFile)
    ELSE files.final = NoFile \/ files.marker = NoFile

Restored ==
    IF files.vault = Plan /\ files.final = NoFile THEN Unmarked ELSE files

Reconciled ==
    [Restored EXCEPT !.marker = NoFile,
                     !.final = IF files.vault = Plan THEN @ ELSE NoFile,
                     !.backup = NoFile,
                     !.staged = [g \in SignIn |-> NoFile]]

VaultStart ==
    /\ ~unlocked /\ Opens
    /\ unlocked' = TRUE
    /\ files' = Reconciled
    /\ vault' = files.vault
    /\ UNCHANGED <<operation, signIns, refresh, said, vaultFaults, counts>>

(* A start that stops between its renames and its removals.                *)
StartStops ==
    /\ ~unlocked /\ Opens
    /\ files' \in {Restored, [Reconciled EXCEPT !.staged = files.staged]}
    /\ UNCHANGED <<unlocked, vault, operation, signIns, refresh, said, vaultFaults, counts>>

VaultNext ==
    \/ InsertKey \/ RemovePlanFile \/ RestorePlanFile
    \/ RenameStaged \/ CommitPlan \/ RemoveBackup \/ RollbackInstall \/ ReturnToStage
    \/ RestoreBackup
    \/ Forget \/ ReturnFromMarker \/ CommitForget \/ RemoveMarker \/ RemoveFinal
    \/ RollbackForget
    \/ Undo \/ Answer
    \/ StartSignIn
    \/ \E g \in SignIn :
           \/ InstallPlan(g) \/ TokensArrive(g) \/ TokensWritten(g) \/ SignInFails(g)
           \/ DiscardSignIn(g) \/ OrphanWrites(g)
    \/ RefreshBegins \/ RefreshEnds
    \/ VaultCrash \/ VaultStart \/ StartStops

VaultSpec == VaultInit /\ [][VaultNext]_vaultVars

-----------------------------------------------------------------------------
(* A change of a connection happens in whole or not at all, though one of  *)
(* its writes fails or the server crashes between two of them: what is     *)
(* stored is what the user was told, or for a change without an answer the *)
(* old or the new connection; the entry in memory is the stored one, no    *)
(* old tokens stay, and the next start accepts the directory               *)
(* (insert_api_key, install_plan, forget, reconcile).  Two of these at     *)
(* once, or a refresh that ends after its file was changed, may break it.  *)
ConnectionIsWhole ==
    vaultFaults + crashes <= 1 /\ quiet =>
        /\ ~unlocked => Opens
        /\ unlocked /\ step = "idle" =>
               /\ Connection(files.vault, files.final) \in said
               /\ vault = files.vault
               /\ files.vault # Plan => files.final = NoFile
               /\ files.marker = NoFile /\ files.backup = NoFile
=============================================================================
