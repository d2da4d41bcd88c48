----------------------------- MODULE VaultFiles -----------------------------
(***************************************************************************)
(* A vault as files on disk: how it is created (initVolume in config.go),  *)
(* given a new passphrase (ChangePassphrase), moved with its settings      *)
(* (MigrateLegacyHome in settings.go), backed up, verified and restored    *)
(* (backup.go), while a service writes objects to it, processes die        *)
(* between any two steps and media decay.                                  *)
(*                                                                         *)
(* A tree is a vault directory: the files present, the damaged ones, and   *)
(* their contents: the object index, the passphrase that opens the         *)
(* identity and a version of every object.  A digest tells all of them     *)
(* apart.  Atomic replacement (WriteFileAtomic) is one step.               *)
(***************************************************************************)
EXTENDS Integers, FiniteSets

CONSTANTS
    Processes,      \* processes that run passfs commands
    Objects, Passphrases, Nil,
    MaxVersion,     \* bound on the writes of one object
    MaxBegun,       \* bound on commands started
    MaxFaults       \* bound on crashes, failing writes and decayed files

Internal == {"config", "identity", "index"}

ASSUME VaultFilesAssumption ==
    /\ MaxVersion \in Nat /\ MaxBegun \in Nat /\ MaxFaults \in Nat
    /\ Nil \notin Passphrases
    /\ Objects \cap {"config", "identity", "index", "lock"} = {}

VARIABLES
    vault,          \* the tree of the vault
    settings,       \* a settings file exists
    home, named,    \* where the home directory is, and where settings say
    writer,         \* what the service is in the middle of
    backup,         \* the backup's tree and manifest, once published
    restored,       \* the destination of a restore
    proc,           \* progress of the commands
    accepted,       \* history: a verification of the backup succeeded
    decayed,        \* history: a file of the backup decayed
    torn,           \* history: a migration died, or did not move back
    unsynced,       \* history: a failing save had replaced the settings
    begun, faults

vars == <<vault, settings, home, named, writer, backup, restored, proc,
          accepted, decayed, torn, unsynced, begun, faults>>

(* The tree of an empty directory.                                         *)
Empty == [present |-> {}, bad |-> {}, index |-> {}, pass |-> Nil,
          version |-> [o \in Objects |-> 0]]

Absent == [shown |-> FALSE, tree |-> Empty, manifest |-> <<>>]

Operations == {"init", "passwd", "migrate", "create", "verify", "restore"}

Idle == [op |-> "init", step |-> "idle", todo |-> {}, tree |-> Empty,
         manifest |-> <<>>, pass |-> Nil]

(* What a checksum tells apart (hashRegularFile).                          *)
Digest(t, f) ==
    [bad |-> f \in t.bad,
     value |-> CASE f = "index" -> t.index
                 [] f = "identity" -> t.pass
                 [] f \in Objects -> t.version[f]
                 [] OTHER -> Nil]

(* No vault yet, or an initialised one in the old or the new home; then    *)
(* there may be a backup of it that nobody has verified yet.               *)
Init ==
    /\ settings \in BOOLEAN
    /\ home \in (IF settings THEN {"legacy", "current"} ELSE {"current"})
    /\ named = home
    /\ IF ~settings THEN vault = Empty
       ELSE \E objects \in SUBSET Objects, pass \in Passphrases :
              vault = [present |-> Internal \cup objects, bad |-> {},
                       index |-> objects, pass |-> pass,
                       version |-> [o \in Objects |-> 0]]
    /\ writer = <<>>
    /\ \/ backup = Absent
       \/ /\ settings
          /\ backup = [shown |-> TRUE, tree |-> vault,
                       manifest |-> [f \in vault.present |-> Digest(vault, f)]]
    /\ restored = Absent
    /\ proc = [p \in Processes |-> Idle]
    /\ accepted = FALSE /\ decayed = FALSE /\ torn = FALSE /\ unsynced = FALSE
    /\ begun = 0 /\ faults = 0

Initialised == Internal \subseteq vault.present /\ settings
Fault == faults < MaxFaults /\ faults' = faults + 1

At(p, op, step) == proc[p].op = op /\ proc[p].step = step
Goes(p, r) == proc' = [proc EXCEPT ![p] = r]
Step(p, step) == Goes(p, [proc[p] EXCEPT !.step = step])
Ends(p) == Goes(p, Idle)

Place == <<settings, home, named, torn, unsynced>>
Copies == <<backup, restored, accepted, decayed>>

-----------------------------------------------------------------------------
(* The service writes an object before the index that lists it, and hides  *)
(* an object before the index forgets it.  It may be started at any time.  *)

ServiceBegins(kind, o) ==
    /\ Initialised /\ writer = <<>> /\ home = named
    /\ CASE kind = "put" ->
             /\ vault.version[o] < MaxVersion
             /\ vault' = [vault EXCEPT !.present = @ \cup {o},
                                       !.bad = @ \ {o}, !.version[o] = @ + 1]
         [] kind = "remove" ->
             /\ o \in vault.index
             /\ vault' = [vault EXCEPT !.present = @ \ {o}]
    /\ writer' = <<kind, o>>
    /\ UNCHANGED <<Place, Copies, proc, begun, faults>>

ServiceEnds ==
    /\ writer # <<>>
    /\ vault' = [vault EXCEPT !.present = @ \cup {"lock"},
                   !.index = IF writer[1] = "put" THEN @ \cup {writer[2]}
                             ELSE @ \ {writer[2]}]
    /\ writer' = <<>>
    /\ UNCHANGED <<Place, Copies, proc, begun, faults>>

(* A stored file decays.                                                   *)
Decay ==
    /\ Fault
    /\ \/ \E f \in backup.tree.present :
            /\ backup' = [backup EXCEPT !.tree.bad = @ \cup {f}]
            /\ decayed' = TRUE
            /\ UNCHANGED vault
       \/ \E o \in vault.present \cap Objects :
            /\ vault' = [vault EXCEPT !.bad = @ \cup {o}]
            /\ UNCHANGED <<backup, decayed>>
    /\ UNCHANGED <<Place, writer, restored, proc, accepted, begun>>

(* A process is killed: what it staged stays behind unpublished, a vault   *)
(* or a move it had half made as it is.                                    *)
Crash(p) ==
    /\ proc[p].step # "idle" /\ Fault
    /\ torn' = (torn \/ At(p, "migrate", "save"))
    /\ Ends(p)
    /\ UNCHANGED <<vault, settings, home, named, unsynced, writer, Copies, begun>>

(* One process creates the vault at a time.                                *)
Begin(p, op) ==
    /\ proc[p].step = "idle" /\ begun < MaxBegun
    /\ begun' = begun + 1
    /\ \E pass \in Passphrases :
        LET r == [Idle EXCEPT !.op = op] IN
        CASE op = "init" ->
               /\ ~settings /\ vault.present = {}
               /\ \A q \in Processes : proc[q].op = "init" => proc[q].step = "idle"
               /\ Goes(p, [r EXCEPT !.step = "config", !.pass = pass])
          [] op = "passwd" ->
               /\ Initialised
               /\ Goes(p, [r EXCEPT !.step = "unlocked", !.pass = pass])
          [] op = "migrate" ->
               /\ settings /\ home = "legacy"
               /\ \A q \in Processes : proc[q].op = "migrate" => proc[q].step = "idle"
               /\ Goes(p, [r EXCEPT !.step = "rename"])
          [] op = "create" ->
               /\ Initialised /\ ~backup.shown
               /\ Goes(p, [r EXCEPT !.step = "list"])
          [] op \in {"verify", "restore"} ->
               /\ settings /\ backup.shown
               /\ Goes(p, [r EXCEPT !.step = "sums"])
    /\ UNCHANGED <<vault, Place, writer, Copies, faults>>

-----------------------------------------------------------------------------
(* initVolume and the end of runInit.  A failing write removes everything. *)

InitWrite(p, f, next, tree) ==
    /\ At(p, "init", f)
    /\ \/ vault' = tree /\ Step(p, next) /\ UNCHANGED faults
       \/ vault' = Empty /\ Ends(p) /\ Fault
    /\ UNCHANGED <<Place, writer, Copies, begun>>

WritePublicConfig(p) ==
    InitWrite(p, "config", "identity",
              [vault EXCEPT !.present = @ \cup {"config"}])
WriteIdentity(p) ==
    InitWrite(p, "identity", "index",
              [vault EXCEPT !.present = @ \cup {"identity"}, !.pass = proc[p].pass])
WriteMetadata(p) ==
    InitWrite(p, "index", "settings",
              [vault EXCEPT !.present = @ \cup {"index"}])

SaveFirstSettings(p) ==
    /\ At(p, "init", "settings")
    /\ \/ settings' = TRUE /\ UNCHANGED faults
       \/ Fault /\ UNCHANGED settings
    /\ Ends(p)
    /\ UNCHANGED <<vault, home, named, torn, unsynced, writer, Copies, begun>>

(* ChangePassphrase: the identity was opened with the old passphrase; the  *)
(* file sealed with the new one replaces it.                               *)
ReplaceIdentity(p) ==
    /\ At(p, "passwd", "unlocked")
    /\ \/ vault' = [vault EXCEPT !.pass = proc[p].pass] /\ UNCHANGED faults
       \/ Fault /\ UNCHANGED vault
    /\ Ends(p)
    /\ UNCHANGED <<Place, writer, Copies, begun>>

(* MigrateLegacyHome, with the service stopped: the home directory is      *)
(* renamed and the settings in it rewritten; when a step fails, it is      *)
(* renamed back, and nobody looks whether that worked.                     *)
MoveBack ==
    /\ home' \in {"legacy", "current"}
    /\ torn' = (torn \/ home' = "current")

RenameHome(p) ==
    /\ At(p, "migrate", "rename")
    /\ writer = <<>>
    /\ \/ home' = "current" /\ Step(p, "save") /\ UNCHANGED <<torn, faults>>
       \/ Fault /\ MoveBack /\ Ends(p)
    /\ UNCHANGED <<vault, settings, named, unsynced, writer, Copies, begun>>

(* WriteFileAtomic may report the directory it could not sync after the    *)
(* new settings are in place.                                              *)
FailingSave ==
    /\ Fault
    /\ named' \in {named, "current"}
    /\ unsynced' = (unsynced \/ named' = "current")

(* Mutant: a failing save leaves the directory where it is.                *)
SaveMigratedForward(p) ==
    /\ At(p, "migrate", "save")
    /\ \/ named' = "current" /\ unsynced' = FALSE /\ UNCHANGED <<home, torn, faults>>
       \/ FailingSave /\ UNCHANGED <<home, torn>>
    /\ Ends(p)
    /\ UNCHANGED <<vault, settings, writer, Copies, begun>>

SaveMigrated(p) ==
    /\ At(p, "migrate", "save")
    /\ \/ named' = "current" /\ unsynced' = FALSE /\ UNCHANGED <<home, torn, faults>>
       \/ FailingSave /\ MoveBack
    /\ Ends(p)
    /\ UNCHANGED <<vault, settings, writer, Copies, begun>>

-----------------------------------------------------------------------------
(* The checks of backup.go.                                                *)

(* copyBackupFile                                                          *)
CopyFile(f, from, to) ==
    [present |-> to.present \cup {f},
     bad |-> IF f \in from.bad THEN to.bad \cup {f} ELSE to.bad \ {f},
     index |-> IF f = "index" THEN from.index ELSE to.index,
     pass |-> IF f = "identity" THEN from.pass ELSE to.pass,
     version |-> IF f \in Objects
                 THEN [to.version EXCEPT ![f] = from.version[f]] ELSE to.version]

(* Mutant: an object the index does not know goes unnoticed.               *)
VaultIndexLenient(t) ==
    /\ "index" \in t.present \ t.bad
    /\ t.index \subseteq t.present

(* vaultIndexForVerification                                               *)
VaultIndex(t) ==
    /\ "index" \in t.present \ t.bad
    /\ t.index = t.present \cap Objects

(* LoadVolume, the identity, and every object decrypted.                   *)
Decrypts(t) ==
    /\ {"config", "identity"} \subseteq t.present \ t.bad
    /\ t.index \subseteq t.present \ t.bad

(* The checksums and validateBackupTree.                                   *)
SumsMatch(b) ==
    /\ b.shown
    /\ \A f \in DOMAIN b.manifest :
        f \in b.tree.present /\ Digest(b.tree, f) = b.manifest[f]
    /\ b.tree.present \subseteq DOMAIN b.manifest

(* A manifest with the digest of one more file.                            *)
AddDigest(m, f, digest) ==
    [g \in DOMAIN m \cup {f} |-> IF g = f THEN digest ELSE m[g]]

(* The files in the order of vaultBackupPaths: those of .passfs, then the  *)
(* objects, whose names are random.                                        *)
Earliest(todo) ==
    LET before(f) == {"config"} \cup (IF f = "config" THEN {} ELSE {"identity"})
                       \cup (IF f \in Objects THEN Internal ELSE {})
    IN {f \in todo : (before(f) \ {f}) \cap todo = {}}

-----------------------------------------------------------------------------
(* CreateBackup *)

ListVault(p) ==
    /\ At(p, "create", "list")
    /\ IF ~backup.shown /\ "config" \in vault.present \ vault.bad /\ VaultIndex(vault)
       THEN /\ vault' = [vault EXCEPT !.present = @ \cup {"lock"}]
            /\ Goes(p, [proc[p] EXCEPT !.step = "copy",
                          !.todo = Internal \cup (vault.present \cap Objects)])
       ELSE UNCHANGED vault /\ Ends(p)
    /\ UNCHANGED <<Place, writer, Copies, begun, faults>>

CopyToBackup(p) ==
    LET r == proc[p] IN
    /\ At(p, "create", "copy")
    /\ \E f \in Earliest(r.todo) :
        \/ /\ f \in vault.present
           /\ Goes(p, [r EXCEPT
                !.todo = @ \ {f},
                !.tree = CopyFile(f, vault, r.tree),
                !.manifest = AddDigest(@, f, Digest(vault, f)),
                !.step = IF r.todo = {f} THEN "publish" ELSE "copy"])
           /\ UNCHANGED faults
        \/ f \notin vault.present /\ Ends(p) /\ UNCHANGED faults
        \/ Fault /\ Ends(p)
    /\ UNCHANGED <<vault, Place, writer, Copies, begun>>

(* renameNoReplace, then createAndVerifyBackup verifies.                   *)
PublishBackup(p) ==
    LET r == proc[p] IN
    /\ At(p, "create", "publish")
    /\ IF backup.shown THEN Ends(p) /\ UNCHANGED backup
       ELSE /\ backup' = [shown |-> TRUE, tree |-> r.tree, manifest |-> r.manifest]
            /\ Goes(p, [Idle EXCEPT !.op = "create", !.step = "sums"])
    /\ UNCHANGED <<vault, Place, writer, restored, accepted, decayed, begun, faults>>

(* VerifyBackup: the checksums and the tree; then VerifyVault, which takes *)
(* the metadata lock inside the backup and so creates its file.            *)
VerifySums(p) ==
    /\ proc[p].step = "sums"
    /\ IF SumsMatch(backup) THEN Step(p, "vault") ELSE Ends(p)
    /\ UNCHANGED <<vault, Place, writer, Copies, begun, faults>>

VerifyBackupVault(p) ==
    /\ proc[p].step = "vault"
    /\ backup' = [backup EXCEPT !.tree.present = @ \cup {"lock"}]
    /\ \/ /\ VaultIndex(backup.tree) /\ Decrypts(backup.tree)
          /\ accepted' = TRUE
          /\ IF proc[p].op # "restore" THEN Ends(p)
             ELSE IF restored.shown THEN Ends(p)
             ELSE Goes(p, [proc[p] EXCEPT !.step = "copy",
                             !.manifest = backup.manifest,
                             !.todo = DOMAIN backup.manifest])
       \/ Ends(p) /\ UNCHANGED accepted   \* refused, or not authorized
    /\ UNCHANGED <<vault, Place, writer, restored, decayed, begun, faults>>

(* RestoreBackup: every copied file must have the digest of the manifest.  *)
(* Mutant: only the verification before the copy looks at the digests.     *)
CopyRestoredUnchecked(p) ==
    LET r == proc[p] IN
    /\ At(p, "restore", "copy")
    /\ \E f \in Earliest(r.todo) :
         Goes(p, [r EXCEPT !.todo = @ \ {f},
                           !.tree = CopyFile(f, backup.tree, r.tree),
                           !.step = IF r.todo = {f} THEN "publish" ELSE "copy"])
    /\ UNCHANGED <<vault, Place, writer, Copies, begun, faults>>

CopyRestored(p) ==
    LET r == proc[p] IN
    /\ At(p, "restore", "copy")
    /\ \E f \in Earliest(r.todo) :
        \/ /\ Digest(backup.tree, f) = r.manifest[f]
           /\ Goes(p, [r EXCEPT !.todo = @ \ {f},
                                !.tree = CopyFile(f, backup.tree, r.tree),
                                !.step = IF r.todo = {f} THEN "publish" ELSE "copy"])
           /\ UNCHANGED faults
        \/ Digest(backup.tree, f) # r.manifest[f] /\ Ends(p) /\ UNCHANGED faults
        \/ Fault /\ Ends(p)
    /\ UNCHANGED <<vault, Place, writer, Copies, begun>>

(* Mutant: the rename replaces what another restore published.             *)
PublishReplacing(p) ==
    /\ At(p, "restore", "publish")
    /\ restored' = [shown |-> TRUE, tree |-> proc[p].tree, manifest |-> <<>>]
    /\ Ends(p)
    /\ UNCHANGED <<vault, Place, writer, backup, accepted, decayed, begun, faults>>

PublishRestored(p) ==
    /\ At(p, "restore", "publish")
    /\ IF restored.shown THEN UNCHANGED restored
       ELSE restored' = [shown |-> TRUE, tree |-> proc[p].tree, manifest |-> <<>>]
    /\ Ends(p)
    /\ UNCHANGED <<vault, Place, writer, backup, accepted, decayed, begun, faults>>

(* The user works in a restored vault: the passphrase of it is changed.    *)
UseRestored ==
    /\ restored.shown
    /\ \E pass \in Passphrases \ {restored.tree.pass} :
         restored' = [restored EXCEPT !.tree.pass = pass,
                                      !.tree.present = @ \cup {"lock"}]
    /\ UNCHANGED <<vault, Place, writer, backup, proc, accepted, decayed, begun, faults>>

Next ==
    \/ \E kind \in {"put", "remove"}, o \in Objects : ServiceBegins(kind, o)
    \/ ServiceEnds \/ Decay \/ UseRestored
    \/ \E p \in Processes :
        \/ \E op \in Operations : Begin(p, op)
        \/ Crash(p)
        \/ WritePublicConfig(p) \/ WriteIdentity(p) \/ WriteMetadata(p)
        \/ SaveFirstSettings(p) \/ ReplaceIdentity(p)
        \/ RenameHome(p) \/ SaveMigrated(p)
        \/ ListVault(p) \/ CopyToBackup(p) \/ PublishBackup(p)
        \/ VerifySums(p) \/ VerifyBackupVault(p)
        \/ CopyRestored(p) \/ PublishRestored(p)

Spec == Init /\ [][Next]_vars

-----------------------------------------------------------------------------
(* A tree a user can work with: nothing damaged, and the index lists the   *)
(* objects.                                                                *)
Whole(t) == VaultIndex(t) /\ Decrypts(t) /\ t.pass # Nil

(* A restored vault is never partial or damaged, although the backup may   *)
(* decay while it is being copied and the process may die at any time:     *)
(* RestoreBackup compares every copy with the manifest that was verified   *)
(* and publishes with a rename.                                            *)
RestoredWhole == restored.shown => Whole(restored.tree)

(* When createAndVerifyBackup or backup verify reports success, the backup *)
(* is a consistent vault, even if a service was started behind the command *)
(* and wrote between the copies of the index and of the objects.           *)
VerifiedIsConsistent == accepted /\ ~decayed =>
    {o \in Objects : o \in backup.tree.present} = backup.tree.index
        /\ Decrypts(backup.tree)

(* The settings name the place of the home directory although             *)
(* MigrateLegacyHome may fail or be tried again at any step: a home that   *)
(* left the old place under settings that name it is being moved, or its   *)
(* migration died or could not move it back; one that is still there under *)
(* settings that name the new place was moved back after a save that had   *)
(* already replaced them, and has not been migrated since.                 *)
SettingsFollowHome ==
    \/ home = named
    \/ home = "current" /\ (torn \/ \E p \in Processes : At(p, "migrate", "save"))
    \/ home = "legacy" /\ unsynced

(* No restore replaces a vault: what is at the destination only changes by *)
(* its own use, also when two restores race (README: "PassFS never         *)
(* overwrites an existing vault").                                         *)
NeverOverwritten ==
    [][restored.shown => UseRestored \/ restored' = restored]_vars

(* README.md: "passfs backup create" followed by "passfs backup verify" of *)
(* the same directory.  A backup that verified and has not decayed         *)
(* verifies again, which a restore needs.                                  *)
VerifiesAgain == accepted /\ ~decayed => SumsMatch(backup)
=============================================================================
