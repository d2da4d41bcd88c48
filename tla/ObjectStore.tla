----------------------------- MODULE ObjectStore -----------------------------
(***************************************************************************)
(* The encrypted object store of one vault, as the processes that load it  *)
(* see it: the ciphertext of every object under objects/, the transaction  *)
(* files beside it, and metadata.json with the copy of it each process     *)
(* keeps in memory (internal/passfs/volume.go, metadata_lock.go,           *)
(* metadata_migration.go, unprotect.go, recovery.go).                      *)
(*                                                                         *)
(* A write or a removal is several file-system calls.  Any of them may     *)
(* fail, the process may die between two of them, and another process may  *)
(* load the same vault meanwhile.  What is atomic in the code is one step  *)
(* here: a rename or an exchange, and one metadata update, which holds     *)
(* metadata.lock from the read of metadata.json to its replacement.        *)
(***************************************************************************)
EXTENDS Naturals, FiniteSets

CONSTANTS
    Objects,    \* object identifiers
    Contents,   \* plaintexts; the recorded size is the plaintext it describes
    Empty,      \* the plaintext of length zero
    None,       \* no plaintext, no index entry
    NoFile,     \* no file under this name
    Procs,      \* processes that may load the vault
    Roles,      \* which commands may run, a subset of AllRoles
    Synced,     \* bound: the objects whose links the synchronizer updates
    FaultKinds, \* which faults may happen: "io", "crash"
    MaxFaults   \* bound on how many do

AllRoles == {"serve", "unprotect", "verify", "purge"}

File == [data : Contents, old : BOOLEAN]

ASSUME ConstantsAssumption ==
    /\ Empty \in Contents
    /\ None \notin Contents
    /\ NoFile \notin File
    /\ Roles \subseteq AllRoles
    /\ Synced \subseteq Objects
    /\ MaxFaults \in Nat

VARIABLES
    cipher,     \* cipher[o]: the file objects/<o>.age
    temp,       \* temp[p][o]: the .passfs-tmp-* file of p's operation on o
    litter,     \* ages of the transaction files no running operation owns
    meta,       \* metadata.json
    mem,        \* mem[p]: p's in-memory metadata
    proc,       \* proc[p]: the command p runs and how far it has loaded
    pc,         \* pc[p][o]: progress of p's operation on o
    val,        \* val[p][o]: what that operation writes, None for a removal
    was,        \* was[p][o]: what o held when the operation replaced it
    saved,      \* saved[p][o]: metadata read before the index was changed
    result,     \* result[o]: what the last operation on o returned
    faults      \* failures and crashes so far

diskVars == <<cipher, temp, litter, meta>>
opVars == <<pc, val, was, saved, result>>
vars == <<cipher, temp, litter, meta, mem, proc, pc, val, was, saved,
          result, faults>>

Sizes == Contents \cup {None}

Metadata == [files    : [Objects -> Sizes],
             links    : SUBSET Objects,
             orphaned : SUBSET Objects,
             recovery : SUBSET Objects]

NoMetadata == [files    |-> [o \in Objects |-> None],
               links    |-> {},
               orphaned |-> {},
               recovery |-> {}]

Steps == {"idle", "staged", "swapped", "indexed", "rollback",
          "parked", "unindexed", "restore", "forgotten"}

Results == {"none", "written", "unlinked", "erased", "error"}

ProcState == [role : AllRoles \cup {"none"}, phase : {"down", "cleaned", "up"}]

Down == [role |-> "none", phase |-> "down"]

TypeOK ==
    /\ cipher \in [Objects -> File \cup {NoFile}]
    /\ temp \in [Procs -> [Objects -> File \cup {NoFile}]]
    /\ litter \in SUBSET BOOLEAN
    /\ meta \in Metadata
    /\ mem \in [Procs -> Metadata]
    /\ proc \in [Procs -> ProcState]
    /\ pc \in [Procs -> [Objects -> Steps]]
    /\ val \in [Procs -> [Objects -> Sizes]]
    /\ was \in [Procs -> [Objects -> Sizes]]
    /\ saved \in [Procs -> [Objects -> Metadata]]
    /\ result \in [Objects -> Results]
    /\ faults \in 0 .. MaxFaults

Init ==
    /\ cipher = [o \in Objects |-> NoFile]
    /\ temp = [p \in Procs |-> [o \in Objects |-> NoFile]]
    /\ litter = {}
    /\ meta = NoMetadata
    /\ mem = [p \in Procs |-> NoMetadata]
    /\ proc = [p \in Procs |-> Down]
    /\ pc = [p \in Procs |-> [o \in Objects |-> "idle"]]
    /\ val = [p \in Procs |-> [o \in Objects |-> None]]
    /\ was = [p \in Procs |-> [o \in Objects |-> None]]
    /\ saved = [p \in Procs |-> [o \in Objects |-> NoMetadata]]
    /\ result = [o \in Objects |-> "none"]
    /\ faults = 0

-----------------------------------------------------------------------------
(* Updates of the metadata value, one per update function of the code.     *)

Indexed(m, o) == m.files[o] # None

(* Mutant: an existing entry keeps its size.                               *)
SetFileMetaKeepsSize(m, o, size) ==
    [files    |-> [m.files EXCEPT ![o] = IF Indexed(m, o) THEN @ ELSE size],
     links    |-> m.links,
     orphaned |-> IF Indexed(m, o) \/ o \in m.links THEN m.orphaned
                  ELSE m.orphaned \cup {o},
     recovery |-> m.recovery]

(* Mutant: the map of entries is rebuilt with the one entry.               *)
SetFileMetaDropsOthers(m, o, size) ==
    [files    |-> [NoMetadata.files EXCEPT ![o] = size],
     links    |-> m.links \cap {o},
     orphaned |-> (IF Indexed(m, o) \/ o \in m.links THEN m.orphaned
                   ELSE m.orphaned \cup {o}) \cap {o},
     recovery |-> m.recovery \cap {o}]

SetFileMeta(m, o, size) ==
    [files    |-> [m.files EXCEPT ![o] = size],
     links    |-> m.links,
     orphaned |-> IF Indexed(m, o) \/ o \in m.links THEN m.orphaned
                  ELSE m.orphaned \cup {o},
     recovery |-> m.recovery]

DeleteFileMetadata(m, o) ==
    [files    |-> [m.files EXCEPT ![o] = None],
     links    |-> m.links \ {o},
     orphaned |-> m.orphaned \ {o},
     recovery |-> m.recovery \ {o}]

SetLinkSource(m, o) ==
    [files    |-> m.files,
     links    |-> m.links \cup {o},
     orphaned |-> m.orphaned \ {o},
     recovery |-> m.recovery \ {o}]

MarkLinkRecovery(m, o) ==
    [files    |-> m.files,
     links    |-> m.links,
     orphaned |-> m.orphaned \ {o},
     recovery |-> m.recovery \cup {o}]

MarkLinkOrphan(m, o) == [m EXCEPT !.orphaned = @ \cup {o}]

ClearLinkOrphan(m, o) ==
    [m EXCEPT !.orphaned = @ \ {o}, !.recovery = @ \ {o}]

(* restoreUnprotectMetadata puts back what memory held, recovery excepted. *)
RestoreUnprotect(m, old, o) ==
    [files    |-> IF Indexed(old, o) THEN [m.files EXCEPT ![o] = old.files[o]]
                  ELSE m.files,
     links    |-> m.links \cup (old.links \cap {o}),
     orphaned |-> m.orphaned \cup (old.orphaned \cap {o}),
     recovery |-> m.recovery]

(* An unindexed ciphertext is indexed as an orphan of unknown size; an     *)
(* entry whose ciphertext is missing is kept.                              *)
Reconcile(m) ==
    LET found == {o \in Objects : cipher[o] # NoFile /\ ~Indexed(m, o)}
        known == {o \in Objects : Indexed(m, o)} \cup found
    IN  [files    |-> [o \in Objects |-> IF o \in found THEN Empty
                                         ELSE m.files[o]],
         links    |-> m.links \cap known,
         recovery |-> m.recovery \cap known,
         orphaned |-> ((m.orphaned \cup found) \cap known)
                      \ (m.recovery \cap known)]

(* Mutant: a miss reports the file found on disk, not a plaintext size.    *)
FileMetaFromCiphertext(p, o) ==
    IF Indexed(mem[p], o) THEN mem[p].files[o]
    ELSE IF Indexed(meta, o) THEN meta.files[o]
    ELSE cipher[o]

(* fileMeta: memory first, the disk on a miss, then a zero-sized default.  *)
FileMeta(p, o) ==
    IF Indexed(mem[p], o) THEN mem[p].files[o]
    ELSE IF Indexed(meta, o) THEN meta.files[o]
    ELSE Empty

Refreshed(p, o) ==
    IF Indexed(mem[p], o) THEN mem ELSE [mem EXCEPT ![p] = meta]

Fault(kind) ==
    /\ kind \in FaultKinds
    /\ faults < MaxFaults
    /\ faults' = faults + 1

(* updateMetadataLocked: published in memory only after it is on disk.     *)
Saves(p, m) ==
    /\ meta' = m
    /\ mem' = [mem EXCEPT ![p] = m]

(* The save fails before metadata.json is replaced, or after it, when only *)
(* the directory sync or the unlock reports the error.                     *)
FailsToSave(p, m) ==
    /\ meta' \in {meta, m}
    /\ UNCHANGED mem

Saved(p, m) == Saves(p, m) /\ UNCHANGED faults

SaveFails(p, m) == Fault("io") /\ FailsToSave(p, m)

-----------------------------------------------------------------------------
(* Processes.                                                              *)

Running(p) == proc[p].phase = "up"

HoldsInstanceLock(p) == proc[p].role \in {"serve", "unprotect"}

Idle(p) == \A o \in Objects : pc[p][o] = "idle"

Aged(f) == IF f = NoFile THEN NoFile ELSE [f EXCEPT !.old = TRUE]

(* A day passes.  No operation takes that long.                            *)
DayPasses ==
    /\ \A p \in Procs : Idle(p)
    /\ cipher' = [o \in Objects |-> Aged(cipher[o])]
    /\ litter' = {TRUE : age \in litter}
    /\ UNCHANGED <<temp, meta, mem, proc, opVars, faults>>

StaleTemp(f) == f # NoFile /\ f.old

(* LoadVolume, first half: cleanupStaleTemporaryFiles.  The server and     *)
(* unprotect hold the instance lock; purge has seen no mount.              *)
LoadCleanup(p, role) ==
    /\ proc[p] = Down
    /\ role \in {"serve", "unprotect"} =>
          \A q \in Procs : ~HoldsInstanceLock(q)
    /\ role = "purge" => \A q \in Procs : proc[q].role # "serve"
    /\ proc' = [proc EXCEPT ![p] = [role |-> role, phase |-> "cleaned"]]
    /\ temp' = [q \in Procs |-> [o \in Objects |->
                  IF StaleTemp(temp[q][o]) THEN NoFile ELSE temp[q][o]]]
    /\ litter' = litter \ {TRUE}
    /\ UNCHANGED <<cipher, meta, mem, opVars, faults>>

(* LoadVolume, second half: loadMetadata under metadata.lock.              *)
LoadMetadata(p) ==
    /\ proc[p].phase = "cleaned"
    /\ \/ /\ Saved(p, Reconcile(meta))
          /\ proc' = [proc EXCEPT ![p] = [role |-> proc[p].role,
                                            phase |-> "up"]]
       \/ /\ SaveFails(p, Reconcile(meta))
          /\ proc' = [proc EXCEPT ![p] = Down]
    /\ UNCHANGED <<cipher, temp, litter, opVars>>

(* refreshMetadata; flushing access times ends in the same state.          *)
RefreshMetadata(p) ==
    /\ Running(p) /\ proc[p].role = "serve"
    /\ mem' = [mem EXCEPT ![p] = meta]
    /\ UNCHANGED <<diskVars, proc, opVars, faults>>

Abandoned(p) == {temp[p][o].old : o \in {x \in Objects : temp[p][x] # NoFile}}

ForgetProcess(p) ==
    /\ proc' = [proc EXCEPT ![p] = Down]
    /\ mem' = [mem EXCEPT ![p] = NoMetadata]
    /\ saved' = [saved EXCEPT ![p] = [o \in Objects |-> NoMetadata]]

(* The process ends between operations.                                    *)
Exit(p) ==
    /\ proc[p] # Down
    /\ Idle(p)
    /\ ForgetProcess(p)
    /\ UNCHANGED <<diskVars, pc, val, was, result, faults>>

(* The process dies in the middle of its operations.                       *)
Crash(p) ==
    /\ ~Idle(p)
    /\ Fault("crash")
    /\ ForgetProcess(p)
    /\ litter' = litter \cup Abandoned(p)
    /\ temp' = [temp EXCEPT ![p] = [o \in Objects |-> NoFile]]
    /\ result' = [o \in Objects |-> IF pc[p][o] = "idle" THEN result[o]
                                    ELSE "error"]
    /\ pc' = [pc EXCEPT ![p] = [o \in Objects |-> "idle"]]
    /\ val' = [val EXCEPT ![p] = [o \in Objects |-> None]]
    /\ was' = [was EXCEPT ![p] = [o \in Objects |-> None]]
    /\ UNCHANGED <<cipher, meta>>

-----------------------------------------------------------------------------
(* Operations on one object.                                               *)

Holds(o) == IF cipher[o] = NoFile THEN None ELSE cipher[o].data

Begin(p, o, step, v) ==
    /\ pc' = [pc EXCEPT ![p] = [pc[p] EXCEPT ![o] = step]]
    /\ val' = [val EXCEPT ![p] = [val[p] EXCEPT ![o] = v]]
    /\ was' = [was EXCEPT ![p] = [was[p] EXCEPT ![o] = Holds(o)]]
    /\ result' = [result EXCEPT ![o] = "none"]

Advance(p, o, step) ==
    /\ pc' = [pc EXCEPT ![p] = [pc[p] EXCEPT ![o] = step]]
    /\ UNCHANGED <<val, was, result>>

Return(p, o, r) ==
    /\ pc' = [pc EXCEPT ![p] = [pc[p] EXCEPT ![o] = "idle"]]
    /\ val' = [val EXCEPT ![p] = [val[p] EXCEPT ![o] = None]]
    /\ was' = [was EXCEPT ![p] = [was[p] EXCEPT ![o] = None]]
    /\ saved' = [saved EXCEPT ![p] = [saved[p] EXCEPT ![o] = NoMetadata]]
    /\ result' = [result EXCEPT ![o] = r]

SetTemp(p, o, f) == temp' = [temp EXCEPT ![p] = [temp[p] EXCEPT ![o] = f]]

SetCipher(o, f) == cipher' = [cipher EXCEPT ![o] = f]

(* os.Remove of a transaction file, whose error the code ignores.          *)
DropTemp(p, o, f) ==
    /\ SetTemp(p, o, NoFile)
    /\ \/ UNCHANGED litter
       \/ f # NoFile /\ litter' = litter \cup {f.old}

SetSaved(p, o, m) == saved' = [saved EXCEPT ![p] = [saved[p] EXCEPT ![o] = m]]

Removing(p) == \E o \in Objects : pc[p][o] \in {"parked", "unindexed", "restore"}

(* persistFile.  A writable handle holds the path lock and the namespace   *)
(* read lock, so one operation of a process touches an object at a time    *)
(* and none runs while the process unlinks.  (A read-only handle made      *)
(* dirty by fchmod persists without these locks; HandleLocks has it.)      *)
PersistStage(p, o, c) ==
    /\ Running(p) /\ proc[p].role = "serve"
    /\ pc[p][o] = "idle" /\ ~Removing(p)
    /\ Begin(p, o, "staged", c)
    /\ SetTemp(p, o, [data |-> c, old |-> FALSE])
    /\ UNCHANGED <<cipher, litter, meta, mem, proc, saved, faults>>

(* Writing, syncing or renaming the new ciphertext fails.                  *)
PersistAbort(p, o) ==
    /\ pc[p][o] = "staged"
    /\ Fault("io")
    /\ DropTemp(p, o, temp[p][o])
    /\ Return(p, o, "error")
    /\ UNCHANGED <<cipher, meta, mem, proc>>

(* exchangePaths over an existing ciphertext, renameNoReplace otherwise.   *)
PersistSwap(p, o) ==
    /\ pc[p][o] = "staged"
    /\ temp[p][o] # NoFile
    /\ SetCipher(o, temp[p][o])
    /\ SetTemp(p, o, cipher[o])
    /\ pc' = [pc EXCEPT ![p] = [pc[p] EXCEPT ![o] = "swapped"]]
    /\ was' = [was EXCEPT ![p] = [was[p] EXCEPT ![o] = Holds(o)]]
    /\ UNCHANGED <<litter, meta, mem, proc, val, saved, result, faults>>

PersistIndex(p, o) ==
    /\ pc[p][o] = "swapped"
    /\ Saved(p, SetFileMeta(meta, o, val[p][o]))
    /\ Advance(p, o, "indexed")
    /\ UNCHANGED <<cipher, temp, litter, proc, saved>>

(* syncDirectory or setFileMeta fails.                                     *)
PersistIndexFails(p, o) ==
    /\ pc[p][o] = "swapped"
    /\ SaveFails(p, SetFileMeta(meta, o, val[p][o]))
    /\ Advance(p, o, "rollback")
    /\ UNCHANGED <<cipher, temp, litter, proc, saved>>

PreviousExists(p, o) == was[p][o] # None

(* Mutant: a rollback always removes the path, whatever was there before.  *)
PersistRollbackRemoves(p, o) ==
    /\ pc[p][o] = "rollback"
    /\ cipher[o] # NoFile
    /\ SetCipher(o, NoFile)
    /\ DropTemp(p, o, temp[p][o])
    /\ Return(p, o, "error")
    /\ UNCHANGED <<meta, mem, proc, faults>>

(* rollbackPersistedFile, and the deferred removal of the new ciphertext.  *)
PersistRollback(p, o) ==
    /\ pc[p][o] = "rollback"
    /\ cipher[o] # NoFile
    /\ \/ /\ PreviousExists(p, o) /\ temp[p][o] # NoFile
          /\ DropTemp(p, o, cipher[o])
       \/ ~PreviousExists(p, o) /\ UNCHANGED <<temp, litter>>
    /\ SetCipher(o, temp[p][o])
    /\ Return(p, o, "error")
    /\ UNCHANGED <<meta, mem, proc, faults>>

(* The rollback fails: the deferred removal deletes the previous           *)
(* ciphertext and the new one stays under the object's name.               *)
PersistRollbackFails(p, o) ==
    /\ pc[p][o] = "rollback"
    /\ \/ Fault("io")
       \/ /\ \/ PreviousExists(p, o) /\ temp[p][o] = NoFile
             \/ cipher[o] = NoFile
          /\ UNCHANGED faults
    /\ DropTemp(p, o, temp[p][o])
    /\ Return(p, o, "error")
    /\ UNCHANGED <<cipher, meta, mem, proc>>

(* Remove the previous ciphertext and sync; an error of either is returned *)
(* although the write took effect.                                         *)
PersistFinish(p, o) ==
    /\ pc[p][o] = "indexed"
    /\ \/ /\ PreviousExists(p, o) => temp[p][o] # NoFile
          /\ SetTemp(p, o, NoFile)
          /\ Return(p, o, "written")
          /\ UNCHANGED <<litter, faults>>
       \/ /\ \/ Fault("io")
             \/ PreviousExists(p, o) /\ temp[p][o] = NoFile /\ UNCHANGED faults
          /\ DropTemp(p, o, temp[p][o])
          /\ Return(p, o, "error")
    /\ UNCHANGED <<cipher, meta, mem, proc>>

(* FileSystem.SetAttributes on a path with no writable handle: the         *)
(* metadata of memory, re-recorded under the path lock.                    *)
Chmod(p, o) ==
    /\ Running(p) /\ proc[p].role = "serve"
    /\ pc[p][o] = "idle" /\ ~Removing(p)
    /\ cipher[o] # NoFile
    /\ LET m == SetFileMeta(meta, o, FileMeta(p, o))
       IN  \/ Saved(p, m)
           \/ Fault("io") /\ meta' \in {meta, m} /\ mem' = Refreshed(p, o)
    /\ UNCHANGED <<cipher, temp, litter, proc, opVars>>

(* removeProtectedFileLocked, for Unlink of the mount and for a purge of   *)
(* an object that memory lists in recovery.                                *)
RemovePark(p, o) ==
    /\ Running(p)
    /\ \/ proc[p].role = "serve"
       \/ proc[p].role = "purge" /\ o \in mem[p].recovery
    /\ Idle(p)
    /\ cipher[o] # NoFile
    /\ Begin(p, o, "parked", None)
    /\ SetSaved(p, o, SetFileMeta(NoMetadata, o, FileMeta(p, o)))
    /\ SetTemp(p, o, cipher[o])
    /\ SetCipher(o, NoFile)
    /\ mem' = Refreshed(p, o)
    /\ UNCHANGED <<litter, meta, proc, faults>>

RemoveUnindex(p, o) ==
    /\ pc[p][o] = "parked"
    /\ Saved(p, DeleteFileMetadata(meta, o))
    /\ Advance(p, o, "unindexed")
    /\ UNCHANGED <<cipher, temp, litter, proc, saved>>

(* Mutant: the error of removeFileMeta is ignored.                         *)
RemoveUnindexIgnoresError(p, o) ==
    /\ pc[p][o] = "parked"
    /\ SaveFails(p, DeleteFileMetadata(meta, o))
    /\ Advance(p, o, "unindexed")
    /\ UNCHANGED <<cipher, temp, litter, proc, saved>>

RemoveUnindexFails(p, o) ==
    /\ pc[p][o] = "parked"
    /\ SaveFails(p, DeleteFileMetadata(meta, o))
    /\ Advance(p, o, "restore")
    /\ UNCHANGED <<cipher, temp, litter, proc, saved>>

(* The parked ciphertext is deleted; only the last directory sync can      *)
(* still report an error.                                                  *)
RemoveFinish(p, o) ==
    /\ pc[p][o] = "unindexed"
    /\ temp[p][o] # NoFile
    /\ SetTemp(p, o, NoFile)
    /\ \/ Return(p, o, "unlinked") /\ UNCHANGED faults
       \/ Return(p, o, "error") /\ Fault("io")
    /\ UNCHANGED <<cipher, litter, meta, mem, proc>>

(* Deleting it fails: the index entry is written back from memory.         *)
RemoveFinishFails(p, o) ==
    /\ pc[p][o] = "unindexed"
    /\ LET m == SetFileMeta(meta, o, saved[p][o].files[o])
       IN  \/ temp[p][o] = NoFile /\ Saved(p, m)
           \/ Fault("io") /\ (Saves(p, m) \/ FailsToSave(p, m))
    /\ Advance(p, o, "restore")
    /\ UNCHANGED <<cipher, temp, litter, proc, saved>>

(* restoreRemovedFile: rename back without replacing.                      *)
RemoveRestore(p, o) ==
    /\ pc[p][o] = "restore"
    /\ temp[p][o] # NoFile /\ cipher[o] = NoFile
    /\ SetCipher(o, temp[p][o])
    /\ SetTemp(p, o, NoFile)
    /\ Return(p, o, "error")
    /\ UNCHANGED <<litter, meta, mem, proc, faults>>

RemoveRestoreFails(p, o) ==
    /\ pc[p][o] = "restore"
    /\ \/ (temp[p][o] = NoFile \/ cipher[o] # NoFile) /\ UNCHANGED faults
       \/ Fault("io")
    /\ SetTemp(p, o, NoFile)
    /\ litter' = IF temp[p][o] = NoFile THEN litter
                 ELSE litter \cup {temp[p][o].old}
    /\ Return(p, o, "error")
    /\ UNCHANGED <<cipher, meta, mem, proc>>

(* removeMaterializedCiphertext, after the plaintext is durable: index     *)
(* first, ciphertext second.                                               *)
UnprotectUnindex(p, o) ==
    /\ Running(p) /\ proc[p].role = "unprotect"
    /\ Idle(p)
    /\ cipher[o] # NoFile
    /\ Indexed(mem[p], o) /\ o \in mem[p].links
    /\ Saved(p, DeleteFileMetadata(meta, o))
    /\ SetSaved(p, o, mem[p])
    /\ Begin(p, o, "forgotten", None)
    /\ UNCHANGED <<cipher, temp, litter, proc>>

UnprotectUnindexFails(p, o) ==
    /\ Running(p) /\ proc[p].role = "unprotect"
    /\ Idle(p)
    /\ cipher[o] # NoFile
    /\ Indexed(mem[p], o) /\ o \in mem[p].links
    /\ SaveFails(p, DeleteFileMetadata(meta, o))
    /\ result' = [result EXCEPT ![o] = "error"]
    /\ UNCHANGED <<cipher, temp, litter, proc, pc, val, was, saved>>

UnprotectErase(p, o) ==
    /\ pc[p][o] = "forgotten"
    /\ SetCipher(o, NoFile)
    /\ Return(p, o, "erased")
    /\ UNCHANGED <<temp, litter, meta, mem, proc, faults>>

UnprotectEraseFails(p, o) ==
    /\ pc[p][o] = "forgotten"
    /\ Fault("io")
    /\ LET m == RestoreUnprotect(meta, saved[p][o], o)
       IN  Saves(p, m) \/ FailsToSave(p, m)
    /\ Return(p, o, "error")
    /\ UNCHANGED <<cipher, temp, litter, proc>>

(* Mutant: the link is recorded without looking the object up.             *)
RegisterLinkUnchecked(o) ==
    /\ meta' = SetLinkSource(meta, o)
    /\ UNCHANGED <<cipher, temp, litter, mem, proc, opVars, faults>>

(* RegisterProtectedLinkInVault and RestoreRecoveryLink run in a process   *)
(* that keeps no Volume.                                                   *)
RegisterLink(o) ==
    /\ Indexed(meta, o)
    /\ meta' = SetLinkSource(meta, o)
    /\ UNCHANGED <<cipher, temp, litter, mem, proc, opVars, faults>>

(* The link synchronizer of the server records what it found: the link     *)
(* moved (setLinkSource), is missing (markLinkOrphan), is in place again   *)
(* (clearLinkOrphan), or was trashed or replaced (markLinkRecovery).  Two  *)
(* of them look at memory first and return early.                          *)
UpdateLink(p, m) ==
    /\ Running(p) /\ proc[p].role = "serve"
    /\ Saved(p, m) \/ SaveFails(p, m)
    /\ UNCHANGED <<cipher, temp, litter, proc, opVars>>

MoveLink(p, o) == Indexed(meta, o) /\ UpdateLink(p, SetLinkSource(meta, o))

MarkOrphan(p, o) ==
    /\ o \notin mem[p].orphaned /\ Indexed(meta, o)
    /\ UpdateLink(p, MarkLinkOrphan(meta, o))

ClearOrphan(p, o) ==
    /\ o \in mem[p].orphaned \cup mem[p].recovery
    /\ UpdateLink(p, ClearLinkOrphan(meta, o))

MarkRecovery(p, o) ==
    /\ Indexed(meta, o) /\ o \in meta.links \cup meta.recovery
    /\ UpdateLink(p, MarkLinkRecovery(meta, o))

-----------------------------------------------------------------------------
Persist(p, o) ==
    \/ \E c \in Contents : PersistStage(p, o, c)
    \/ PersistAbort(p, o) \/ PersistSwap(p, o)
    \/ PersistIndex(p, o) \/ PersistIndexFails(p, o)
    \/ PersistRollback(p, o) \/ PersistRollbackFails(p, o)
    \/ PersistFinish(p, o)

Remove(p, o) ==
    \/ RemovePark(p, o)
    \/ RemoveUnindex(p, o) \/ RemoveUnindexFails(p, o)
    \/ RemoveFinish(p, o) \/ RemoveFinishFails(p, o)
    \/ RemoveRestore(p, o) \/ RemoveRestoreFails(p, o)

Unprotect(p, o) ==
    \/ UnprotectUnindex(p, o) \/ UnprotectUnindexFails(p, o)
    \/ UnprotectErase(p, o) \/ UnprotectEraseFails(p, o)

SyncLink(p, o) ==
    \/ MoveLink(p, o) \/ MarkOrphan(p, o)
    \/ ClearOrphan(p, o) \/ MarkRecovery(p, o)

Process(p) ==
    \/ \E role \in Roles : LoadCleanup(p, role)
    \/ LoadMetadata(p) \/ RefreshMetadata(p) \/ Exit(p) \/ Crash(p)

Next ==
    \/ DayPasses
    \/ \E p \in Procs : Process(p)
    \/ \E p \in Procs, o \in Objects :
          \/ Persist(p, o) \/ Remove(p, o) \/ Unprotect(p, o)
          \/ Chmod(p, o)
    \/ \E p \in Procs, o \in Synced : SyncLink(p, o)
    \/ \E o \in Objects : RegisterLink(o)

Spec == Init /\ [][Next]_vars

-----------------------------------------------------------------------------
(* Properties.                                                             *)

(* The replacement requests in progress on o, as the contract sees them.   *)
Requests(o) == {[from |-> was[p][o], to |-> val[p][o]] :
                  p \in {q \in Procs : pc[q][o] # "idle"}}

Succeeded == {"written", "unlinked", "erased"}

Store == [o \in Objects |-> Holds(o)]

Request == [o \in Objects |-> Requests(o)]

Outcome == [o \in Objects |-> IF result[o] \in Succeeded THEN "ok"
                               ELSE result[o]]

Contract == INSTANCE VaultContract WITH
    store <- Store, request <- Request, outcome <- Outcome

(* persistFile, removeProtectedFileLocked and removeMaterializedCiphertext *)
(* keep the contract: whatever fails, whoever dies and whoever else loads  *)
(* the vault, an object holds its old or its new contents.                 *)
KeepsContract == Contract!Spec

(* Once persistFile has returned nil, the object's ciphertext is in place  *)
(* and metadata.json records its size, until the next operation on that    *)
(* object: no metadata update of any process on any other object, no load  *)
(* and no chmod loses the entry.                                           *)
AcknowledgedWriteIndexed ==
    \A o \in Objects : result[o] = "written" =>
        cipher[o] # NoFile /\ meta.files[o] = cipher[o].data

(* Once removeProtectedFileLocked has returned nil, no ciphertext and no   *)
(* record of the object comes back, whatever loads or updates run beside.  *)
UnlinkedStaysForgotten ==
    \A o \in Objects : result[o] = "unlinked" =>
        /\ cipher[o] = NoFile
        /\ ~Indexed(meta, o)
        /\ o \notin meta.links \cup meta.orphaned \cup meta.recovery

(* A link, orphan or recovery record always belongs to an indexed object,  *)
(* on disk and in the memory of every process: what vault verification     *)
(* calls a reference to an unknown object cannot be produced.              *)
NoDanglingRecord ==
    \A m \in {meta} \cup {mem[p] : p \in Procs} :
        \A o \in m.links \cup m.orphaned \cup m.recovery : Indexed(m, o)

=============================================================================
