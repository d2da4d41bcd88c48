# PassFS: TLA+ models, model checking and proofs

PassFS keeps files encrypted with age in a *vault* and shows them, decrypted,
through a mounted file system (FUSE on Linux, FSKit on macOS). Project
directories hold symbolic links to the mounted files. A read asks the user for
authorization; the answer may be cached for a while. This directory holds models
of the parts of PassFS whose correctness depends on orders of events that tests
hardly reach: several processes on one vault, failures and crashes between the
file-system calls of one operation, goroutines of one service, timers and
prompts, and a user who keeps working on the files meanwhile.

Source paths below are relative to `src/`.

## 1. Inventory

| Component | State | Operations | Interacts with | Modules |
|---|---|---|---|---|
| Object store and metadata index (`internal/passfs/volume.go`, `config.go`, `metadata_lock.go`) | `objects/*.age`, `.passfs-tmp-*`, `metadata.json`, each process's `Volume.metadata` | `persistFile`, `removeProtectedFileLocked`, the metadata updates, load, cleanup, refresh | all commands through `metadata.lock`; the service through the instance lock | `VaultContract`, `ObjectStore` |
| Namespace and path locks (`volume.go`, `file_handle.go`, `filesystem.go`) | `namespaceMu`, path locks, open handles | open, create, flush, close, unlink, chmod, reconfigure | kernel requests, one goroutine each | `HandleLocks` |
| Open file handle (`file_handle.go`, `append_workaround_*.go`) | plaintext, dirty flag, pending writes | write, truncate, flush, close | object store | `OpenHandle` |
| Authorization (`volume.go`, `edit_session.go`, `encrypt_session.go`, `system_sleep_monitor_darwin.go`) | cached identity, `authorized`, timer, sessions, monitor goroutines | unlock, begin and end a session, `Lock`, reconfigure, expiry | prompt backends, client processes, system sleep | `Authorization` |
| Link synchronizer, recovery of links (`links.go`, `link_tracker*.go`, `link_change_watcher_linux.go`, `symlink.go`, `recovery.go`) | link, orphan and recovery records, kernel references, watches, grace periods | prepare, pass, retire, adopt, restore | index, project directories, the user | `LinkSync` |
| Import, edit, unprotect, registration (`import.go`, `unprotect.go`, `symlink.go`, `object_index.go`, `link_registration.go`) | the project path, the protected copy, private staging directories | `encrypt`, `edit`, `unprotect` | mount, index, the user | `ProjectFile`; `ObjectStore` for the ciphertext |
| Backup, verification, restore, creation, passphrase, migration of the home (`backup.go`, `config.go`, `settings.go`, `cmd/passfs/backup.go`) | the files of a vault, a backup and its manifest, a restored vault | `init`, `passwd`, `backup create`, `verify`, `restore`, `MigrateLegacyHome` | a service that writes | `VaultFiles` |
| Service lifecycle, settings, vault selection (`instance_lock.go`, `cmd/passfs/main.go`, `backup.go`, `recovery.go`, `service_linux.go`, `filesystem_adapter_fuse.go`) | settings file, unit, serving process, instance lock, mount | `mount`, `reload`, `unmount`, `config`, `backup`, `purge`, `unprotect`, activation of a vault | systemd, every command | `Service` |
| FSKit extension and bridge (`native/fskit`, `cmd/passfs-fskit-bridge`) | item cache, one shared handle per item, registries of file systems and handles | lookup, open, close, create, remove, read, write, truncate, reclaim, shutdown | kernel, volume | `FSKitVolume` |
| FUSE adapter, authorization broker and Touch ID, prompts, application agent, updater, scanner, menu bar, packaging, version-1 migration | see section 7 | | | none |

What makes these hard:

* *Several processes.* The service holds the instance lock and so does
  `unprotect`, but `vault verify`, link registration and `recovery purge` do
  not. Every process keeps a copy of the metadata in memory. Loading a vault
  deletes old transaction files and rewrites `metadata.json`.
* *Several steps per operation.* A write is: stage, exchange, index, delete the
  old file. A removal is: park, unindex, delete. An import is: copy, exchange,
  validate, register. Each step can fail, each failure has a rollback that can
  fail too, and the process can die anywhere.
* *Locks held from open to close*, by clients the service does not control, and
  on macOS a second layer of locks above them.
* *Decisions before a lock and effects after it*: the append workaround, the
  approval of a prompt, the look at the mount before a purge or a reload.
* *Another actor on the same files*: the user moves, copies, saves and deletes
  links and sources between any two system calls.
* *Timers and goroutines* that outlive the state they were started for.

The hazards, each at its line with the properties that cover it, are in
`PROJECT.json`.

## 2. Modules

| Module | Models |
|---|---|
| `VaultContract` | the abstract promise of the object store: every write or removal is one atomic replacement of one object's contents |
| `ObjectStore` | the object store in its steps, with processes, failures, crashes |
| `ObjectStoreProofs` | proofs about it: types; the contract and the index |
| `HandleLocks` | `namespaceMu`, the path locks and the handles that hold them |
| `OpenHandle` | one open handle under concurrent calls, byte by byte |
| `HandleProofs` | proofs about both |
| `Authorization` | the cache, the sessions, the prompts and their goroutines |
| `AuthorizationProofs` | proofs about it |
| `LinkSync` | the link synchronizer and the user's project directories |
| `LinkSyncProofs` | proofs about it |
| `ProjectFile` | one project path under `encrypt`, `edit` and `unprotect` |
| `ProjectFileProofs` | proofs about it |
| `Service` | the commands that start, stop and configure the service |
| `ServiceProofs` | proofs about it |
| `VaultFiles` | a vault, its backup and its restored copy, file by file |
| `VaultFilesProofs` | proofs about it |
| `FSKitVolume` | the macOS extension and bridge above the volume's locks |
| `FSKitVolumeProofs` | proofs about it |
| `MC*` | symmetry sets and constant values for TLC |

Each module takes from the ones below it what they have shown: `HandleLocks`
flushes in one step because `ObjectStore` shows that a flush is atomic;
`ProjectFile` has an atomic vault behind the mount for the same reason; the
offline work of `Service` is one step because `ObjectStore`, `ProjectFile` and
`VaultFiles` model its contents; `FSKitVolume` keeps of the volume only the path
lock of a handle and the `TryLock` of unlink.

In each module a definition called "Mutant" in its comment is a deliberately
wrong variant of the definition that follows it; nothing uses it except the
mutation runs that show that a property can fail. Variables marked *history*
are read by properties only.

### ObjectStore

* `cipher[o]` is `objects/<o>.age`: its plaintext and whether its modification
  time is more than a day old. `temp[p][o]` is the transaction file of p's
  running operation on o. `litter` are the ages of transaction files that belong
  to nobody. `meta` is `metadata.json`, `mem[p]` is p's `Volume.metadata`.
* The recorded size of an object is represented by the plaintext it was
  computed from; the other fields of `FileMeta` (mode, times, inode) are not
  kept. `Empty` is the size the code gives an object it finds unindexed.
* One step is what the operating system or `metadata.lock` makes atomic: one
  rename or exchange, one read-modify-write of `metadata.json`. `staged` covers
  everything from `CreateTemp` to the close of the temporary file.
* A failing save may have replaced `metadata.json` or not, because
  `WriteFileAtomic` can fail in the directory sync after the rename.
* `was`, `val` and `result` are history: what the operation replaces, what it
  writes and what it returned.
* `DayPasses` ages every file. It requires that no operation is running: no
  operation takes a day.
* Only the service writes objects; `unprotect` removes them; `verify` stands for
  every command that loads the vault without the instance lock and changes
  nothing else (`vault verify`, status commands); `purge` is `recovery purge`.
* `RegisterLink` runs in a process without a `Volume` and so has no `mem`.
* `MoveLink`, `MarkOrphan`, `ClearOrphan`, `MarkRecovery` are the four index
  updates of the link synchronizer and may happen at any time; `LinkSync` models
  when it makes them.
* A writable handle holds the path lock and the namespace lock, so at most one
  operation of a process runs on one object; that `HandleLocks` shows.
* `VaultContract` allows a request that fails to leave the *new* state. The
  cleanup needs it: rename and exchange keep the modification time, so the
  parked ciphertext of an object last written over a day ago counts as stale at
  once, and a `vault verify` that loads meanwhile deletes it. A removal that has
  to be undone then reports an error although the object is gone.

### HandleLocks

Each member of `Handles` is a request in flight that may become an open handle.
`step` follows `acquireOpenLock`, `acquirePathLock`, `loadExistingFile` or
`createFile`, and `finishFileOpen`. The read-write locks are modelled as Go's: a
waiting writer is announced (`nsPending`, `pathPending`) and keeps new readers
out. `Unlink` uses `TryLock` and returns `EBUSY`. `limit` is `maxFileSize`, large
or small, and `Large` are the contents that exceed the small one. A read-only
handle that `fchmod` makes dirty flushes without `namespaceMu`, so an unlink may
come between; the properties are about writable handles.

### OpenHandle

`plaintext` (`OpenFile.data`) is a sequence of cells that name the write that
filled them, so that overwriting is visible; `unsaved` is `OpenFile.dirty`, and
`Writes` are the calls. Its names differ from those of `HandleLocks`, so that
`HandleProofs` extends both. `Write` is three steps: the atomic increment of
`pendingWrites` before the mutex, the body under the mutex, the decrement
after it. `append` says whether the kernel passed `O_APPEND` at open; `Workaround`
is the darwin build. `place[c]` is history: the cells of a finished append.

### Authorization

`request[r]` follows one call of `unlockIdentityForRequest`, and for a session
`beginEditSession` or `beginEncryptSession` around it. `holder` is the request
that keeps `unlockMu` while the user is asked; every action that locks
`unlockMu` requires that nobody holds it. Timers and expiry times count down in
`Tick`, with no absolute clock. `callbacks` counts timer functions that have
started and wait for `unlockMu`, which `Timer.Stop` cannot take back. `done[t]` is
the session's channel, `monitor` the goroutine that waits for the owner's
exit. `stale` is history: which discards came after the user's approval.

Assumptions: a process identifier is not reused while the volume refers to it;
session tokens, 16 random bytes, do not repeat.

### LinkSync

* `files` maps paths `<<directory, name>>` to nothing, a link to an object or a
  regular file, each with an inode number; `dirs` are the existing directories.
  `tracker[o]` is the inode that the kernel reference of o's link keeps, through
  which its present path is found (`PathOf`). `watched` and `event` are the
  watcher's subscriptions and its notification channel of length one. `meta`
  holds the source, the orphan mark (`recent` until the grace period is over)
  and the recovery state of each object.
* `Prepare` and `Reconcile` are the start of `Run`; then a pass takes the records
  in order of their keys. Every read of the code is a step of its own:
  `Inspect` looks at the recorded path, `TrackState` at the reference,
  `SearchScan` lists one directory, `InspectMoved` looks again at what the
  search found. The rest acts on what was read: `RetargetExchange`,
  `RetargetValidate`, `RetargetRollback` and `RetargetDiscard` (exchange a new
  link with whatever is at the path, look at what was displaced, remove it or
  exchange again, remove the private directory with all that is in it),
  `RetireStage` and `RetireValidate` (rename away, look, put back),
  `RecordConflict`, `AdoptMoved`, `EndPass` with the directory moves that two
  links confirm. `Staging` are the names of private directories.
* The user moves, copies, deletes and replaces links, renames directories, and
  saves the way editors do: by a new file renamed over the link, or by renaming
  the link away first.
* `Stop`, `WatcherError` and `ReconcileUnwatched` are the faults: a restart, a
  watcher that breaks, subscriptions that fail. A directory may also turn out
  unreadable during the search.
* A pass holds the link reconciliation lock, which `RestoreRecoveryLink` takes
  too, so the index changes during a pass only by the pass itself.
* History: `deleted` are the objects whose link the user deleted or replaced,
  `raced` those whose link moved while a pass was at work, `rebased` those whose
  record a pass carried to a path that names something else, `owned` the inodes
  of the user's own files, `overtaken` what was at the path when a second
  exchange took it away, unless it was the link of the first one.
* `overtaken` is needed because the second exchange does not look: what the user
  has put at the path since the first one goes into the private directory, which
  is then deleted. `UserFilesKept` exempts exactly these entries, and without
  the exemption it is not true of the code (section 3).
* `rebased` is needed because `rebaseLinkSources` does not look. When two links
  have left a directory for another one and the directory is gone, every other
  record below it follows; if the user has taken the third link away first and
  then put a file of the same name into the new directory, the record now names
  that file, and the next pass retires the link as replaced. It takes three
  user actions in one pass: with `MaxUser = 3` TLC refutes `RecoveryHasCause`
  without `rebased`.

### ProjectFile

* `path` is what the project path names; `staged[c]` what command c has in its
  private directory next to it; `leftover` what no running command will clean
  up. Every save by the user is a new version, so equal versions mean equal
  contents and times; `by` stands for the inode that `os.SameFile` compares: the
  number of the run that created the file, 0 for the user's own.
* `encrypt` goes `Classify`, `Resolve` (a registered object, an import that was
  interrupted, or a new one), `ReadSource`, `CreateTarget`, `WriteTarget`,
  `Recheck`, `Exchange`, `ValidateDisplaced`, and `Rollback` and `UndoTarget` or
  `Register`. `edit` is `ReconcileProtectedEdit` after the editor. `unprotect` is
  `DecryptFile`, `StagePlaintext`, `InstallPlaintext`, `CheckDisplacedLink`,
  `RemoveCiphertext`. Each can fail or be killed.
* History: `latest` is the version that must not be lost; it follows saves and
  the user's own deletions. `blind` is set when a removal hits something that
  has changed since the command last looked: there is no system call with which
  the code could avoid that, and two commands on one object share no lock. An
  object counts as changed when another command works on it or when the path, or
  anything a command has put aside, is a link to it (`Named`). The second half
  matters with three commands: one has the link aside between `InstallPlaintext`
  or `Exchange` and the step that puts it back, and the object behind the link
  is removed meanwhile by a command that finds the path free of it.
  `reported` is what an undisturbed command has reported.

### Service

* `daemon` is the serving process (`runServe`: load the settings, take the
  instance lock, look at the mount, mount, wait for signals, unmount); `wanted`
  and `term` are the state systemd has for its unit; `mount` is `stale` when its
  server is gone. `cmd[c]` is a command with the procedure it is in:
  `runMount`, `runReload` and `runUnmount` are shared by the other commands, and
  `Return` says where each one goes on.
* Waits (`Stopped`, `WaitGraceful`, `WaitGone`, `WaitMounted`) end when what they
  wait for has happened or when their time is over.
* A save of the settings may fail before or after the new file is in place
  (`SaveFails`). `StopService` removes the unit also when the service manager
  has refused to disable it, and the stop may then not have happened.
* History: `told` says that the user was told that a reload is needed; `missed`
  that an activation saved the settings behind a service that had already
  loaded them but showed neither a mount nor a running unit.

### VaultFiles

* A tree has the files present, the damaged ones, and contents: the objects the
  index lists, the passphrase that opens the identity, a version per object.
  `vault`, `backup.tree` and `restored.tree` are trees; a manifest maps files to
  digests. `proc[p]` is the progress of a command, with the private tree it
  builds before a rename publishes it.
* `writer` is a service in the middle of a change of an object and its index
  entry: the backup does not hold the instance lock.
* `Decay` damages a file of the backup. `Crash` leaves what is on disk.
* `home` is where the home directory is, `named` the place its settings name.
  `RenameHome` and `SaveMigrated` are `MigrateLegacyHome`. Each may fail and then
  moves the home back (`MoveBack`), which may fail as well and is not looked at;
  a failing save may have replaced the settings (`FailingSave`).
* History: `accepted` (a verification succeeded), `decayed`, `torn` (a migration
  of the home directory died half way, or could not move it back), `unsynced` (a
  failing save has replaced the settings, and none has succeeded since).

### FSKitVolume

* Threads run one call each. `lock[i]` is the lock of a `PassFSItem`, which stays
  taken while the bridge opens a file; `CacheFree` is the lock of the item
  cache; `handles` are the open files behind the bridge, with the path lock
  implied by being open; `registry` are the numbers the bridge knows.
* A handle number that nobody has any more is as good as a new one (`Unused`);
  with `MaxHandles` in use an open could only fail, which no run reaches.
* The items are the successive inodes of one path, so that a removed file may
  still be open when its name is created again.
* `opened` and `known` are the kernel's side: which modes it has open, which
  vnodes it has. `MayCall` states what FSKit guarantees: it does not close what
  is not open, nor reclaim what is in use, and with `SerializedDirectory` it does
  not look a name up while it creates it. Without the last one, `adopt` and an
  open of the new name can wait for each other for ever.
* History: `stored` and `latest` tell where the last acknowledged write is.

## 3. Findings

One statement of the documentation is refuted by a run that is expected to be
violated.

`vault_verify`: `README.md:380-393` shows `passfs backup create`, `verify` and
`restore` of the same directory. The last part of a verification loads the index
through `withMetadataFileLock` (`internal/passfs/metadata_lock.go:20`), which
creates `.passfs/metadata.lock` inside the backup's vault. The next verification
finds a file "not covered by its manifest". `backup create` verifies what it has
created, and `backup restore` begins with a verification, so neither works
afterwards. In the model: `VerifyBackupVault` adds `lock` to the tree, and
`VerifiesAgain` fails after one successful verification.

Other comments promise more than the code keeps. The models contain these
behaviours, and the properties are stated so that they are true of the code. TLC
refutes `UserFilesKept` and `SettingsFollowHome` without the exemptions that the
last three rows of this table ask for:

| Place | Behaviour |
|---|---|
| `volume.go:361` | the one-day grace period does not protect the parked file of an operation on an old object |
| `volume.go:507` | a crash between exchange and index update leaves the old size, not only old access times |
| `volume.go:136` | an object can be unlinked before a dirty read-only handle (`fchmod`) is flushed |
| `append_workaround_darwin.go:6` | without `O_APPEND`, the first of two concurrent appends may overwrite the second |
| `system_sleep_monitor_darwin.go:31` | a session approved while `unlockMu` is free is inserted after `Lock` for sleep |
| `README.md:192-195` | a link that moves again during a pass is recorded as a conflict |
| `symlink.go:58` | the rollback of an exchange in `encrypt` removes what was created at the path in between (`blind` in `ProjectFile`) |
| `README.md:202-203` | a new regular file at the path of a link "is never overwritten automatically", but the rollback of the synchronizer removes one, when it finds that it has displaced something else than a link to an old mount point. The second exchange (`symlink.go:88`) does not look at the path, and the deferred `RemoveAll` (`symlink.go:72-76`) deletes what it took from there. It takes two saves by the user, one before each exchange (`overtaken` in `LinkSync`) |
| `settings.go:69` | `MigrateLegacyHome` is not atomic. When `WriteFileAtomic` fails in its last step, the sync of the directory (`config.go:380-383`), the new settings are in place already, and the rollback (`settings.go:153`) moves the directory back under settings that name `~/.passfs`, where they stay until a migration succeeds (`unsynced` in `VaultFiles`) |
| `settings.go:122` | a migration of the home directory that dies half way, or cannot move it back, leaves it in the new place under the old settings |

## 4. Runs

All passing runs explore the complete state space of their instance.

| Run | Instance | Shows |
|---|---|---|
| `store` | 1 object, 2 contents, 2 processes, all roles but purge, 2 faults | `KeepsContract`: ObjectStore implements VaultContract; `AcknowledgedWriteIndexed`; `UnlinkedStaysForgotten`; `NoDanglingRecord` |
| `store_serial` | 2 objects, 1 process at a time, purges, link updates, 2 faults | operations that run on two objects at once do not lose what was acknowledged for the other one; a purge with no process beside it keeps the contract |
| `locks` | 3 requests of any kind, 1 object, a large content | `WriterSeesStored`: no lost update; `AcceptedWriteFits`: what was accepted can be stored; `LocksGranted`: every open and every reconfiguration returns |
| `handle` | 3 writes of up to 2 cells, limit 2, with and without `O_APPEND`, workaround on | `WithinLimit`, `AcknowledgedIsStored`; `AppendsKept` for `O_APPEND` handles |
| `authorization` | 2 requests, a process and its child, 3 scopes, 2 ticks | `SessionsOpen`, `CacheIsCurrent`, `IdentityExpires` |
| `authorization_live` | 2 requests, 1 process, 2 scopes, 1 tick | `DeadOwnersSessionEnds`, `ExpiredIdentityDropped`, `RequestReturns` |
| `links` | 3 links, one of them to an old mount point, 2 directories, 2 user actions, 1 fault | `UserFilesKept`: the synchronizer destroys no user file, but for the exemption of section 3; `RecoveryHasCause`; `RecordsSettle`: records come to agree with the file system by events and retries, without the six-hour pass |
| `project` | 2 commands at a time, 4 in all, 3 objects, 3 versions, 1 fault | `LatestKept`: what the user saved last is never lost; `ReportedIsProtected`: a reported success is a registered link to what was read |
| `service` | 2 commands of 8 kinds, 2 vaults, 1 configuration change, 1 fault | `OfflineExclusive`, `SettingsApplied`, `ServiceRecovers` |
| `vault_files` | 2 processes, 2 objects, 2 passphrases, 1 fault | `RestoredWhole`, `VerifiedIsConsistent`, `SettingsFollowHome`, `NeverOverwritten` |
| `fskit` | 2 inodes of a path, 2 threads with 3 calls in all, closes, reclaims and a shutdown besides, 4 handles | `HandlesHeld`, `WriterHasHandle`, `WritesKept`, `ShutdownCompletes` |
| `vault_verify` | as `vault_files`, no faults | the finding of section 3 |

The `store`, `locks`, `handle`, `authorization`, `links` and `project` runs also
check the type invariants of their modules.

### Bounds

* Two processes are enough for every pair of roles; the instance lock admits one
  service or one `unprotect`, the second process is the reader beside it.
* `MaxFaults = 2` in `store` and `store_serial` allows a failure and a failure of
  its rollback, or a failure and a crash during the rollback. Where there is no
  rollback of a rollback (`links`, `service`, `vault_files`) one fault is enough
  for every step to fail once; the number of restarts after it is not bounded.
  Where the one rollback in `vault_files` can fail (`MoveBack`), it does so as
  part of the same fault.
  In `project` a rollback also follows from a change by the user, without a
  fault, so that the one fault can be its failure.
  In `store` the number of loads, operations and days is not bounded.
* Two contents, one of them `Empty`, distinguish the old, the new and the
  default size. `store_serial` gives up the second content for the
  second object. `Synced` are the objects for which the link synchronizer is
  active.
* Three requests on a path lock: a holder, a waiting writer, and a reader that
  waits behind the writer. One object is enough for them to compete; the
  theorems of section 6 cover any number.
* Three writes on a handle: the darwin workaround looks at one other write, the
  third comes in between.
* `MaxDuration = 2` lets two authorizations expire at different times.
  `MaxCallbacks = 2` lets a callback of a stopped timer wait beside one of the
  running timer. `Tokens` bounds the sessions at one
  time; with one token all ways to end a session still compete for it.
* `links`: two links have to leave a directory before the move of a third is
  inferred, so there are three. Two user actions are, for instance, a directory
  that is moved and a file that takes the place of a link, at any two points of
  one pass or of two. Four names and two directories leave room for every kind
  of action; seven inodes are never used up. A pass has at most one private
  directory at work; what a restart or a failing exchange leaves behind takes
  another name, so that three names are enough.
* `project`: four commands are, for instance, an interrupted import, the
  import that repairs it, an edit and an unprotect. Three objects let two
  commands create one each beside a registered one. The third version is a save
  that comes after the one a command has read.
* `service`: two commands compete for every step; a third would wait for the
  same things. The serving process, systemd's restarts and the mount are not
  bounded.
* `vault_files`: two commands, one of which may be a repetition of the other,
  and a service that writes each object once. A backup that nobody has verified
  may exist at the start, so that a verification and a restore fit in.
* `fskit`: two threads and the threads that close, reclaim and shut down. The
  handle bound is never reached: at most one per item, one per calling thread.
* Symmetry is used only in runs without liveness properties, over the values
  the `MC` modules name; no formula distinguishes the permuted values.
* `OpenHandle`, `ProjectFile`, `Service`, `VaultFiles` and `FSKitVolume` run with
  `CHECK_DEADLOCK FALSE`. A handle is over after close and its last write. In the
  others the number of commands or calls is bounded, and when they are used up
  and have returned nothing has to happen any more.

## 5. Fairness

* `HandleLocks`: strong fairness for a request that acquires a lock, because
  Go's `sync.Mutex` hands itself over to a starving waiter and
  `RWMutex.Unlock` admits the readers that wait; weak fairness for steps that
  need no lock. That a handle is closed is an assumption on clients: whoever
  opened it closes it, without waiting for another open. PassFS has no defence
  against a client that does not; this is listed as a hazard.
* `Authorization`: prompts are answered or time out in their backends;
  goroutines run; `sync.Mutex` does not starve a waiter; a timer that has run
  down fires. No fairness for `Tick`, for clients, or for `Lock`.
* `LinkSync`: weak fairness for `Prepare`, for the steps of the synchronizer's
  goroutine and for the grace timers, all of which the code starts itself. None
  for the user, for faults or for the six-hour safety timer, so `RecordsSettle`
  does not lean on it.
* `Service`: weak fairness for systemd's `Fork` (`Restart=always`) and for the
  serving process. None for commands: `ServiceRecovers` starts when all of them
  have returned.
* `FSKitVolume`: a call that can go on goes on; clients close what they opened;
  the kernel reclaims an item of a volume that stops, or that a create left with
  a handle and nobody opened. The calls are finitely many, so weak fairness of
  their disjunction is enough.

## 6. Proofs

The theorems hold for all values of the constants that satisfy the `ASSUME` of
the module: any number of objects, processes, contents, handles, calls, commands
and faults. Every property they state is one that a run checks as well, except
the types of `FSKitVolume`, which are a part of its invariant.

* `ObjectStoreProofs!TypeCorrect`: `Spec => []TypeOK`.
* `ObjectStoreProofs!ContractRefinement`: if `"purge" \notin Roles`, `Spec`
  implies `KeepsContract`, that is `VaultContract!Spec` under the mapping
  `Store`, `Request`, `Outcome`. The hypothesis is needed: a purge takes no lock
  that keeps the service away (`cmd/passfs/recovery.go:129` looks
  at the mount once), and two processes may then operate on one object.
  The contract alone is not inductive. `IInv` adds `Coordination` (the instance
  lock admits one operating process, and an active operation belongs to a
  running process of the right role) and `OperationFacts` (at each step of an
  operation, what the object's file and the transaction file hold: after the
  exchange the object holds the new contents and the transaction file, *if it
  still exists*, the old ones). Then one request is in progress per object
  (`OneRequest`), each step of an operation moves one object as one contract
  action (`PersistMoves`, `RemoveMoves`, `UnprotectMoves`, joined by
  `MoveIsContractStep`) and leaves the others alone (`OthersUnaffected`), and a
  crash ends the requests of all objects of one process in one step
  (`ProcessRefines`).
* `HandleProofs!TypeCorrect`, `NoLostUpdate`, `AcceptedFits`:
  `Spec => []TypeOK`, `[]WriterSeesStored`, `[]AcceptedWriteFits`. The inductive
  invariant `LockInv` says who holds which lock as a function of how far each
  request has come (`NamespaceHeld`, `PathHeld`, `Waiting`), and that writers
  exclude readers (`MutualExclusion`). From it, an object cannot change under
  an open writer except through that writer: other writers need the path lock,
  unlink and reconfiguration need `namespaceMu`, and the only other way to store,
  a dirty read-only handle, holds the path lock as well.

* `ObjectStoreProofs!NoRecordDangles`: `Spec => []NoDanglingRecord`, purges
  included. `ClosedInv` says it of every copy of the metadata, on disk and in the
  memory of every process, and that an operation that puts an entry or the
  records of an object back puts the entry itself back too (`WritesEntry`).
* `ObjectStoreProofs!WriteStaysIndexed` and `UnlinkIsFinal`: if
  `"purge" \notin Roles`, `Spec => []AcknowledgedWriteIndexed` and
  `[]UnlinkedStaysForgotten`. `IndexInv` adds to `IInv` for every object
  (`IndexFacts`) that there is no acknowledged result while an operation is
  active, what the index holds after the step that saved it, and that the copy
  which the service has in memory agrees with the disk or lacks the entry and
  will look there.
* `HandleProofs!SizeLimit`, `FlushedIsStored`, `NoAppendLost` and
  `FileTypeCorrect` are about `OpenHandle`: `FileSpec => []WithinLimit`,
  `[]AcknowledgedIsStored`, `[]AppendsKept` and `[]FileTypeOK`. The invariant
  adds that `pendingWrites` is the number of calls between the increment and the
  decrement (`Counted`), and that what an append handle's calls wrote lies inside
  the plaintext (`Inside`), so that a write moved to the end cannot meet the
  cells of an earlier one. What cutting, growing and overwriting do to the cells
  are lemmas of their own.
* `AuthorizationProofs!CacheStaysCurrent`, `IdentityHasExpiry`, `NoDoubleClose`
  and `TypeCorrect`. `RequestOK` says what a request may still put into the
  cache: an answer waits for that only in the hands of the holder of `unlockMu`,
  who has not been overtaken by a discard, since a discard needs `unlockMu`. The
  latest expiry is a maximum, which `CHOOSE` defines, so that its existence is
  proved first, by well-founded induction (`LeastNumber`, `LatestIs`).
* `LinkSyncProofs!UserFilesSafe`, `RecoveryJustified` and `TypeCorrect`.
  `UserFilesKept` needs `EntriesInDirs` and `OneNameEach` (an entry lies in a
  directory that exists, and no two have one inode); then a rename, a new link
  and a removal are each shown once to keep a file of the user's
  (`MoveEntry`, `PutEntry`, `BackupEntry`, `MoveDirectory`), and a retirement
  only removes what it has looked at in the staging directory. The two exchanges
  of a replacement go through `ExchangeEntries`. What is removed after the
  second one is either the link that the first one made or was recorded as
  overtaken (`DiscardSpares`), and nothing else is in that private directory
  (`StagedAlone`); together they are `StagingInv`.
  `RecoveryHasCause` is proved in the contrapositive: `CleanTrue` says what
  holds of an object that has none of the causes. Of the object (`ObjectTrue`):
  it has a link, its recorded path names one of its links or nothing, and its
  kernel reference, if there is one, is to a link of its own to the present
  mount point. Of the pass (`PassTrue`), while it still has to look at the
  object: the search index holds only links of the object, and every one of them
  if their directories were read and nothing was unreadable (`IndexTrue`); every
  look taken so far is still true (`StepTrue`); and the link of another object
  that is being retired is not this one's (`RetireTrue`), nor is the one at a
  path, or displaced from it, that is being replaced (`RetargetTrue`). Between
  its own two exchanges an object has two links, of which one is displaced. A
  clean link does not move while its object is in the pass, since that is
  `raced`. So `LinkMissing` never meets a clean object with a complete index,
  and `TrackState` never meets one whose reference leads nowhere. Every action
  is one lemma; those of the user go through `LinkFollowed` or `LinkStays`,
  those of the pass through `RecordDoneKeeps`, `StepOnKeeps` or `PassStepKeeps`.
  That a pass takes the records in order needs the least element of a set of
  numbers, by well-founded induction (`LeastNumber`).
* `ServiceProofs!OfflineWorkIsExclusive` and `ServesSavedSettings`. `DaemonHolds`:
  the serving process has the instance lock from `AcquireInstanceLock` to its
  end, and only then can a mount be live; `WorkerHolds` says the same of an
  offline `unprotect`. `Debt`: when the settings on disk are not the ones the
  serving process has loaded, some command still owes a restart (`Owes`), which
  includes a `systemctl restart` whose stop job waits for the old process.
* `VaultFilesProofs!RestoresWholeVaults`, `AcceptsConsistentBackups`,
  `SettingsNameTheHome` and the action property `NothingOverwritten`. The
  invariant follows the digests: a private backup is described by its manifest
  (`Describes`), a published one still is except for decay and the lock file
  (`Made`), and what a restore has copied so far has the digests of the manifest
  it verified (`Copied`), so that a decay after the verification shows up as a
  mismatch. `MigrateOK` adds to `SettingsFollowHome` that one process migrates at a
  time and where the home directory is at each of its steps; the number of
  failures and repetitions is not bounded.
* `ProjectFileProofs!LastSaveKept`, `ReportsAreTrue` and `TypeCorrect`.
  `LatestKept` is far from inductive: a copy of the last save is worth nothing
  when a running command is about to drop it. `Kept` says which copies count:
  the one at the path, the ones that a command has put aside and will put back
  (`PutsBack`), and the ones that dead commands left; but not the link or the
  plaintext that a command withdraws when it puts the other entry back
  (`Withdrawn`). A link counts when its object holds the last save. The rest of
  `IInv` is what makes an exchange safe: the target still holds what was read
  and nothing names it before the exchange (`TargetOK`), no two commands have
  written one object and runs differ (`Apart`), nobody else has the file that an
  unprotect is about to install (`Unseen`), and what a command has read is not
  the plaintext of an unprotect that is still at work (`SeenBefore`), because
  the target was written while the service was up. Each action is one lemma;
  most of them go through `StepFrame` (what a command has to show so that the
  others still know what they knew) and `KeptFrame` or `KeptElsewhere` (which
  copies still count).
* `FSKitVolumeProofs!NoWriteLost`, `NoHandleStranded`, `WritersKeepHandle` and
  `TypeCorrect`. `Shape` says which calls are at which step and when they have a
  handle, `Knowledge` what a call can rely on while it has an item's lock: an
  open that replaces the handle finds the item without one when it puts the new
  one there, and a call that borrowed the item's handle still sees it there.
  `Data` is enough for `WritesKept`: a writable handle is the only open one, so
  the handle with unsaved data has the last write. For `HandlesHeld`, `Held` and
  `Registered` follow who owns each open handle. A call *owns* its handle unless
  it borrowed the item's (`withHandle`) or only read its number
  (`setAttributes`); with owners instead of mere holders, a truncation that
  returns strands nothing. `WriterHasHandle` needs in addition that an owner is
  the only one (`Unshared`): otherwise a call could close the handle of another
  item's writer. `Writers` says that the modes an item records include the
  writer the kernel knows, and that their handle, and the one a create or an open
  for writing is about to hand over, can write.

Only model-checked: the liveness properties `LocksGranted`,
`DeadOwnersSessionEnds`, `ExpiredIdentityDropped`, `RequestReturns`,
`RecordsSettle`, `ServiceRecovers` and `ShutdownCompletes` (liveness under
fairness is outside the prover's reach), and the finding of `vault_verify`. Every
safety property that a passing run checks is also proved.

## 7. What is not modelled

* Cryptography, formatting and parsing, the prompts' user interfaces, Keychain
  and Touch ID calls, network transfer and signatures of the updater, the
  heuristics of the scanner, packaging: input and output without protocol state.
  A prompt is modelled by its answer.
* The FUSE adapter translates requests and keeps no state.
* The authorization broker keeps a set of connections behind one mutex and reads
  its closing flag in the critical section that adds one; what it serves is in
  `Authorization`. The application agent validates a request and runs one
  command for it; the commands are in `Service`, `ProjectFile` and `VaultFiles`.
* The migration of version-1 vaults (`migrateLegacyMetadata`): a walk over a tree
  of names that no present command produces. Links into another mount point,
  which the synchronizer retargets, are modelled.
* The launchd service and the macOS link tracker and watcher answer the same
  questions as the Linux ones and are not modelled separately.
* `FileMeta` fields other than the size, and access times, which are merged
  into updates of entries that exist. Reading a handle changes nothing else.
* The extension's process does not die in `FSKitVolume`, and storing a flush
  succeeds there.
* Of the settings only the selected vault and a revision of everything else.
* Some pairs of neighbouring system calls are one step: the last look at an
  entry and its removal (`Resolve`, `ValidateDisplaced`, `RetargetValidate`,
  `RetireValidate`), a link and its registration (`BeginEdit`). The entries
  removed are in private directories, except in `Resolve`. That the removal of
  a displaced entry fails, so that a replacement is undone although the look
  found what it expected, and the rollback of `RestoreRecoveryLink`, which takes
  back a link that the same command has made, are left out.
* A directory that is renamed and made again under the old name between two
  passes of the synchronizer; the six-hour pass is the code's answer to it.
* Durability beyond `fsync`: a crash is the death of a process, not of the
  machine.

## 8. Plan

The state-changing protocols of the program are modelled, and the safety
properties of all modules are proved. What could follow are smaller protocols:
the broker's connections, access times, the macOS link tracker as a model of its
own. The actor that is missing from the composition is the client that keeps a
handle for ever, against which the code has no defence.
