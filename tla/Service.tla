------------------------------- MODULE Service -------------------------------
(***************************************************************************)
(* The life of the passfs service: the commands of cmd/passfs that start,  *)
(* stop and reconfigure it or that need it stopped (main.go, backup.go,    *)
(* recovery.go), the supervising systemd user unit (service_linux.go), the *)
(* serving process (runServe and the FUSE adapter) and the lock of         *)
(* instance_lock.go.                                                       *)
(*                                                                         *)
(* The settings file holds the selected vault and the revision of every-   *)
(* thing else; a save writes all of it.  What a command does offline, with *)
(* the service stopped, is one step here: ObjectStore, ProjectFile and     *)
(* VaultFiles model the contents.                                          *)
(***************************************************************************)
EXTENDS Integers, FiniteSets

CONSTANTS
    Commands,       \* invocations of passfs, by the user or the application
    Vaults,
    FirstVault,
    MaxRevision,    \* bound on configuration changes
    MaxBegun,       \* bound on commands started
    MaxFaults,      \* bound on crashes and failing system calls
    Daemon, Nil

ASSUME ServiceAssumption ==
    /\ FirstVault \in Vaults
    /\ MaxRevision \in Nat /\ MaxBegun \in Nat /\ MaxFaults \in Nat
    /\ Daemon \notin Commands /\ Nil \notin Commands \cup {Daemon}

VARIABLES
    settings,   \* the settings file
    unit,       \* the unit is installed and enabled
    wanted,     \* systemd keeps the process running
    term,       \* a stop job waits for the process to end
    daemon,     \* the serving process and the settings it loaded
    lock,       \* holder of the instance lock
    mount,      \* none, live, or stale (its server is gone)
    cmd,        \* progress of each command
    told,       \* history: the user was told the service needs a reload
    missed,     \* history: an activation saved behind a starting service
    revision, begun, faults

vars == <<settings, unit, wanted, term, daemon, lock, mount, cmd, told,
          missed, revision, begun, faults>>

Operations == {"mount", "reload", "unmount", "config", "backup", "purge",
               "unprotect", "activate"}

(* proc is the function runMount, runReload or runUnmount the command is   *)
(* in, none in its own steps; copy is its Settings value and loaded what   *)
(* it read (kept only in the commands that save); active says whether the  *)
(* service has to be started again; running and mounted what the procedure *)
(* saw first; ok that no part has failed.                                  *)
Idle == [op |-> "mount", proc |-> "none", step |-> "idle", active |-> FALSE,
         running |-> FALSE, mounted |-> FALSE, ok |-> TRUE,
         copy |-> [vault |-> FirstVault, revision |-> 0],
         loaded |-> [vault |-> FirstVault, revision |-> 0]]

Down == [step |-> "down", loaded |-> [vault |-> FirstVault, revision |-> 0]]

Running == daemon.step # "down"
Mounted == mount # "none"

(* The service is stopped, or was started by runMount at some time.        *)
Init ==
    /\ settings = [vault |-> FirstVault, revision |-> 0]
    /\ unit \in BOOLEAN /\ wanted = unit /\ term = FALSE
    /\ daemon = IF unit THEN [Down EXCEPT !.step = "serving"] ELSE Down
    /\ lock = IF unit THEN Daemon ELSE Nil
    /\ mount = IF unit THEN "live" ELSE "none"
    /\ cmd = [c \in Commands |-> Idle]
    /\ told = FALSE /\ missed = FALSE
    /\ revision = 0 /\ begun = 0 /\ faults = 0

Saved == <<settings, missed>>
Supervised == <<unit, wanted, term, daemon>>

Fault == faults < MaxFaults /\ faults' = faults + 1

-----------------------------------------------------------------------------
(* The serving process.                                                    *)

DaemonGoes(step) ==
    /\ daemon' = [daemon EXCEPT !.step = step]
    /\ UNCHANGED <<unit, wanted, term>>

(* The process ends, and the kernel releases its lock.  A mount it had not *)
(* removed has no server any more.                                         *)
DaemonEnds ==
    /\ daemon' = Down
    /\ term' = FALSE
    /\ lock' = IF lock = Daemon THEN Nil ELSE lock
    /\ mount' = IF mount = "live" THEN "stale" ELSE mount
    /\ UNCHANGED <<unit, wanted>>

Untouched == UNCHANGED <<Saved, cmd, revision, begun>>

(* systemd starts the process: a start job, or Restart=always.             *)
Fork ==
    /\ wanted /\ ~Running
    /\ DaemonGoes("loading")
    /\ Untouched /\ UNCHANGED <<lock, mount, told, faults>>

(* runServe                                                                *)
LoadSettings ==
    /\ daemon.step = "loading"
    /\ daemon' = [step |-> "locking", loaded |-> settings]
    /\ told' = FALSE
    /\ Untouched /\ UNCHANGED <<unit, wanted, term, lock, mount, faults>>

AcquireInstanceLock ==
    /\ daemon.step = "locking"
    /\ \/ /\ lock = Nil
          /\ lock' = Daemon
          /\ DaemonGoes("checking")
          /\ UNCHANGED mount
       \/ lock # Nil /\ DaemonEnds
    /\ Untouched /\ UNCHANGED <<told, faults>>

(* Mutant: whatever is mounted already keeps the process from serving.     *)
CheckMountRefuses ==
    /\ daemon.step = "checking"
    /\ \/ /\ mount = "none"
          /\ DaemonGoes("mounting")
          /\ UNCHANGED <<lock, mount>>
       \/ mount # "none" /\ DaemonEnds
    /\ Untouched /\ UNCHANGED <<told, faults>>

CheckMount ==
    /\ daemon.step = "checking"
    /\ \/ /\ mount # "live"
          /\ mount' = "none"
          /\ DaemonGoes("mounting")
          /\ UNCHANGED <<lock, faults>>
       \/ mount = "live" /\ DaemonEnds /\ UNCHANGED faults
       \/ mount = "stale" /\ Fault /\ DaemonEnds
    /\ Untouched /\ UNCHANGED told

(* Serve: the volume is loaded and mounted; the signal handler comes last. *)
Mount ==
    /\ daemon.step = "mounting"
    /\ \/ /\ mount = "none"
          /\ mount' = "live"
          /\ DaemonGoes("mounted")
          /\ UNCHANGED <<lock, faults>>
       \/ Fault /\ DaemonEnds
    /\ Untouched /\ UNCHANGED told

HandleSignals ==
    /\ daemon.step = "mounted"
    /\ DaemonGoes("serving")
    /\ Untouched /\ UNCHANGED <<lock, mount, told, faults>>

(* Mutant: the lock is given up before the file system is unmounted.       *)
ShutdownUnlocked ==
    /\ daemon.step = "serving"
    /\ term \/ mount # "live"
    /\ lock' = Nil
    /\ DaemonGoes("closing")
    /\ Untouched /\ UNCHANGED <<mount, told, faults>>

(* A signal, or somebody unmounted the file system; a failing unmount      *)
(* leaves it to the end of the process.                                    *)
Shutdown ==
    /\ daemon.step = "serving"
    /\ term \/ mount # "live"
    /\ \/ mount' = "none" /\ UNCHANGED faults
       \/ Fault /\ UNCHANGED mount
    /\ DaemonGoes("closing")
    /\ Untouched /\ UNCHANGED <<lock, told>>

(* The access times are flushed and the process returns, or it had no      *)
(* handler yet, or TimeoutStopSec is over.                                 *)
Exit ==
    /\ Running
    /\ daemon.step = "closing" \/ (term /\ daemon.step # "serving")
    /\ DaemonEnds
    /\ Untouched /\ UNCHANGED <<told, faults>>

DaemonCrash ==
    /\ Running
    /\ Fault /\ DaemonEnds
    /\ Untouched /\ UNCHANGED told

DaemonNext ==
    \/ LoadSettings \/ AcquireInstanceLock \/ CheckMount \/ Mount
    \/ HandleSignals \/ Shutdown \/ Exit

-----------------------------------------------------------------------------
(* How the parts of a command follow each other.                           *)

Done(r, ok) == [r EXCEPT !.proc = "none", !.step = "idle", !.ok = ok]
Call(r, proc) == [r EXCEPT !.proc = proc, !.step = "inspect"]
Local(r, step) == [r EXCEPT !.proc = "none", !.step = step,
                            !.running = FALSE, !.mounted = FALSE]

(* The deferred restart of withQuiescedFilesystem, activateVaultSelection  *)
(* and runUnprotect.                                                       *)
Restore(r) == IF r.active THEN Call(Local(r, "idle"), "reload") ELSE Done(r, r.ok)

AfterUnmount(r, ok) ==
    CASE r.op = "unprotect" /\ ok -> Local(r, "lock")
      [] r.op = "unprotect" /\ ~ok -> Restore([r EXCEPT !.ok = FALSE])
      [] r.op = "backup" /\ ok -> Local(r, "check")
      [] r.op = "activate" /\ ok -> Local(r, "save")
      [] OTHER -> Done(r, ok)

AfterReload(r, ok) ==
    IF r.op = "activate" /\ ~ok /\ r.copy.vault # r.loaded.vault
      THEN Local([r EXCEPT !.ok = FALSE], "rollback")
      ELSE Done(r, r.ok /\ ok)

Return(r, ok) ==
    CASE r.proc = "unmount" -> AfterUnmount(r, ok)
      [] r.proc = "reload" -> AfterReload(r, ok)
      [] OTHER -> Done(r, ok)

(* Command c goes on with r; one that ends reports that a part failed.     *)
Continue(c, r) ==
    LET ended == r.step = "idle" IN
    /\ cmd' = [cmd EXCEPT ![c] = IF ended THEN Idle ELSE r]
    /\ told' = (told \/ (ended /\ ~r.ok))
    /\ UNCHANGED <<revision, begun>>

At(c, step) == cmd[c].step = step

-----------------------------------------------------------------------------
(* Commands start.  The control agent of the application runs the same     *)
(* commands, one at a time; others come from a terminal.                   *)

FirstStep(op, flag) ==
    [Idle EXCEPT !.op = op,
                 !.copy = IF op \in {"config", "activate"} THEN settings ELSE @,
                 !.loaded = IF op = "activate" THEN settings ELSE @,
                 !.proc = CASE op \in {"mount", "reload", "unmount"} -> op
                            [] op = "unprotect" /\ ~flag -> "unmount"
                            [] OTHER -> "none",
                 !.step = CASE op \in {"mount", "reload", "unmount"} -> "inspect"
                            [] op = "unprotect" /\ ~flag -> "inspect"
                            [] op = "config" -> "save"
                            [] op = "purge" \/ (op = "backup" /\ ~flag) -> "check"
                            [] OTHER -> "ask"]

(* flag: backup --restart-service, or unprotect of one file.               *)
Begin(c, op, flag) ==
    /\ At(c, "idle") /\ begun < MaxBegun
    /\ flag => op \in {"backup", "unprotect"}
    /\ op = "config" => revision < MaxRevision
    /\ begun' = begun + 1
    /\ \E v \in Vaults :
        /\ op = "activate" \/ v = FirstStep(op, flag).copy.vault
        /\ cmd' = [cmd EXCEPT ![c] = [FirstStep(op, flag) EXCEPT
                       !.copy.vault = v,
                       !.copy.revision = IF op = "config" THEN revision + 1 ELSE @]]
    /\ revision' = IF op = "config" THEN revision + 1 ELSE revision
    /\ UNCHANGED <<Saved, Supervised, lock, mount, told, faults>>

-----------------------------------------------------------------------------
(* runUnmount, runReload and runMount, which begin by asking systemd and   *)
(* the mount table.                                                        *)

Inspect(c) ==
    LET r == [cmd[c] EXCEPT !.running = Running, !.mounted = Mounted]
        go(step) == Continue(c, [r EXCEPT !.step = step])
    IN
    /\ At(c, "inspect")
    /\ \/ /\ r.proc = "unmount"
          /\ IF unit THEN go("stop")
             ELSE IF Mounted THEN go("detach") ELSE Continue(c, Return(r, TRUE))
       \/ /\ r.proc = "reload"
          /\ go(IF Running THEN "stop" ELSE IF Mounted THEN "detach" ELSE "install")
       \/ /\ r.proc = "mount"
          /\ IF mount = "live" THEN Continue(c, Return(r, unit /\ Running))
             ELSE go(IF Mounted THEN "detach" ELSE "install")
    /\ UNCHANGED <<Saved, Supervised, lock, mount, faults>>

(* systemctl disable --now in stopAndRemoveService, which needs the unit   *)
(* and removes it whatever came of that, or systemctl stop in stopService. *)
(* systemd forgets a removed unit if it could be told to reload.           *)
StopService(c) ==
    LET r == cmd[c] IN
    /\ At(c, "stop")
    /\ \/ /\ r.proc = "reload" \/ unit
          /\ wanted' = FALSE
          /\ term' = Running
          /\ Continue(c, [r EXCEPT !.step = "stopping"])
          /\ UNCHANGED <<unit, faults>>
       \/ /\ r.proc = "unmount" /\ ~unit
          /\ Continue(c, Return(r, FALSE))
          /\ UNCHANGED <<unit, wanted, term, faults>>
       \/ /\ Fault
          /\ unit' = (unit /\ r.proc # "unmount")
          /\ wanted' \in {wanted, wanted /\ unit'}
          /\ Continue(c, Return(r, FALSE))
          /\ UNCHANGED term
    /\ UNCHANGED <<Saved, daemon, lock, mount>>

(* The job is done; stopAndRemoveService removes the unit.                 *)
Stopped(c) ==
    LET r == cmd[c] IN
    /\ At(c, "stopping") /\ ~term
    /\ unit' = (unit /\ r.proc # "unmount")
    /\ Continue(c, IF ~r.mounted
                     THEN IF r.proc = "unmount" THEN Return(r, TRUE)
                          ELSE [r EXCEPT !.step = "install"]
                   ELSE [r EXCEPT !.step = IF r.running THEN "graceful" ELSE "detach"])
    /\ UNCHANGED <<Saved, wanted, term, daemon, lock, mount, faults>>

MountGone(r) ==
    IF r.proc = "unmount" THEN Return(r, TRUE) ELSE [r EXCEPT !.step = "install"]

(* ensurePassFSMountStopped: the wait that a stopped service ends, then a  *)
(* forced unmount (UnmountPath) and a second wait.                         *)
WaitGraceful(c) ==
    /\ At(c, "graceful")
    /\ Continue(c, IF mount = "none" THEN MountGone(cmd[c])
                   ELSE [cmd[c] EXCEPT !.step = "detach"])
    /\ UNCHANGED <<Saved, Supervised, lock, mount, faults>>

Detach(c) ==
    /\ At(c, "detach")
    /\ \/ /\ Mounted
          /\ mount' = "none"
          /\ Continue(c, [cmd[c] EXCEPT !.step = "gone"])
          /\ UNCHANGED faults
       \/ /\ Fault \/ (~Mounted /\ UNCHANGED faults)
          /\ Continue(c, Return(cmd[c], FALSE))
          /\ UNCHANGED mount
    /\ UNCHANGED <<Saved, Supervised, lock>>

WaitGone(c) ==
    /\ At(c, "gone")
    /\ Continue(c, IF mount = "none" THEN MountGone(cmd[c])
                   ELSE Return(cmd[c], FALSE))
    /\ UNCHANGED <<Saved, Supervised, lock, mount, faults>>

(* startFilesystemService: the mount point must be a readable, empty       *)
(* directory; a live mount of an empty vault is one too.                   *)
Install(c) ==
    /\ At(c, "install")
    /\ \/ /\ mount # "stale"
          /\ unit' = TRUE
          /\ Continue(c, [cmd[c] EXCEPT !.step = "restart"])
       \/ Mounted /\ Continue(c, Return(cmd[c], FALSE)) /\ UNCHANGED unit
    /\ UNCHANGED <<Saved, wanted, term, daemon, lock, mount, faults>>

(* systemctl restart                                                       *)
Restart(c) ==
    /\ At(c, "restart")
    /\ \/ /\ unit
          /\ wanted' = TRUE
          /\ term' = Running
          /\ Continue(c, [cmd[c] EXCEPT !.step = "restarting"])
       \/ ~unit /\ Continue(c, Return(cmd[c], FALSE)) /\ UNCHANGED <<wanted, term>>
    /\ UNCHANGED <<Saved, unit, daemon, lock, mount, faults>>

Restarted(c) ==
    /\ At(c, "restarting") /\ ~term
    /\ Continue(c, [cmd[c] EXCEPT !.step = "wait"])
    /\ UNCHANGED <<Saved, Supervised, lock, mount, faults>>

(* waitForFilesystemMount: a healthy mount, or the deadline.               *)
WaitMounted(c) ==
    /\ At(c, "wait")
    /\ Continue(c, Return(cmd[c], mount = "live"))
    /\ UNCHANGED <<Saved, Supervised, lock, mount, faults>>

-----------------------------------------------------------------------------
(* The commands' own steps.                                                *)

(* filesystemIsActive, or for unprotect whether the service is installed.  *)
Ask(c) ==
    LET r == [cmd[c] EXCEPT !.active =
                  Mounted \/ (IF cmd[c].op = "unprotect" THEN unit ELSE Running)]
    IN
    /\ At(c, "ask")
    /\ Continue(c, CASE r.active \/ r.op = "unprotect" -> Call(r, "unmount")
                     [] r.op = "backup" -> Local(r, "check")
                     [] OTHER -> Local(r, "save"))
    /\ UNCHANGED <<Saved, Supervised, lock, mount, faults>>

(* Settings.Save replaces the whole file by the command's copy.            *)
SaveSettings(c, copy) ==
    /\ settings' = copy
    /\ missed' = (missed \/ (/\ cmd[c].op = "activate" /\ ~cmd[c].active
                              /\ daemon.step \notin {"down", "loading"}))

(* WriteFileAtomic fails before its rename or after it.                    *)
SaveFails(c, copy) ==
    Fault /\ (SaveSettings(c, copy) \/ UNCHANGED Saved)

(* runConfig *)
SaveConfiguration(c) ==
    /\ At(c, "save") /\ cmd[c].op = "config"
    /\ \/ /\ SaveSettings(c, cmd[c].copy)
          /\ Continue(c, Local(cmd[c], "apply"))
          /\ UNCHANGED faults
       \/ SaveFails(c, cmd[c].copy) /\ Continue(c, Done(cmd[c], FALSE))
    /\ UNCHANGED <<Supervised, lock, mount>>

(* A mounted file system is reloaded; otherwise the user is asked to.      *)
(* Mutant: a service that is not mounted yet is left to itself.            *)
ApplyUnannounced(c) ==
    /\ At(c, "apply")
    /\ Continue(c, IF Mounted THEN Call(cmd[c], "reload") ELSE Done(cmd[c], TRUE))
    /\ UNCHANGED <<Saved, Supervised, lock, mount, faults>>

ApplyConfiguration(c) ==
    LET r == cmd[c] IN
    /\ At(c, "apply")
    /\ IF Mounted THEN Continue(c, Call(r, "reload"))
       ELSE /\ cmd' = [cmd EXCEPT ![c] = Idle]
            /\ told' = TRUE
            /\ UNCHANGED <<revision, begun>>
    /\ UNCHANGED <<Saved, Supervised, lock, mount, faults>>

(* activateVaultSelection                                                  *)
SaveSelection(c) ==
    LET r == cmd[c] IN
    /\ At(c, "save") /\ r.op = "activate"
    /\ \/ SaveSettings(c, r.copy) /\ Continue(c, Restore(r)) /\ UNCHANGED faults
       \/ /\ SaveFails(c, r.copy)
          /\ Continue(c, Restore([r EXCEPT !.copy = r.loaded, !.ok = FALSE]))
    /\ UNCHANGED <<Supervised, lock, mount>>

RollBackSelection(c) ==
    LET r == [cmd[c] EXCEPT !.copy.vault = cmd[c].loaded.vault] IN
    /\ At(c, "rollback")
    /\ \/ /\ SaveSettings(c, r.copy)
          /\ Continue(c, Call(r, "reload"))
          /\ UNCHANGED faults
       \/ SaveFails(c, r.copy) /\ Continue(c, Done(r, FALSE))
    /\ UNCHANGED <<Supervised, lock, mount>>

(* createAndVerifyBackup and runRecoveryPurge look once.                   *)
CheckUnmounted(c) ==
    /\ At(c, "check")
    /\ Continue(c, IF Mounted THEN Restore([cmd[c] EXCEPT !.ok = FALSE])
                   ELSE Local(cmd[c], "offline"))
    /\ UNCHANGED <<Saved, Supervised, lock, mount, faults>>

(* AcquireInstanceLockContext in unprotectFiles.                           *)
WaitForLock(c) ==
    /\ At(c, "lock")
    /\ \/ lock = Nil /\ lock' = c /\ Continue(c, Local(cmd[c], "offline"))
       \/ /\ lock # Nil
          /\ Continue(c, Restore([cmd[c] EXCEPT !.ok = FALSE]))
          /\ UNCHANGED lock
    /\ UNCHANGED <<Saved, Supervised, mount, faults>>

WorkOffline(c) ==
    /\ At(c, "offline")
    /\ lock' = IF lock = c THEN Nil ELSE lock
    /\ Continue(c, Restore(cmd[c]))
    /\ UNCHANGED <<Saved, Supervised, mount, faults>>

(* The process of a command is killed; the kernel drops its lock.          *)
CommandDies(c) ==
    /\ ~At(c, "idle") /\ Fault
    /\ lock' = IF lock = c THEN Nil ELSE lock
    /\ Continue(c, Done(cmd[c], FALSE))
    /\ UNCHANGED <<Saved, Supervised, mount>>

CommandStep(c) ==
    \/ Inspect(c) \/ StopService(c) \/ Stopped(c) \/ WaitGraceful(c)
    \/ Detach(c) \/ WaitGone(c) \/ Install(c) \/ Restart(c) \/ Restarted(c)
    \/ WaitMounted(c) \/ Ask(c) \/ SaveConfiguration(c) \/ ApplyConfiguration(c)
    \/ SaveSelection(c) \/ RollBackSelection(c) \/ CheckUnmounted(c)
    \/ WaitForLock(c) \/ WorkOffline(c)

Next ==
    \/ Fork \/ DaemonNext \/ DaemonCrash
    \/ \E c \in Commands :
        \/ CommandStep(c) \/ CommandDies(c)
        \/ \E op \in Operations, flag \in BOOLEAN : Begin(c, op, flag)

(* systemd restarts the process, and the process runs.                     *)
Fairness == WF_vars(Fork) /\ WF_vars(DaemonNext)

Spec == Init /\ [][Next]_vars /\ Fairness

-----------------------------------------------------------------------------
Quiet == \A c \in Commands : At(c, "idle")

(* unprotectFiles rewrites the project's files and the vault only while no *)
(* service answers for them: it holds the instance lock and nothing is     *)
(* mounted, whatever other commands and systemd do meanwhile.              *)
OfflineExclusive ==
    \A c \in Commands : At(c, "offline") /\ cmd[c].op = "unprotect" =>
        lock = c /\ mount # "live"

(* Once every command has returned, the service works with the settings on *)
(* disk unless the user was told otherwise: runConfig reloads a mounted    *)
(* file system or prints the reload notice, and a failure is an error.     *)
(* (An activation beside a service that is only starting is `missed`.)     *)
SettingsApplied ==
    Quiet /\ daemon.step = "serving" /\ ~told /\ ~missed => daemon.loaded = settings

(* An enabled service comes back: after a crash of the serving process, a  *)
(* mount without a server or a failing system call, Restart=always and the *)
(* removal of the unavailable mount in runServe lead to a live mount.      *)
ServiceRecovers == (Quiet /\ wanted) ~> (mount = "live" \/ ~wanted \/ ~Quiet)
=============================================================================
