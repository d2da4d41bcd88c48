---------------------------- MODULE ServiceProofs ----------------------------
(***************************************************************************)
(* Proofs about Service, for any set of commands and vaults and any bounds *)
(* on configuration changes, commands and faults.                          *)
(*                                                                         *)
(* OfflineExclusive rests on who may hold the instance lock: the serving   *)
(* process from AcquireInstanceLock to its end, and an unprotect while it  *)
(* works offline.  SettingsApplied rests on a debt: from the save on, the  *)
(* command that wrote the settings owes a restart of a process that has    *)
(* read others, and it owes it until that process has ended or the user    *)
(* has been told.                                                          *)
(***************************************************************************)
EXTENDS Service, TLAPS

Versions == [vault : Vaults, revision : Nat]

CommandSteps ==
    {"idle", "inspect", "stop", "stopping", "graceful", "detach", "gone",
     "install", "restart", "restarting", "wait", "ask", "save", "apply",
     "rollback", "check", "lock", "offline"}

CommandState ==
    [op : Operations, proc : {"none", "mount", "reload", "unmount"},
     step : CommandSteps, active : BOOLEAN, running : BOOLEAN,
     mounted : BOOLEAN, ok : BOOLEAN, copy : Versions, loaded : Versions]

DaemonState ==
    [step : {"down", "loading", "locking", "checking", "mounting", "mounted",
             "serving", "closing"},
     loaded : Versions]

(* Everything but the commands.                                            *)
ServiceOK ==
    /\ settings \in Versions
    /\ unit \in BOOLEAN /\ wanted \in BOOLEAN /\ term \in BOOLEAN
    /\ daemon \in DaemonState
    /\ lock \in Commands \cup {Daemon, Nil}
    /\ mount \in {"none", "live", "stale"}
    /\ missed \in BOOLEAN
    /\ faults \in Nat

TypeOK ==
    /\ ServiceOK
    /\ cmd \in [Commands -> CommandState]
    /\ told \in BOOLEAN
    /\ revision \in Nat /\ begun \in Nat

(* Only the other offline commands look at the mount instead of the lock.  *)
Proper(r) == r.step = "check" => r.op # "unprotect"

AllProper == \A c \in Commands : Proper(cmd[c])

(* The serving process holds the lock from its acquisition to its end, and *)
(* only a process that holds it has a live mount.                          *)
Locked == {"checking", "mounting", "mounted", "serving", "closing"}

DaemonHolds ==
    /\ lock = Daemon <=> daemon.step \in Locked
    /\ mount = "live" => daemon.step \in {"mounted", "serving", "closing"}

WorkerHolds ==
    \A c \in Commands : At(c, "offline") /\ cmd[c].op = "unprotect" => lock = c

(* A command in state r still owes a restart: it has not reloaded yet, or  *)
(* systemctl restart is waiting for the old process (a stop job, t).       *)
OwesIn(r, t) ==
    \/ r.step \in {"apply", "rollback"}
    \/ /\ r.proc = "reload"
       /\ \/ r.step \in {"inspect", "stop", "stopping", "graceful", "detach",
                         "gone", "install", "restart"}
          \/ r.step = "restarting" /\ t

Owes(c) == OwesIn(cmd[c], term)

HasLoaded == daemon.step \notin {"down", "loading"}

Debt ==
    ~told /\ ~missed /\ HasLoaded /\ daemon.loaded # settings =>
        \E c \in Commands : Owes(c)

IInv ==
    /\ TypeOK
    /\ AllProper
    /\ DaemonHolds
    /\ WorkerHolds
    /\ Debt

-----------------------------------------------------------------------------
(* How the parts of a command follow each other.                           *)

(* Idle is a state of a command, and one that owes nothing.                *)
LEMMA IdleState ==
    /\ Idle \in CommandState /\ Idle.step = "idle" /\ Proper(Idle)
    /\ \A t \in BOOLEAN : ~OwesIn(Idle, t)
  BY ServiceAssumption
     DEF Idle, CommandState, CommandSteps, Versions, Operations, Proper, OwesIn

(* Entering a procedure, a step of the command's own, or its end.          *)
LEMMA CallState ==
    ASSUME NEW r \in CommandState, NEW proc \in {"mount", "reload", "unmount"}
    PROVE  /\ Call(r, proc) \in CommandState
           /\ Call(r, proc).op = r.op /\ Call(r, proc).ok = r.ok
           /\ Call(r, proc).proc = proc /\ Call(r, proc).step = "inspect"
  BY DEF Call, CommandState, CommandSteps

(* A step of the command's own leaves the procedure and keeps the rest.    *)
LEMMA LocalState ==
    ASSUME NEW r \in CommandState, NEW step \in CommandSteps
    PROVE  /\ Local(r, step) \in CommandState
           /\ Local(r, step).op = r.op /\ Local(r, step).ok = r.ok
           /\ Local(r, step).proc = "none" /\ Local(r, step).step = step
  BY DEF Local, CommandState

(* The end of a command keeps its operation and records whether it         *)
(* failed.                                                                 *)
LEMMA DoneState ==
    ASSUME NEW r \in CommandState, NEW ok \in BOOLEAN
    PROVE  /\ Done(r, ok) \in CommandState
           /\ Done(r, ok).op = r.op /\ Done(r, ok).ok = ok
           /\ Done(r, ok).proc = "none" /\ Done(r, ok).step = "idle"
  BY DEF Done, CommandState, CommandSteps

(* Noting a failure changes nothing else of the command.                   *)
LEMMA FailedState ==
    ASSUME NEW r \in CommandState
    PROVE  /\ [r EXCEPT !.ok = FALSE] \in CommandState
           /\ [r EXCEPT !.ok = FALSE].op = r.op
           /\ [r EXCEPT !.ok = FALSE].ok = FALSE
           /\ [r EXCEPT !.ok = FALSE].active = r.active
  BY DEF CommandState

(* The deferred restart calls runReload or ends the command.               *)
LEMMA RestoreState ==
    ASSUME NEW r \in CommandState
    PROVE  /\ Restore(r) \in CommandState
           /\ Restore(r).op = r.op /\ Restore(r).ok = r.ok
           /\ r.active => Restore(r).step = "inspect" /\ Restore(r).proc = "reload"
           /\ ~r.active => Restore(r).step = "idle"
  <1>1. r.ok \in BOOLEAN /\ r.active \in BOOLEAN /\ "idle" \in CommandSteps
    BY DEF CommandState, CommandSteps
  <1>2. CASE r.active
    BY <1>1, <1>2, CallState, LocalState DEF Restore
  <1>3. CASE ~r.active
    BY <1>1, <1>3, DoneState DEF Restore
  <1> QED
    BY <1>2, <1>3

(* A procedure that returns never goes to the offline work, sends only     *)
(* commands other than unprotect to the check, and a failed reload is      *)
(* rolled back or reported.                                                *)
LEMMA ReturnState ==
    ASSUME NEW r \in CommandState, NEW ok \in BOOLEAN,
           NEW q, q = Return(r, ok)
    PROVE  /\ q \in CommandState
           /\ q.op = r.op
           /\ q.step # "offline" /\ Proper(q)
           /\ r.proc = "reload" /\ ~ok =>
                q.step = "rollback" \/ (q.step = "idle" /\ q.ok = FALSE)
  <1>2. r.ok \in BOOLEAN
    BY DEF CommandState
  <1>3. CASE r.proc = "unmount"
    <2>1. q = AfterUnmount(r, ok)
      BY <1>3 DEF Return
    <2>2. CASE r.op = "unprotect" /\ ok
      <3>1. q = Local(r, "lock")
        BY <2>1, <2>2 DEF AfterUnmount
      <3>2. q \in CommandState /\ q.op = r.op /\ q.step = "lock"
        BY <3>1 DEF Local, CommandState, CommandSteps
      <3> QED
        BY <1>3, <3>2 DEF Proper
    <2>3. CASE r.op = "unprotect" /\ ~ok
      <3>1. PICK f \in CommandState : f = [r EXCEPT !.ok = FALSE] /\ f.op = r.op
        BY FailedState
      <3>2. q = Restore(f)
        BY <2>1, <2>3, <3>1 DEF AfterUnmount
      <3>3. q \in CommandState /\ q.op = r.op /\ q.step \in {"idle", "inspect"}
        BY <3>1, <3>2, RestoreState
      <3> QED
        BY <1>3, <3>3 DEF Proper
    <2>4. CASE r.op = "backup" /\ ok
      <3>1. q = Local(r, "check")
        BY <2>1, <2>4 DEF AfterUnmount
      <3>2. q \in CommandState /\ q.op = r.op /\ q.step = "check"
        BY <3>1 DEF Local, CommandState, CommandSteps
      <3> QED
        BY <1>3, <2>4, <3>2 DEF Proper
    <2>5. CASE r.op = "activate" /\ ok
      <3>1. q = Local(r, "save")
        BY <2>1, <2>5 DEF AfterUnmount
      <3>2. q \in CommandState /\ q.op = r.op /\ q.step = "save"
        BY <3>1 DEF Local, CommandState, CommandSteps
      <3> QED
        BY <1>3, <3>2 DEF Proper
    <2>6. CASE /\ r.op # "unprotect" /\ ~(r.op = "backup" /\ ok)
               /\ ~(r.op = "activate" /\ ok)
      <3>1. q = Done(r, ok)
        BY <2>1, <2>6 DEF AfterUnmount
      <3>2. q \in CommandState /\ q.op = r.op /\ q.step = "idle"
        BY <3>1, DoneState
      <3> QED
        BY <1>3, <3>2 DEF Proper
    <2> QED
      BY <2>2, <2>3, <2>4, <2>5, <2>6
  <1>4. CASE r.proc = "reload"
    <2>1. q = AfterReload(r, ok)
      BY <1>4 DEF Return
    <2>2. CASE r.op = "activate" /\ ~ok /\ r.copy.vault # r.loaded.vault
      <3>1. PICK f \in CommandState : f = [r EXCEPT !.ok = FALSE] /\ f.op = r.op
        BY FailedState
      <3>2. q = Local(f, "rollback")
        BY <2>1, <2>2, <3>1 DEF AfterReload
      <3>3. q \in CommandState /\ q.op = r.op /\ q.step = "rollback"
        BY <3>1, <3>2 DEF Local, CommandState, CommandSteps
      <3> QED
        BY <3>3 DEF Proper
    <2>3. CASE ~(r.op = "activate" /\ ~ok /\ r.copy.vault # r.loaded.vault)
      <3>1. PICK b \in BOOLEAN : b = (r.ok /\ ok)
        OBVIOUS
      <3>2. q = Done(r, b)
        BY <2>1, <2>3, <3>1 DEF AfterReload
      <3>3. q \in CommandState /\ q.op = r.op /\ q.step = "idle" /\ q.ok = b
        BY <3>2, DoneState
      <3>4. ~ok => b = FALSE
        BY <3>1
      <3> QED
        BY <3>3, <3>4 DEF Proper
    <2> QED
      BY <2>2, <2>3
  <1>5. CASE r.proc \notin {"unmount", "reload"}
    <2>1. q = Done(r, ok)
      BY <1>5 DEF Return
    <2>2. q \in CommandState /\ q.op = r.op /\ q.step = "idle"
      BY <2>1, DoneState
    <2> QED
      BY <1>5, <2>2 DEF Proper
  <1> QED
    BY <1>3, <1>4, <1>5

-----------------------------------------------------------------------------
(* The frames of the two kinds of step.                                    *)

(* A step of command c that goes on in state r.                            *)
LEMMA CommandFrame ==
    ASSUME IInv, NEW c \in Commands, NEW r \in CommandState, Continue(c, r),
           Proper(r), ServiceOK', UNCHANGED daemon,
           mount' = mount \/ mount' = "none",
           \/ lock' = lock
           \/ lock = Nil /\ lock' = c
           \/ lock = c /\ lock' = Nil,
           r.step = "offline" /\ r.op = "unprotect" => lock' = c,
           missed => missed',
           Running => (term => term'),
           \/ OwesIn(r, term')
           \/ missed'
           \/ ~HasLoaded
           \/ r.step = "idle" /\ r.ok = FALSE
           \/ settings' = settings /\ ~Owes(c)
    PROVE  IInv'
  <1> DEFINE q == IF r.step = "idle" THEN Idle ELSE r
  <1>1. /\ q \in CommandState /\ Proper(q)
        /\ q.step = "offline" /\ q.op = "unprotect" => lock' = c
        /\ OwesIn(r, term') => OwesIn(q, term')
    <2>1. CASE r.step = "idle"
      BY <2>1, IdleState DEF OwesIn, ServiceOK
    <2>2. CASE r.step # "idle"
      BY <2>2
    <2> QED
      BY <2>1, <2>2
  <1>2. /\ cmd' = [cmd EXCEPT ![c] = q]
        /\ told => told' 
        /\ r.step = "idle" /\ r.ok = FALSE => told'
        /\ told' \in BOOLEAN
        /\ UNCHANGED <<revision, begun>>
    BY DEF Continue, IInv, TypeOK
  <1> HIDE DEF q
  <1>3. cmd \in [Commands -> CommandState]
    BY DEF IInv, TypeOK
  <1>4. /\ cmd' \in [Commands -> CommandState]
        /\ cmd'[c] = q
        /\ \A d \in Commands : d # c => cmd'[d] = cmd[d]
    BY <1>1, <1>2, <1>3
  <1>5. TypeOK'
    BY <1>2, <1>4 DEF IInv, TypeOK
  <1>6. AllProper'
    BY <1>1, <1>4 DEF IInv, AllProper, Proper
  <1>7. DaemonHolds'
    BY ServiceAssumption DEF IInv, DaemonHolds
  <1>8. WorkerHolds'
    <2> SUFFICES ASSUME NEW d \in Commands, cmd'[d].step = "offline",
                        cmd'[d].op = "unprotect"
                 PROVE  lock' = d
      BY DEF WorkerHolds, At
    <2>1. CASE d = c
      BY <2>1, <1>1, <1>4
    <2>2. CASE d # c
      <3>1. lock = d
        BY <2>2, <1>4 DEF IInv, WorkerHolds, At
      <3> QED
        BY <2>2, <3>1, ServiceAssumption
    <2> QED
      BY <2>1, <2>2
  <1>9. Debt'
    <2> SUFFICES ASSUME ~told', ~missed', HasLoaded', daemon'.loaded # settings'
                 PROVE  \E d \in Commands : OwesIn(cmd'[d], term')
      BY DEF Debt, Owes
    <2>1. HasLoaded /\ Running /\ ~told /\ ~missed
      BY <1>2 DEF HasLoaded, Running
    <2>2. CASE OwesIn(r, term')
      BY <2>2, <1>1, <1>4
    <2>3. CASE settings' = settings /\ ~Owes(c)
      <3>1. PICK d \in Commands : Owes(d)
        BY <2>1, <2>3 DEF IInv, Debt
      <3>2. d # c
        BY <3>1, <2>3, <1>2
      <3> QED
        BY <3>1, <3>2, <2>1, <1>4 DEF Owes, OwesIn
    <2> QED
      BY <1>2, <2>1, <2>2, <2>3
  <1> QED
    BY <1>5, <1>6, <1>7, <1>8, <1>9 DEF IInv

(* A step of the serving process or of systemd.                            *)
LEMMA ProcessFrame ==
    ASSUME IInv, ServiceOK', Untouched, told' \in BOOLEAN,
           UNCHANGED missed, UNCHANGED settings,
           DaemonHolds',
           lock' = lock \/ lock \in {Nil, Daemon},
           \/ ~HasLoaded'
           \/ daemon'.loaded = settings
           \/ HasLoaded /\ daemon'.loaded = daemon.loaded /\ UNCHANGED <<told, term>>
    PROVE  IInv'
  <1>1. UNCHANGED <<cmd, revision, begun>>
    BY DEF Untouched
  <1>2. TypeOK' /\ AllProper'
    BY <1>1 DEF IInv, TypeOK, AllProper
  <1>3. WorkerHolds'
    BY <1>1, ServiceAssumption DEF IInv, WorkerHolds, At
  <1>4. Debt'
    BY <1>1 DEF IInv, Debt, Owes
  <1> QED
    BY <1>2, <1>3, <1>4 DEF IInv

-----------------------------------------------------------------------------
(* The initial state and the serving process.                              *)

(* The service is stopped, or serves with the settings on disk.            *)
LEMMA InitIInv == Init => IInv
  <1> SUFFICES ASSUME Init PROVE IInv
    OBVIOUS
  <1>1. [vault |-> FirstVault, revision |-> 0] \in Versions
    BY ServiceAssumption DEF Versions
  <1>2. Down \in DaemonState /\ Down.step = "down"
        /\ [Down EXCEPT !.step = "serving"] \in DaemonState
        /\ [Down EXCEPT !.step = "serving"].step = "serving"
        /\ [Down EXCEPT !.step = "serving"].loaded = [vault |-> FirstVault, revision |-> 0]
    BY <1>1 DEF Down, DaemonState
  <1>3. TypeOK
    BY <1>1, <1>2, IdleState DEF Init, TypeOK, ServiceOK
  <1>4. AllProper
    BY IdleState DEF Init, AllProper
  <1>5. DaemonHolds
    BY <1>2, ServiceAssumption DEF Init, DaemonHolds, Locked
  <1>6. WorkerHolds
    BY IdleState DEF Init, WorkerHolds, At
  <1>7. Debt
    BY <1>2 DEF Init, Debt, HasLoaded
  <1> QED
    BY <1>3, <1>4, <1>5, <1>6, <1>7 DEF IInv

(* The step of the process moves on and nothing else of it.                *)
LEMMA DaemonGoesState ==
    ASSUME IInv, NEW step \in {"loading", "checking", "mounting", "mounted",
                               "serving", "closing"}, DaemonGoes(step)
    PROVE  /\ daemon \in DaemonState
           /\ daemon' \in DaemonState /\ daemon'.step = step
           /\ daemon'.loaded = daemon.loaded
           /\ UNCHANGED <<unit, wanted, term>>
  BY DEF IInv, TypeOK, ServiceOK, DaemonGoes, DaemonState

(* The end of the process leaves no lock and no live mount of its own.     *)
LEMMA DaemonEndsState ==
    ASSUME IInv, Untouched, DaemonEnds, UNCHANGED told, faults' \in Nat
    PROVE  IInv'
  <1>1. [vault |-> FirstVault, revision |-> 0] \in Versions
    BY ServiceAssumption DEF Versions
  <1>2. Down \in DaemonState /\ Down.step = "down"
    BY <1>1 DEF Down, DaemonState
  <1>3. UNCHANGED <<settings, missed>>
    BY DEF Untouched, Saved
  <1>4. ServiceOK'
    BY <1>2, <1>3 DEF DaemonEnds, IInv, TypeOK, ServiceOK
  <1>5. DaemonHolds'
    BY <1>2, ServiceAssumption DEF DaemonEnds, IInv, DaemonHolds, Locked
  <1>6. ~HasLoaded'
    BY <1>2 DEF DaemonEnds, HasLoaded
  <1>7. lock' = lock \/ lock \in {Nil, Daemon}
    BY DEF DaemonEnds
  <1>8. told' \in BOOLEAN
    BY DEF IInv, TypeOK
  <1> QED
    BY <1>3, <1>4, <1>5, <1>6, <1>7, <1>8, ProcessFrame

(* The fault counter stays a number.                                       *)
LEMMA FaultType ==
    ASSUME IInv, Fault
    PROVE  faults' \in Nat
  BY DEF IInv, TypeOK, ServiceOK, Fault

(* systemd starts the process: it holds nothing yet and has read nothing.  *)
LEMMA ForkKeeps ==
    ASSUME IInv, Fork
    PROVE  IInv'
  <1>1. DaemonGoes("loading") /\ ~Running /\ Untouched
        /\ UNCHANGED <<lock, mount, told, faults>>
    BY DEF Fork
  <1>2. /\ daemon' \in DaemonState /\ daemon'.step = "loading"
        /\ UNCHANGED <<unit, wanted, term>>
    BY <1>1, DaemonGoesState
  <1>3. UNCHANGED <<settings, missed>> /\ daemon.step = "down"
    BY <1>1 DEF Untouched, Saved, Running
  <1>4. ServiceOK' /\ told' \in BOOLEAN
    BY <1>1, <1>2, <1>3 DEF IInv, TypeOK, ServiceOK
  <1>5. DaemonHolds'
    BY <1>1, <1>2, <1>3 DEF IInv, DaemonHolds, Locked
  <1>6. ~HasLoaded'
    BY <1>2 DEF HasLoaded
  <1> QED
    BY <1>1, <1>3, <1>4, <1>5, <1>6, ProcessFrame

(* The process reads the settings of this moment, so it owes nobody a      *)
(* restart.                                                                *)
LEMMA LoadSettingsKeeps ==
    ASSUME IInv, LoadSettings
    PROVE  IInv'
  <1> USE DEF LoadSettings
  <1>1. /\ daemon' \in DaemonState /\ daemon'.step = "locking"
        /\ daemon'.loaded = settings
    BY DEF IInv, TypeOK, ServiceOK, DaemonState
  <1>2. UNCHANGED <<settings, missed>>
    BY DEF Untouched, Saved
  <1>3. ServiceOK' /\ told' \in BOOLEAN
    BY <1>1, <1>2 DEF IInv, TypeOK, ServiceOK
  <1>4. DaemonHolds'
    BY <1>1 DEF IInv, DaemonHolds, Locked
  <1> QED
    BY <1>1, <1>2, <1>3, <1>4, ProcessFrame

(* A step of the process after it has loaded the settings.                 *)
LEMMA ServingStep ==
    ASSUME IInv, Untouched, UNCHANGED told, faults' \in Nat, HasLoaded,
           NEW step \in {"checking", "mounting", "mounted", "serving", "closing"},
           DaemonGoes(step),
           lock' \in {lock, Daemon}, lock' = lock \/ lock = Nil,
           mount' \in {"none", "live", "stale"},
           DaemonHolds'
    PROVE  IInv'
  <1>1. /\ daemon' \in DaemonState /\ daemon'.loaded = daemon.loaded
        /\ UNCHANGED <<unit, wanted, term>>
    BY DaemonGoesState
  <1>2. UNCHANGED <<settings, missed>>
    BY DEF Untouched, Saved
  <1>3. ServiceOK' /\ told' \in BOOLEAN
    BY <1>1, <1>2 DEF IInv, TypeOK, ServiceOK
  <1> QED
    BY <1>1, <1>2, <1>3, ProcessFrame

(* The lock goes to the serving process only when nobody has it.           *)
LEMMA AcquireInstanceLockKeeps ==
    ASSUME IInv, AcquireInstanceLock
    PROVE  IInv'
  <1>1. /\ Untouched /\ UNCHANGED <<told, faults>> /\ daemon.step = "locking"
        /\ faults' \in Nat
    BY DEF AcquireInstanceLock, IInv, TypeOK, ServiceOK
  <1>2. CASE DaemonEnds
    BY <1>1, <1>2, DaemonEndsState
  <1>3. CASE lock = Nil /\ lock' = Daemon /\ DaemonGoes("checking") /\ UNCHANGED mount
    <2>1. daemon'.step = "checking"
      BY <1>3, DaemonGoesState
    <2>2. HasLoaded /\ mount' \in {"none", "live", "stale"}
      BY <1>1, <1>3 DEF HasLoaded, IInv, TypeOK, ServiceOK
    <2>3. DaemonHolds'
      BY <1>1, <1>3, <2>1 DEF IInv, DaemonHolds, Locked
    <2> QED
      BY <1>1, <1>3, <2>2, <2>3, ServingStep
  <1> QED
    BY <1>2, <1>3 DEF AcquireInstanceLock

(* A process that finds the mount point in use ends and gives the lock     *)
(* up.                                                                     *)
LEMMA CheckMountKeeps ==
    ASSUME IInv, CheckMount
    PROVE  IInv'
  <1>1. Untouched /\ UNCHANGED told /\ daemon.step = "checking" /\ faults \in Nat
    BY DEF CheckMount, IInv, TypeOK, ServiceOK
  <1>2. CASE DaemonEnds /\ (UNCHANGED faults \/ Fault)
    BY <1>1, <1>2, DaemonEndsState, FaultType
  <1>3. CASE /\ mount # "live" /\ mount' = "none" /\ DaemonGoes("mounting")
             /\ UNCHANGED <<lock, faults>>
    <2>1. daemon'.step = "mounting"
      BY <1>3, DaemonGoesState
    <2>2. HasLoaded
      BY <1>1 DEF HasLoaded
    <2>3. DaemonHolds'
      BY <1>1, <1>3, <2>1 DEF IInv, DaemonHolds, Locked
    <2> QED
      BY <1>1, <1>3, <2>2, <2>3, ServingStep
  <1> QED
    BY <1>2, <1>3 DEF CheckMount

(* The mount becomes live in the hands of the process that holds the       *)
(* lock.                                                                   *)
LEMMA MountKeeps ==
    ASSUME IInv, Mount
    PROVE  IInv'
  <1>1. Untouched /\ UNCHANGED told /\ daemon.step = "mounting" /\ faults \in Nat
    BY DEF Mount, IInv, TypeOK, ServiceOK
  <1>2. CASE DaemonEnds /\ Fault
    BY <1>1, <1>2, DaemonEndsState, FaultType
  <1>3. CASE mount' = "live" /\ DaemonGoes("mounted") /\ UNCHANGED <<lock, faults>>
    <2>1. daemon'.step = "mounted"
      BY <1>3, DaemonGoesState
    <2>2. HasLoaded
      BY <1>1 DEF HasLoaded
    <2>3. DaemonHolds'
      BY <1>1, <1>3, <2>1 DEF IInv, DaemonHolds, Locked
    <2> QED
      BY <1>1, <1>3, <2>2, <2>3, ServingStep
  <1> QED
    BY <1>2, <1>3 DEF Mount

(* The process serves as soon as its signal handler is installed.          *)
LEMMA HandleSignalsKeeps ==
    ASSUME IInv, HandleSignals
    PROVE  IInv'
  <1>1. /\ Untouched /\ daemon.step = "mounted" /\ DaemonGoes("serving")
        /\ UNCHANGED <<lock, mount, told, faults>>
        /\ faults' \in Nat /\ mount' \in {"none", "live", "stale"}
    BY DEF HandleSignals, IInv, TypeOK, ServiceOK
  <1>2. daemon'.step = "serving"
    BY <1>1, DaemonGoesState
  <1>3. HasLoaded
    BY <1>1 DEF HasLoaded
  <1>4. DaemonHolds'
    BY <1>1, <1>2 DEF IInv, DaemonHolds, Locked
  <1> QED
    BY <1>1, <1>3, <1>4, ServingStep

(* The lock is kept while the file system is unmounted.                    *)
LEMMA ShutdownKeeps ==
    ASSUME IInv, Shutdown
    PROVE  IInv'
  <1>1. /\ Untouched /\ daemon.step = "serving" /\ DaemonGoes("closing")
        /\ UNCHANGED <<lock, told>> /\ mount' \in {mount, "none"}
        /\ mount' \in {"none", "live", "stale"} /\ faults' \in Nat
    BY FaultType DEF Shutdown, IInv, TypeOK, ServiceOK
  <1>2. daemon'.step = "closing"
    BY <1>1, DaemonGoesState
  <1>3. HasLoaded
    BY <1>1 DEF HasLoaded
  <1>4. DaemonHolds'
    BY <1>1, <1>2 DEF IInv, DaemonHolds, Locked
  <1> QED
    BY <1>1, <1>3, <1>4, ServingStep

(* The end of the process clears its lock and its mount together.          *)
LEMMA ExitKeeps ==
    ASSUME IInv, Exit \/ DaemonCrash
    PROVE  IInv'
  <1>1. Untouched /\ UNCHANGED told /\ DaemonEnds /\ faults' \in Nat
    BY FaultType DEF Exit, DaemonCrash, IInv, TypeOK, ServiceOK
  <1> QED
    BY <1>1, DaemonEndsState

-----------------------------------------------------------------------------
(* The commands.                                                           *)

(* What the invariant says of one command.                                 *)
LEMMA CommandFacts ==
    ASSUME IInv, NEW c \in Commands
    PROVE  cmd[c] \in CommandState /\ Proper(cmd[c])
  BY DEF IInv, TypeOK, AllProper

(* A step of command c that changes neither the settings nor a stop job    *)
(* nor the lock, and goes on in state r: what c owed, it owes in r, or the *)
(* command has failed.                                                     *)
LEMMA PlainStep ==
    ASSUME IInv, NEW c \in Commands, NEW r \in CommandState, Continue(c, r),
           Proper(r), r.step = "offline" => r.op # "unprotect",
           ServiceOK', UNCHANGED <<settings, missed, daemon, term, lock>>,
           mount' = mount \/ mount' = "none",
           Owes(c) => OwesIn(r, term) \/ (r.step = "idle" /\ r.ok = FALSE)
    PROVE  IInv'
  BY CommandFrame

(* A failing part of a procedure.                                          *)
LEMMA FailingStep ==
    ASSUME IInv, NEW c \in Commands, NEW r \in CommandState,
           r.proc = cmd[c].proc, cmd[c].step \notin {"apply", "rollback"},
           Continue(c, Return(r, FALSE)),
           ServiceOK', UNCHANGED <<settings, missed, daemon, term, lock>>,
           mount' = mount \/ mount' = "none"
    PROVE  IInv'
  <1>1. PICK q : q = Return(r, FALSE)
    OBVIOUS
  <1>2. /\ q \in CommandState /\ Proper(q) /\ q.step # "offline"
        /\ r.proc = "reload" =>
             q.step = "rollback" \/ (q.step = "idle" /\ q.ok = FALSE)
    BY <1>1, ReturnState
  <1>3. Owes(c) => OwesIn(q, term) \/ (q.step = "idle" /\ q.ok = FALSE)
    BY <1>2 DEF Owes, OwesIn
  <1> QED
    BY <1>1, <1>2, <1>3, PlainStep

(* A part of a procedure that does not owe a restart returns.              *)
LEMMA ReturningStep ==
    ASSUME IInv, NEW c \in Commands, NEW r \in CommandState, ~Owes(c),
           NEW ok \in BOOLEAN, Continue(c, Return(r, ok)),
           ServiceOK', UNCHANGED <<settings, missed, daemon, term, lock>>,
           mount' = mount \/ mount' = "none"
    PROVE  IInv'
  <1>1. PICK q : q = Return(r, ok)
    OBVIOUS
  <1>2. q \in CommandState /\ Proper(q) /\ q.step # "offline"
    BY <1>1, ReturnState
  <1> QED
    BY <1>1, <1>2, PlainStep

(* The next step of a procedure that is not in its last part.              *)
LEMMA GoingStep ==
    ASSUME IInv, NEW c \in Commands, NEW r \in CommandState,
           r.proc = cmd[c].proc, cmd[c].step \notin {"apply", "rollback"},
           NEW step \in {"stop", "stopping", "graceful", "detach", "gone",
                         "install", "restart"},
           Continue(c, [r EXCEPT !.step = step]),
           ServiceOK', UNCHANGED <<settings, missed, daemon, term, lock>>,
           mount' = mount \/ mount' = "none"
    PROVE  IInv'
  <1>1. PICK q : q = [r EXCEPT !.step = step]
    OBVIOUS
  <1>2. q \in CommandState /\ q.step = step /\ q.proc = r.proc
    BY <1>1 DEF CommandState, CommandSteps
  <1>3. Proper(q) /\ q.step # "offline"
    BY <1>2 DEF Proper
  <1>4. Owes(c) => OwesIn(q, term)
    BY <1>2 DEF Owes, OwesIn
  <1> QED
    BY <1>1, <1>2, <1>3, <1>4, PlainStep

(* runMount, runReload and runUnmount look at the service and the mount.   *)
LEMMA InspectKeeps ==
    ASSUME IInv, NEW c \in Commands, Inspect(c)
    PROVE  IInv'
  <1>1. PICK r : r = [cmd[c] EXCEPT !.running = Running, !.mounted = Mounted]
    OBVIOUS
  <1>2. r \in CommandState /\ r.proc = cmd[c].proc
    BY <1>1, CommandFacts DEF CommandState, Running, Mounted
  <1>3. /\ UNCHANGED <<settings, missed, daemon, term, lock, mount>> /\ ServiceOK'
        /\ cmd[c].step = "inspect"
    BY DEF Inspect, Saved, Supervised, IInv, TypeOK, ServiceOK, At
  <1>4. CASE \E step \in {"stop", "detach", "install"} :
               Continue(c, [r EXCEPT !.step = step])
    BY <1>2, <1>3, <1>4, GoingStep
  <1>5. CASE r.proc # "reload" /\ \E ok \in BOOLEAN : Continue(c, Return(r, ok))
    <2>1. ~Owes(c)
      BY <1>2, <1>3, <1>5 DEF Owes, OwesIn
    <2> QED
      BY <1>2, <1>3, <1>5, <2>1, ReturningStep
  <1>6. (unit /\ Running) \in BOOLEAN
    OBVIOUS
  <1> QED
    BY <1>1, <1>4, <1>5, <1>6 DEF Inspect

(* A stop job for the running process; what this command owes stays owed.  *)
LEMMA StopServiceKeeps ==
    ASSUME IInv, NEW c \in Commands, StopService(c)
    PROVE  IInv'
  <1>1. cmd[c] \in CommandState /\ Proper(cmd[c])
    BY CommandFacts
  <1>2. UNCHANGED <<settings, missed, daemon, lock, mount>> /\ cmd[c].step = "stop"
    BY DEF StopService, Saved, At
  <1>3. CASE /\ Continue(c, Return(cmd[c], FALSE)) /\ UNCHANGED term
             /\ unit' \in {unit, unit /\ cmd[c].proc # "unmount"}
             /\ wanted' \in {wanted, wanted /\ unit'}
             /\ (UNCHANGED faults \/ Fault)
    <2>1. unit' \in BOOLEAN /\ wanted' \in BOOLEAN
      BY <1>3 DEF IInv, TypeOK, ServiceOK
    <2>2. ServiceOK'
      BY <1>2, <1>3, <2>1, FaultType DEF IInv, TypeOK, ServiceOK
    <2> QED
      BY <1>1, <1>2, <1>3, <2>2, FailingStep
  <1>4. CASE /\ wanted' = FALSE /\ term' = Running /\ UNCHANGED <<unit, faults>>
             /\ Continue(c, [cmd[c] EXCEPT !.step = "stopping"])
    <2>1. PICK q : q = [cmd[c] EXCEPT !.step = "stopping"]
      OBVIOUS
    <2>2. q \in CommandState /\ q.step = "stopping" /\ q.proc = cmd[c].proc
      BY <1>1, <2>1 DEF CommandState, CommandSteps
    <2>3. Proper(q)
      BY <2>2 DEF Proper
    <2>4. Owes(c) => OwesIn(q, term')
      BY <1>2, <2>2 DEF Owes, OwesIn
    <2>5. ServiceOK'
      BY <1>2, <1>4 DEF IInv, TypeOK, ServiceOK, Running
    <2> QED
      BY <1>2, <1>4, <2>1, <2>2, <2>3, <2>4, <2>5, CommandFrame
  <1> QED
    BY <1>3, <1>4 DEF StopService

(* The unit is removed or kept, and the command waits for the mount.       *)
LEMMA StoppedKeeps ==
    ASSUME IInv, NEW c \in Commands, Stopped(c)
    PROVE  IInv'
  <1>1. cmd[c] \in CommandState /\ Proper(cmd[c])
    BY CommandFacts
  <1>2. /\ UNCHANGED <<settings, missed, daemon, term, lock, mount>>
        /\ ServiceOK' /\ cmd[c].step = "stopping"
    BY DEF Stopped, Saved, At, IInv, TypeOK, ServiceOK
  <1>3. CASE cmd[c].proc = "unmount" /\ Continue(c, Return(cmd[c], TRUE))
    <2>1. ~Owes(c)
      BY <1>2, <1>3 DEF Owes, OwesIn
    <2> QED
      BY <1>1, <1>2, <1>3, <2>1, ReturningStep
  <1>4. CASE \E step \in {"install", "graceful", "detach"} :
               Continue(c, [cmd[c] EXCEPT !.step = step])
    BY <1>1, <1>2, <1>4, GoingStep
  <1> QED
    BY <1>3, <1>4 DEF Stopped

(* The mount is gone: runUnmount returns and runReload goes on.            *)
LEMMA MountGoneStep ==
    ASSUME IInv, NEW c \in Commands, Continue(c, MountGone(cmd[c])),
           cmd[c].step \in {"graceful", "gone"},
           ServiceOK', UNCHANGED <<settings, missed, daemon, term, lock, mount>>
    PROVE  IInv'
  <1>1. cmd[c] \in CommandState
    BY CommandFacts
  <1>2. CASE cmd[c].proc = "unmount"
    <2>1. ~Owes(c)
      BY <1>2 DEF Owes, OwesIn
    <2>2. Continue(c, Return(cmd[c], TRUE))
      BY <1>2 DEF MountGone
    <2> QED
      BY <1>1, <2>1, <2>2, ReturningStep
  <1>3. CASE cmd[c].proc # "unmount"
    <2>1. Continue(c, [cmd[c] EXCEPT !.step = "install"])
      BY <1>3 DEF MountGone
    <2> QED
      BY <1>1, <2>1, GoingStep
  <1> QED
    BY <1>2, <1>3

(* The wait for the mount to go: it is gone, or the timeout has passed.    *)
LEMMA WaitGracefulKeeps ==
    ASSUME IInv, NEW c \in Commands, WaitGraceful(c)
    PROVE  IInv'
  <1>1. cmd[c] \in CommandState
    BY CommandFacts
  <1>2. /\ UNCHANGED <<settings, missed, daemon, term, lock, mount>>
        /\ ServiceOK' /\ cmd[c].step = "graceful"
    BY DEF WaitGraceful, Saved, Supervised, At, IInv, TypeOK, ServiceOK
  <1>3. CASE Continue(c, MountGone(cmd[c]))
    BY <1>2, <1>3, MountGoneStep
  <1>4. CASE Continue(c, [cmd[c] EXCEPT !.step = "detach"])
    BY <1>1, <1>2, <1>4, GoingStep
  <1> QED
    BY <1>3, <1>4 DEF WaitGraceful

(* A forced unmount takes the mount away and leaves the lock alone.        *)
LEMMA DetachKeeps ==
    ASSUME IInv, NEW c \in Commands, Detach(c)
    PROVE  IInv'
  <1>1. cmd[c] \in CommandState
    BY CommandFacts
  <1>2. /\ UNCHANGED <<settings, missed, daemon, term, lock>>
        /\ mount' = mount \/ mount' = "none"
        /\ ServiceOK' /\ cmd[c].step = "detach"
    BY FaultType DEF Detach, Saved, Supervised, At, IInv, TypeOK, ServiceOK
  <1>3. CASE Continue(c, [cmd[c] EXCEPT !.step = "gone"])
    BY <1>1, <1>2, <1>3, GoingStep
  <1>4. CASE Continue(c, Return(cmd[c], FALSE))
    BY <1>1, <1>2, <1>4, FailingStep
  <1> QED
    BY <1>3, <1>4 DEF Detach

(* The second wait, after the forced unmount.                              *)
LEMMA WaitGoneKeeps ==
    ASSUME IInv, NEW c \in Commands, WaitGone(c)
    PROVE  IInv'
  <1>1. cmd[c] \in CommandState
    BY CommandFacts
  <1>2. /\ UNCHANGED <<settings, missed, daemon, term, lock, mount>>
        /\ ServiceOK' /\ cmd[c].step = "gone"
    BY DEF WaitGone, Saved, Supervised, At, IInv, TypeOK, ServiceOK
  <1>3. CASE Continue(c, MountGone(cmd[c]))
    BY <1>2, <1>3, MountGoneStep
  <1>4. CASE Continue(c, Return(cmd[c], FALSE))
    BY <1>1, <1>2, <1>4, FailingStep
  <1> QED
    BY <1>3, <1>4 DEF WaitGone

(* The unit is installed, or the mount point is refused.                   *)
LEMMA InstallKeeps ==
    ASSUME IInv, NEW c \in Commands, Install(c)
    PROVE  IInv'
  <1>1. cmd[c] \in CommandState
    BY CommandFacts
  <1>2. /\ UNCHANGED <<settings, missed, daemon, term, lock, mount>>
        /\ ServiceOK' /\ cmd[c].step = "install"
    BY DEF Install, Saved, At, IInv, TypeOK, ServiceOK
  <1>3. CASE Continue(c, [cmd[c] EXCEPT !.step = "restart"])
    BY <1>1, <1>2, <1>3, GoingStep
  <1>4. CASE Continue(c, Return(cmd[c], FALSE))
    BY <1>1, <1>2, <1>4, FailingStep
  <1> QED
    BY <1>3, <1>4 DEF Install

(* The restart is owed until the old process, if there is one, has ended:  *)
(* a process that is not running has not loaded anything.                  *)
LEMMA RestartKeeps ==
    ASSUME IInv, NEW c \in Commands, Restart(c)
    PROVE  IInv'
  <1>1. cmd[c] \in CommandState
    BY CommandFacts
  <1>2. /\ UNCHANGED <<settings, missed, unit, daemon, lock, mount, faults>>
        /\ cmd[c].step = "restart"
    BY DEF Restart, Saved, At
  <1>3. CASE Continue(c, Return(cmd[c], FALSE)) /\ UNCHANGED <<wanted, term>>
    <2>1. ServiceOK'
      BY <1>2, <1>3 DEF IInv, TypeOK, ServiceOK
    <2> QED
      BY <1>1, <1>2, <1>3, <2>1, FailingStep
  <1>4. CASE /\ wanted' = TRUE /\ term' = Running
             /\ Continue(c, [cmd[c] EXCEPT !.step = "restarting"])
    <2>1. PICK q : q = [cmd[c] EXCEPT !.step = "restarting"]
      OBVIOUS
    <2>2. q \in CommandState /\ q.step = "restarting" /\ q.proc = cmd[c].proc
      BY <1>1, <2>1 DEF CommandState, CommandSteps
    <2>3. Proper(q)
      BY <2>2 DEF Proper
    <2>4. Owes(c) => OwesIn(q, term') \/ ~HasLoaded
      BY <1>2, <1>4, <2>2 DEF Owes, OwesIn, HasLoaded, Running
    <2>5. ServiceOK'
      BY <1>2, <1>4 DEF IInv, TypeOK, ServiceOK, Running
    <2> QED
      BY <1>2, <1>4, <2>1, <2>2, <2>3, <2>4, <2>5, CommandFrame
  <1> QED
    BY <1>3, <1>4 DEF Restart

(* systemctl restart returns once the old process has ended.               *)
LEMMA RestartedKeeps ==
    ASSUME IInv, NEW c \in Commands, Restarted(c)
    PROVE  IInv'
  <1>1. cmd[c] \in CommandState
    BY CommandFacts
  <1>2. /\ UNCHANGED <<settings, missed, daemon, term, lock, mount>>
        /\ ServiceOK' /\ cmd[c].step = "restarting" /\ ~term
    BY DEF Restarted, Saved, Supervised, At, IInv, TypeOK, ServiceOK
  <1>3. PICK q : q = [cmd[c] EXCEPT !.step = "wait"]
    OBVIOUS
  <1>4. q \in CommandState /\ q.step = "wait"
    BY <1>1, <1>3 DEF CommandState, CommandSteps
  <1>5. Proper(q) /\ ~Owes(c) /\ Continue(c, q)
    BY <1>2, <1>3, <1>4 DEF Proper, Owes, OwesIn, Restarted
  <1> QED
    BY <1>2, <1>4, <1>5, PlainStep

(* The wait for the mount to appear, and its timeout.                      *)
LEMMA WaitMountedKeeps ==
    ASSUME IInv, NEW c \in Commands, WaitMounted(c)
    PROVE  IInv'
  <1>1. cmd[c] \in CommandState
    BY CommandFacts
  <1>2. /\ UNCHANGED <<settings, missed, daemon, term, lock, mount>>
        /\ ServiceOK' /\ cmd[c].step = "wait"
    BY DEF WaitMounted, Saved, Supervised, At, IInv, TypeOK, ServiceOK
  <1>3. ~Owes(c)
    BY <1>2 DEF Owes, OwesIn
  <1>4. PICK ok \in BOOLEAN : ok = (mount = "live")
    OBVIOUS
  <1>5. Continue(c, Return(cmd[c], ok))
    BY <1>4 DEF WaitMounted
  <1> QED
    BY <1>1, <1>2, <1>3, <1>5, ReturningStep

-----------------------------------------------------------------------------
(* The commands' own steps.                                                *)

(* filesystemIsActive decides whether the service is stopped first.        *)
LEMMA AskKeeps ==
    ASSUME IInv, NEW c \in Commands, Ask(c)
    PROVE  IInv'
  <1>1. /\ UNCHANGED <<settings, missed, daemon, term, lock, mount>>
        /\ ServiceOK' /\ cmd[c].step = "ask"
    BY DEF Ask, Saved, Supervised, At, IInv, TypeOK, ServiceOK
  <1>2. ~Owes(c)
    BY <1>1 DEF Owes, OwesIn
  <1>3. PICK b \in BOOLEAN :
          b = (Mounted \/ (IF cmd[c].op = "unprotect" THEN unit ELSE Running))
    BY DEF IInv, TypeOK, ServiceOK, Running, Mounted
  <1>4. PICK r : r = [cmd[c] EXCEPT !.active = b]
    OBVIOUS
  <1>5. r \in CommandState
    BY <1>3, <1>4, CommandFacts DEF CommandState
  <1>6. PICK q : /\ Continue(c, q)
                 /\ \/ q = Call(r, "unmount")
                    \/ q = Local(r, "check") /\ r.op = "backup"
                    \/ q = Local(r, "save")
    BY <1>3, <1>4 DEF Ask
  <1>7. q \in CommandState /\ Proper(q) /\ q.step # "offline"
    BY <1>5, <1>6 DEF Call, Local, CommandState, CommandSteps, Proper
  <1> QED
    BY <1>1, <1>2, <1>6, <1>7, PlainStep

(* A save that fails leaves the old settings or the new ones.              *)
LEMMA FailedSave ==
    ASSUME IInv, NEW c \in Commands, NEW copy \in Versions, SaveFails(c, copy),
           UNCHANGED <<unit, wanted, term, daemon, lock, mount>>
    PROVE  ServiceOK' /\ (missed => missed') /\ settings' \in {settings, copy}
  <1>1. settings' \in {settings, copy} /\ missed' \in BOOLEAN /\ (missed => missed')
    <2>1. CASE SaveSettings(c, copy)
      BY <2>1 DEF SaveSettings, IInv, TypeOK, ServiceOK
    <2>2. CASE UNCHANGED Saved
      BY <2>2 DEF Saved, IInv, TypeOK, ServiceOK
    <2> QED
      BY <2>1, <2>2 DEF SaveFails
  <1>2. faults' \in Nat
    BY FaultType DEF SaveFails, IInv, TypeOK, ServiceOK
  <1> QED
    BY <1>1, <1>2 DEF IInv, TypeOK, ServiceOK

(* From the save on, config owes a restart; a save that fails is told.     *)
LEMMA SaveConfigurationKeeps ==
    ASSUME IInv, NEW c \in Commands, SaveConfiguration(c)
    PROVE  IInv'
  <1>1. cmd[c] \in CommandState /\ cmd[c].copy \in Versions
    BY CommandFacts DEF CommandState
  <1>2. UNCHANGED <<unit, wanted, term, daemon, lock, mount>>
    BY DEF SaveConfiguration, Supervised
  <1>3. CASE /\ SaveSettings(c, cmd[c].copy) /\ UNCHANGED faults
             /\ Continue(c, Local(cmd[c], "apply"))
    <2>1. PICK q : q = Local(cmd[c], "apply")
      OBVIOUS
    <2>2. q \in CommandState /\ q.step = "apply"
      BY <1>1, <2>1 DEF Local, CommandState, CommandSteps
    <2>3. Proper(q) /\ OwesIn(q, term')
      BY <2>2 DEF Proper, OwesIn
    <2>4. settings' = cmd[c].copy /\ missed' \in BOOLEAN /\ (missed => missed')
      BY <1>3 DEF SaveSettings, IInv, TypeOK, ServiceOK
    <2>5. ServiceOK'
      BY <1>1, <1>2, <1>3, <2>4 DEF IInv, TypeOK, ServiceOK
    <2> QED
      BY <1>2, <1>3, <2>1, <2>2, <2>3, <2>4, <2>5, CommandFrame
  <1>4. CASE SaveFails(c, cmd[c].copy) /\ Continue(c, Done(cmd[c], FALSE))
    <2>1. PICK q : q = Done(cmd[c], FALSE)
      OBVIOUS
    <2>2. q \in CommandState /\ q.step = "idle" /\ q.ok = FALSE
      BY <1>1, <2>1, DoneState
    <2>3. Proper(q)
      BY <2>2 DEF Proper
    <2>4. ServiceOK' /\ (missed => missed')
      BY <1>1, <1>2, <1>4, FailedSave
    <2> QED
      BY <1>2, <1>4, <2>1, <2>2, <2>3, <2>4, CommandFrame
  <1> QED
    BY <1>2, <1>3, <1>4 DEF SaveConfiguration

(* It reloads a mounted file system or tells the user to.                  *)
LEMMA ApplyConfigurationKeeps ==
    ASSUME IInv, NEW c \in Commands, ApplyConfiguration(c)
    PROVE  IInv'
  <1>1. cmd[c] \in CommandState
    BY CommandFacts
  <1>2. UNCHANGED <<settings, missed, daemon, term, lock, mount>> /\ ServiceOK'
    BY DEF ApplyConfiguration, Saved, Supervised, IInv, TypeOK, ServiceOK
  <1>3. CASE Continue(c, Call(cmd[c], "reload"))
    <2>1. PICK q : q = Call(cmd[c], "reload")
      OBVIOUS
    <2>2. q \in CommandState /\ q.step = "inspect" /\ q.proc = "reload"
      BY <1>1, <2>1 DEF Call, CommandState, CommandSteps
    <2>3. Proper(q) /\ OwesIn(q, term)
      BY <2>2 DEF Proper, OwesIn
    <2> QED
      BY <1>2, <1>3, <2>1, <2>2, <2>3, PlainStep
  <1>4. CASE /\ cmd' = [cmd EXCEPT ![c] = Idle] /\ told' = TRUE
             /\ UNCHANGED <<revision, begun>>
    <2>1. PICK q : q = Done(cmd[c], FALSE)
      OBVIOUS
    <2>2. q \in CommandState /\ q.step = "idle" /\ q.ok = FALSE
      BY <1>1, <2>1 DEF Done, CommandState, CommandSteps
    <2>3. Continue(c, q) /\ Proper(q)
      BY <1>4, <2>2 DEF Continue, Proper
    <2> QED
      BY <1>2, <2>2, <2>3, PlainStep
  <1> QED
    BY <1>3, <1>4 DEF ApplyConfiguration

(* An activation owes a restart if the service was active; otherwise no    *)
(* process has read the settings yet, or the activation is missed.         *)
LEMMA SaveSelectionKeeps ==
    ASSUME IInv, NEW c \in Commands, SaveSelection(c)
    PROVE  IInv'
  <1>1. cmd[c] \in CommandState /\ cmd[c].active \in BOOLEAN
    BY CommandFacts DEF CommandState
  <1>2. /\ UNCHANGED <<unit, wanted, term, daemon, lock, mount>>
        /\ cmd[c].step = "save" /\ cmd[c].op = "activate"
    BY DEF SaveSelection, Supervised, At
  <1>3. ~Owes(c)
    BY <1>2 DEF Owes, OwesIn
  <1>4. CASE SaveSettings(c, cmd[c].copy) /\ Continue(c, Restore(cmd[c])) /\ UNCHANGED faults
    <2>1. PICK q : q = Restore(cmd[c])
      OBVIOUS
    <2>2. /\ q \in CommandState
          /\ cmd[c].active => q.step = "inspect" /\ q.proc = "reload"
          /\ ~cmd[c].active => q.step = "idle"
      BY <1>1, <2>1, RestoreState
    <2>3. Proper(q) /\ q.step # "offline" /\ (cmd[c].active => OwesIn(q, term'))
      BY <1>1, <2>2 DEF Proper, OwesIn
    <2>4. /\ settings' = cmd[c].copy /\ missed' \in BOOLEAN /\ (missed => missed')
          /\ ~cmd[c].active => missed' \/ ~HasLoaded
      BY <1>1, <1>2, <1>4 DEF SaveSettings, HasLoaded, IInv, TypeOK, ServiceOK
    <2>5. ServiceOK'
      BY <1>1, <1>2, <1>4, <2>4 DEF IInv, TypeOK, ServiceOK, CommandState
    <2> QED
      BY <1>1, <1>2, <1>4, <2>1, <2>2, <2>3, <2>4, <2>5, CommandFrame
  <1>5. CASE /\ SaveFails(c, cmd[c].copy)
             /\ Continue(c, Restore([cmd[c] EXCEPT !.copy = cmd[c].loaded, !.ok = FALSE]))
    <2>1. PICK f : f = [cmd[c] EXCEPT !.copy = cmd[c].loaded, !.ok = FALSE]
      OBVIOUS
    <2>2. /\ f \in CommandState /\ f.active \in BOOLEAN /\ f.ok = FALSE
          /\ cmd[c].copy \in Versions
      BY <1>1, <2>1 DEF CommandState
    <2>3. PICK q : q = Restore(f)
      OBVIOUS
    <2>4. /\ q \in CommandState
          /\ f.active => q.step = "inspect" /\ q.proc = "reload"
          /\ ~f.active => q.step = "idle" /\ q.ok = FALSE
      BY <2>2, <2>3, RestoreState, DoneState DEF Restore
    <2>5. Proper(q) /\ q.step # "offline" /\ (f.active => OwesIn(q, term'))
      BY <2>2, <2>4 DEF Proper, OwesIn
    <2>6. ServiceOK' /\ (missed => missed')
      BY <1>2, <1>5, <2>2, FailedSave
    <2> QED
      BY <1>2, <1>5, <2>1, <2>2, <2>3, <2>4, <2>5, <2>6, CommandFrame
  <1> QED
    BY <1>2, <1>4, <1>5 DEF SaveSelection

(* A failed activation puts the old vault back and owes another restart.   *)
LEMMA RollBackSelectionKeeps ==
    ASSUME IInv, NEW c \in Commands, RollBackSelection(c)
    PROVE  IInv'
  <1>1. cmd[c] \in CommandState
    BY CommandFacts
  <1>2. PICK r : r = [cmd[c] EXCEPT !.copy.vault = cmd[c].loaded.vault]
    OBVIOUS
  <1>3. r \in CommandState
    BY <1>1, <1>2 DEF CommandState, Versions
  <1>4. UNCHANGED <<unit, wanted, term, daemon, lock, mount>>
    BY DEF RollBackSelection, Supervised
  <1>5. CASE SaveSettings(c, r.copy) /\ Continue(c, Call(r, "reload")) /\ UNCHANGED faults
    <2>1. PICK q : q = Call(r, "reload")
      OBVIOUS
    <2>2. q \in CommandState /\ q.step = "inspect" /\ q.proc = "reload"
      BY <1>3, <2>1 DEF Call, CommandState, CommandSteps
    <2>3. Proper(q) /\ OwesIn(q, term')
      BY <2>2 DEF Proper, OwesIn
    <2>4. settings' = r.copy /\ missed' \in BOOLEAN /\ (missed => missed')
      BY <1>5 DEF SaveSettings, IInv, TypeOK, ServiceOK
    <2>5. ServiceOK'
      BY <1>3, <1>4, <1>5, <2>4 DEF IInv, TypeOK, ServiceOK, CommandState
    <2> QED
      BY <1>4, <1>5, <2>1, <2>2, <2>3, <2>4, <2>5, CommandFrame
  <1>6. CASE SaveFails(c, r.copy) /\ Continue(c, Done(r, FALSE))
    <2>1. PICK q : q = Done(r, FALSE)
      OBVIOUS
    <2>2. q \in CommandState /\ q.step = "idle" /\ q.ok = FALSE
      BY <1>3, <2>1, DoneState
    <2>3. Proper(q)
      BY <2>2 DEF Proper
    <2>4. ServiceOK' /\ (missed => missed')
      BY <1>3, <1>4, <1>6, FailedSave DEF CommandState
    <2> QED
      BY <1>4, <1>6, <2>1, <2>2, <2>3, <2>4, CommandFrame
  <1> QED
    BY <1>2, <1>5, <1>6 DEF RollBackSelection

(* The deferred restart of a command that owed nothing.                    *)
LEMMA RestoringStep ==
    ASSUME IInv, NEW c \in Commands, NEW r \in CommandState, ~Owes(c),
           Continue(c, Restore(r)),
           ServiceOK', UNCHANGED <<settings, missed, daemon, term, mount>>,
           lock' = lock \/ (lock = c /\ lock' = Nil)
    PROVE  IInv'
  <1>1. PICK q : q = Restore(r)
    OBVIOUS
  <1>2. r.active \in BOOLEAN
    BY DEF CommandState
  <1>3. q \in CommandState /\ q.step \in {"inspect", "idle"}
    BY <1>1, <1>2, RestoreState
  <1>4. Proper(q) /\ q.step # "offline"
    BY <1>3 DEF Proper
  <1> QED
    BY <1>1, <1>3, <1>4, CommandFrame

(* The offline commands that look at the mount and not at the lock.        *)
LEMMA CheckUnmountedKeeps ==
    ASSUME IInv, NEW c \in Commands, CheckUnmounted(c)
    PROVE  IInv'
  <1>1. cmd[c] \in CommandState /\ Proper(cmd[c])
    BY CommandFacts
  <1>2. /\ UNCHANGED <<settings, missed, daemon, term, lock, mount>>
        /\ ServiceOK' /\ cmd[c].step = "check"
    BY DEF CheckUnmounted, Saved, Supervised, At, IInv, TypeOK, ServiceOK
  <1>3. ~Owes(c)
    BY <1>2 DEF Owes, OwesIn
  <1>4. CASE Continue(c, Restore([cmd[c] EXCEPT !.ok = FALSE]))
    <2>1. [cmd[c] EXCEPT !.ok = FALSE] \in CommandState
      BY <1>1, FailedState
    <2> QED
      BY <1>2, <1>3, <1>4, <2>1, RestoringStep
  <1>5. CASE Continue(c, Local(cmd[c], "offline"))
    <2>1. PICK q : q = Local(cmd[c], "offline")
      OBVIOUS
    <2>2. q \in CommandState /\ q.step = "offline" /\ q.op = cmd[c].op
      BY <1>1, <2>1 DEF Local, CommandState, CommandSteps
    <2>3. Proper(q) /\ q.op # "unprotect"
      BY <1>1, <1>2, <2>2 DEF Proper
    <2> QED
      BY <1>2, <1>3, <1>5, <2>1, <2>2, <2>3, PlainStep
  <1> QED
    BY <1>4, <1>5 DEF CheckUnmounted

(* unprotectFiles works offline only with the lock in its hands.           *)
LEMMA WaitForLockKeeps ==
    ASSUME IInv, NEW c \in Commands, WaitForLock(c)
    PROVE  IInv'
  <1>1. cmd[c] \in CommandState
    BY CommandFacts
  <1>2. /\ UNCHANGED <<settings, missed, daemon, unit, wanted, term, mount, faults>>
        /\ cmd[c].step = "lock"
    BY DEF WaitForLock, Saved, Supervised, At
  <1>3. ~Owes(c)
    BY <1>2 DEF Owes, OwesIn
  <1>4. CASE lock = Nil /\ lock' = c /\ Continue(c, Local(cmd[c], "offline"))
    <2>1. PICK q : q = Local(cmd[c], "offline")
      OBVIOUS
    <2>2. q \in CommandState /\ q.step = "offline"
      BY <1>1, <2>1 DEF Local, CommandState, CommandSteps
    <2>3. Proper(q) /\ ServiceOK'
      BY <1>2, <1>4, <2>2 DEF Proper, IInv, TypeOK, ServiceOK
    <2> QED
      BY <1>2, <1>3, <1>4, <2>1, <2>2, <2>3, CommandFrame
  <1>5. CASE Continue(c, Restore([cmd[c] EXCEPT !.ok = FALSE])) /\ UNCHANGED lock
    <2>1. [cmd[c] EXCEPT !.ok = FALSE] \in CommandState
      BY <1>1, FailedState
    <2>2. ServiceOK'
      BY <1>2, <1>5 DEF IInv, TypeOK, ServiceOK
    <2> QED
      BY <1>2, <1>3, <1>5, <2>1, <2>2, RestoringStep
  <1> QED
    BY <1>4, <1>5 DEF WaitForLock

(* The offline work ends, the lock is given up and the service restored.   *)
LEMMA WorkOfflineKeeps ==
    ASSUME IInv, NEW c \in Commands, WorkOffline(c)
    PROVE  IInv'
  <1>1. cmd[c] \in CommandState
    BY CommandFacts
  <1>2. /\ UNCHANGED <<settings, missed, daemon, unit, wanted, term, mount, faults>>
        /\ cmd[c].step = "offline"
        /\ lock' = lock \/ (lock = c /\ lock' = Nil)
        /\ Continue(c, Restore(cmd[c]))
    BY DEF WorkOffline, Saved, Supervised, At
  <1>3. ~Owes(c)
    BY <1>2 DEF Owes, OwesIn
  <1>4. ServiceOK'
    BY <1>2 DEF IInv, TypeOK, ServiceOK
  <1> QED
    BY <1>1, <1>2, <1>3, <1>4, RestoringStep

(* A command that is killed is seen to fail.                               *)
LEMMA CommandDiesKeeps ==
    ASSUME IInv, NEW c \in Commands, CommandDies(c)
    PROVE  IInv'
  <1>1. PICK q : q = Done(cmd[c], FALSE)
    OBVIOUS
  <1>2. q \in CommandState /\ q.step = "idle" /\ q.ok = FALSE
    BY <1>1, CommandFacts DEF Done, CommandState, CommandSteps
  <1>3. /\ UNCHANGED <<settings, missed, daemon, unit, wanted, term, mount>>
        /\ lock' = lock \/ (lock = c /\ lock' = Nil)
        /\ Continue(c, q) /\ Proper(q)
    BY <1>1, <1>2 DEF CommandDies, Saved, Supervised, Proper
  <1>4. ServiceOK'
    BY <1>3, FaultType DEF IInv, TypeOK, ServiceOK, CommandDies
  <1> QED
    BY <1>2, <1>3, <1>4, CommandFrame

(* The first step of a command: only backup and purge start at the check.  *)
LEMMA FirstStepState ==
    ASSUME IInv, NEW op \in Operations, NEW flag \in BOOLEAN
    PROVE  /\ FirstStep(op, flag) \in CommandState
           /\ FirstStep(op, flag).step # "offline"
           /\ Proper(FirstStep(op, flag))
  <1>1. settings \in Versions
    BY DEF IInv, TypeOK, ServiceOK
  <1>2. PICK v : v = IF op \in {"config", "activate"} THEN settings ELSE Idle.copy
    OBVIOUS
  <1>3. PICK l : l = IF op = "activate" THEN settings ELSE Idle.loaded
    OBVIOUS
  <1>4. PICK p : p = CASE op \in {"mount", "reload", "unmount"} -> op
                       [] op = "unprotect" /\ ~flag -> "unmount"
                       [] OTHER -> "none"
    OBVIOUS
  <1>5. PICK s : s = CASE op \in {"mount", "reload", "unmount"} -> "inspect"
                       [] op = "unprotect" /\ ~flag -> "inspect"
                       [] op = "config" -> "save"
                       [] op = "purge" \/ (op = "backup" /\ ~flag) -> "check"
                       [] OTHER -> "ask"
    OBVIOUS
  <1>6. Idle.copy \in Versions /\ Idle.loaded \in Versions
    BY ServiceAssumption DEF Idle, Versions
  <1>7. v \in Versions /\ l \in Versions
    BY <1>1, <1>2, <1>3, <1>6
  <1>8. p \in {"none", "mount", "reload", "unmount"}
    BY <1>4
  <1>9. s \in {"inspect", "save", "check", "ask"} /\ (s = "check" => op # "unprotect")
    BY <1>5
  <1>10. FirstStep(op, flag) =
           [Idle EXCEPT !.op = op, !.copy = v, !.loaded = l, !.proc = p, !.step = s]
    BY <1>2, <1>3, <1>4, <1>5 DEF FirstStep
  <1> QED
    BY <1>7, <1>8, <1>9, <1>10, IdleState DEF CommandState, CommandSteps, Proper

(* A command begins; none begins with offline work.                        *)
LEMMA BeginKeeps ==
    ASSUME IInv, NEW c \in Commands, NEW op \in Operations, NEW flag \in BOOLEAN,
           Begin(c, op, flag)
    PROVE  IInv'
  <1>1. PICK f : f = FirstStep(op, flag)
    OBVIOUS
  <1>2. f \in CommandState /\ f.step # "offline" /\ Proper(f)
    BY <1>1, FirstStepState
  <1>3. PICK v \in Vaults :
          cmd' = [cmd EXCEPT ![c] = [f EXCEPT !.copy.vault = v,
                    !.copy.revision = IF op = "config" THEN revision + 1 ELSE @]]
    BY <1>1 DEF Begin
  <1>4. PICK q : q = [f EXCEPT !.copy.vault = v,
                        !.copy.revision = IF op = "config" THEN revision + 1 ELSE @]
    OBVIOUS
  <1>5. q \in CommandState /\ q.step # "offline" /\ Proper(q)
    <2>1. revision + 1 \in Nat
      BY DEF IInv, TypeOK
    <2>2. PICK n \in Nat : n = IF op = "config" THEN revision + 1 ELSE f.copy.revision
      BY <1>2, <2>1 DEF CommandState, Versions
    <2>3. [f EXCEPT !.copy.vault = v] \in CommandState
      BY <1>2 DEF CommandState, Versions
    <2>4. PICK g \in CommandState : g = [f EXCEPT !.copy.vault = v]
      BY <2>3
    <2>5. g.copy.revision = f.copy.revision /\ g.step = f.step /\ g.op = f.op
      BY <1>2, <2>4 DEF CommandState, Versions
    <2>6. q = [g EXCEPT !.copy.revision = n]
      BY <1>4, <2>2, <2>4, <2>5
    <2>7. q \in CommandState /\ q.step = f.step /\ q.op = f.op
      BY <2>4, <2>5, <2>6 DEF CommandState, Versions
    <2> QED
      BY <1>2, <2>7 DEF Proper
  <1>6. /\ cmd[c].step = "idle" /\ cmd \in [Commands -> CommandState]
        /\ cmd' = [cmd EXCEPT ![c] = q]
        /\ UNCHANGED <<settings, missed, unit, wanted, term, daemon, lock, mount,
                       told, faults>>
        /\ revision' \in Nat /\ begun' \in Nat
    <2>1. cmd' = [cmd EXCEPT ![c] = q]
      BY <1>3, <1>4
    <2>2. UNCHANGED <<settings, missed, unit, wanted, term, daemon, lock, mount,
                      told, faults>>
      BY DEF Begin, Saved, Supervised
    <2>3. cmd[c].step = "idle" /\ cmd \in [Commands -> CommandState]
      BY DEF Begin, At, IInv, TypeOK
    <2>4. revision' \in Nat /\ begun' \in Nat
      BY DEF Begin, IInv, TypeOK
    <2> QED
      BY <2>1, <2>2, <2>3, <2>4
  <1>7. /\ cmd' \in [Commands -> CommandState] /\ cmd'[c] = q
        /\ \A d \in Commands : d # c => cmd'[d] = cmd[d]
    BY <1>5, <1>6
  <1>8. TypeOK' /\ AllProper'
    BY <1>5, <1>6, <1>7 DEF IInv, TypeOK, ServiceOK, AllProper, Proper
  <1>9. DaemonHolds'
    BY <1>6 DEF IInv, DaemonHolds
  <1>10. WorkerHolds'
    BY <1>5, <1>6, <1>7 DEF IInv, WorkerHolds, At
  <1>11. ~Owes(c)
    BY <1>6 DEF Owes, OwesIn
  <1>12. Debt'
    BY <1>6, <1>7, <1>11 DEF IInv, Debt, HasLoaded, Owes
  <1> QED
    BY <1>8, <1>9, <1>10, <1>12 DEF IInv

-----------------------------------------------------------------------------
(* Whatever the commands, systemd and the process do, the invariant stays. *)
LEMMA NextIInv == IInv /\ [Next]_vars => IInv'
  <1> SUFFICES ASSUME IInv, [Next]_vars PROVE IInv'
    OBVIOUS
  <1>1. CASE Fork \/ DaemonNext \/ DaemonCrash
    BY <1>1, ForkKeeps, LoadSettingsKeeps, AcquireInstanceLockKeeps,
       CheckMountKeeps, MountKeeps, HandleSignalsKeeps, ShutdownKeeps, ExitKeeps
       DEF DaemonNext
  <1>2. ASSUME NEW c \in Commands, CommandStep(c) PROVE IInv'
    BY <1>2, InspectKeeps, StopServiceKeeps, StoppedKeeps, WaitGracefulKeeps,
       DetachKeeps, WaitGoneKeeps, InstallKeeps, RestartKeeps, RestartedKeeps,
       WaitMountedKeeps, AskKeeps, SaveConfigurationKeeps,
       ApplyConfigurationKeeps, SaveSelectionKeeps, RollBackSelectionKeeps,
       CheckUnmountedKeeps, WaitForLockKeeps, WorkOfflineKeeps
       DEF CommandStep
  <1>3. CASE UNCHANGED vars
    BY <1>3 DEF vars, IInv, TypeOK, ServiceOK, AllProper, DaemonHolds,
       WorkerHolds, At, Debt, HasLoaded, Owes
  <1> QED
    BY <1>1, <1>2, <1>3, CommandDiesKeeps, BeginKeeps DEF Next

(* The invariant holds throughout; no fairness is needed for it.           *)
LEMMA AlwaysIInv == Spec => []IInv
  BY InitIInv, NextIInv, PTL DEF Spec

(* unprotectFiles works on the project and the vault only with the         *)
(* instance lock in its hands and no live mount, whatever other commands,  *)
(* systemd, crashes and failing system calls do.                           *)
THEOREM OfflineWorkIsExclusive == Spec => []OfflineExclusive
  <1>1. IInv => OfflineExclusive
    <2> SUFFICES ASSUME IInv, NEW c \in Commands, At(c, "offline"),
                        cmd[c].op = "unprotect"
                 PROVE  lock = c /\ mount # "live"
      BY DEF OfflineExclusive
    <2>1. lock = c
      BY DEF IInv, WorkerHolds
    <2>2. lock # Daemon
      BY <2>1, ServiceAssumption
    <2> QED
      BY <2>1, <2>2 DEF IInv, DaemonHolds, Locked
  <1> QED
    BY <1>1, AlwaysIInv, PTL

(* When every command has returned, a serving process works with the       *)
(* settings on disk, or the user was told that it does not.                *)
THEOREM ServesSavedSettings == Spec => []SettingsApplied
  <1>1. IInv => SettingsApplied
    <2> SUFFICES ASSUME IInv, Quiet, daemon.step = "serving", ~told, ~missed
                 PROVE  daemon.loaded = settings
      BY DEF SettingsApplied
    <2>1. \A c \in Commands : ~Owes(c)
      BY DEF Quiet, At, Owes, OwesIn
    <2> QED
      BY <2>1 DEF IInv, Debt, HasLoaded
  <1> QED
    BY <1>1, AlwaysIInv, PTL
=============================================================================
