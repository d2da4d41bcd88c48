----------------------------- MODULE ProjectFile -----------------------------
(***************************************************************************)
(* One project path while passfs commands turn it from a plaintext file    *)
(* into a protected link and back, and the user keeps working on it        *)
(* (internal/passfs/import.go, unprotect.go, symlink.go, object_index.go   *)
(* and the encrypt, edit and unprotect commands of cmd/passfs/main.go).    *)
(*                                                                         *)
(* Every save makes a new version, so equal versions stand for equal       *)
(* contents, size, mode and times (sameFileVersion and bytes.Equal).  by   *)
(* stands for the inode: the run that created the file, 0 for the user.    *)
(* The store behind the mount is atomic here; ObjectStore models what it   *)
(* takes to be so.                                                         *)
(***************************************************************************)
EXTENDS Integers, FiniteSets

CONSTANTS
    Commands,       \* passfs processes that can run at one time
    Objects,        \* object identifiers
    MaxVersion,     \* bound on user saves
    MaxBegun,       \* bound on commands started
    MaxFaults,      \* bound on crashes and I/O failures
    Nil

ASSUME ProjectFileAssumption ==
    /\ MaxVersion \in Nat \ {0} /\ MaxFaults \in Nat /\ MaxBegun \in Nat
    /\ Nil \notin Objects /\ Nil \notin Nat

VARIABLES
    path,       \* what the project path names
    staged,     \* what each command's private directory holds
    leftover,   \* files no running command is responsible for any more
    vault,      \* plaintext of each object, Nil when there is none
    registered, \* objects whose Links entry is the path
    mounted,    \* the service is running
    cmd,        \* progress of each command
    version,    \* the last version the user saved
    latest,     \* history: the version that must not be lost, 0 if none
    blind,      \* history: a removal hit what had changed since it was last looked at
    reported,   \* history: object and version an undisturbed command reported
    begun,      \* commands started, and so the number of the last run
    faults

vars == <<path, staged, leftover, vault, registered, mounted, cmd, version,
          latest, blind, reported, begun, faults>>

(* The contents of a file that was only created or truncated.              *)
Empty == 0

Versions == 0 .. MaxVersion

Runs == 0 .. MaxBegun
User == 0

None == [kind |-> "none", version |-> Empty, by |-> Nil, obj |-> Nil]
File(v, by) == [kind |-> "file", version |-> v, by |-> by, obj |-> Nil]
Link(o) == [kind |-> "link", version |-> Empty, by |-> Nil, obj |-> o]

Entries == {None} \cup {Link(o) : o \in Objects}
           \cup {File(v, b) : v \in Versions, b \in Runs}

(* mode: import creates the object, replace rewrites the one registered.   *)
(* seen is the file the command read (readSourceFile): its contents, and    *)
(* the identity sameFileVersion compares.                                  *)
(* touched: the user, or a command that took the object for another        *)
(* import's, has interfered since the file was read.                       *)
Idle == [step |-> "idle", mode |-> "none", run |-> User, obj |-> Nil,
         data |-> Empty, seen |-> None, touched |-> FALSE]

Steps == {"idle", "classify", "resolve", "editing", "read", "create", "write",
          "recheck", "exchange", "validate", "rollback", "undo", "register",
          "decrypt", "stage", "install", "check", "remove"}

CommandState == [step : Steps, mode : {"none", "import", "replace", "edit", "unprotect"},
                 run : Runs, obj : Objects \cup {Nil}, data : Versions, seen : Entries,
                 touched : BOOLEAN]

TypeOK ==
    /\ path \in Entries
    /\ staged \in [Commands -> Entries]
    /\ leftover \subseteq Entries
    /\ vault \in [Objects -> Versions \cup {Nil}]
    /\ registered \subseteq Objects
    /\ mounted \in BOOLEAN
    /\ cmd \in [Commands -> CommandState]
    /\ version \in Versions /\ latest \in Versions
    /\ blind \in BOOLEAN
    /\ reported \in (Objects \X Versions) \cup {Nil}
    /\ faults \in 0 .. MaxFaults /\ begun \in 0 .. MaxBegun

Init ==
    /\ path = File(1, User)
    /\ staged = [c \in Commands |-> None]
    /\ leftover = {}
    /\ vault = [o \in Objects |-> Nil]
    /\ registered = {}
    /\ mounted = TRUE
    /\ cmd = [c \in Commands |-> Idle]
    /\ version = 1 /\ latest = 1
    /\ blind = FALSE /\ reported = Nil
    /\ faults = 0 /\ begun = 0

-----------------------------------------------------------------------------
(* The user saves, writes in place or through the link, and deletes.       *)

UserActs ==
    /\ cmd' = [c \in Commands |-> [cmd[c] EXCEPT !.touched = cmd[c].step # "idle"]]
    /\ reported' = Nil
    /\ UNCHANGED <<staged, leftover, registered, mounted, blind, begun, faults>>

NewVersion ==
    /\ version < MaxVersion
    /\ version' = version + 1 /\ latest' = version + 1

(* A new file takes the path, whatever it named.                           *)
UserSave ==
    /\ NewVersion
    /\ path' = File(version + 1, User)
    /\ UNCHANGED vault /\ UserActs

UserWrite ==
    /\ NewVersion
    /\ \/ /\ path.kind = "file"
          /\ path' = [path EXCEPT !.version = version + 1]
          /\ UNCHANGED vault
       \/ /\ path.kind = "link" /\ mounted /\ vault[path.obj] # Nil
          /\ vault' = [vault EXCEPT ![path.obj] = version + 1]
          /\ UNCHANGED path
    /\ UserActs

UserDelete ==
    /\ path.kind # "none"
    /\ path' = None
    /\ latest' = 0
    /\ UNCHANGED <<vault, version>> /\ UserActs

-----------------------------------------------------------------------------
(* Commands in general.                                                    *)

Disk == <<path, staged, leftover>>
Store == <<vault, registered>>

GoTo(c, step) == cmd' = [cmd EXCEPT ![c].step = step]

Returns(c) ==
    /\ cmd' = [cmd EXCEPT ![c] = Idle]
    /\ UNCHANGED reported

Working(c, step) ==
    /\ cmd[c].step = step
    /\ UNCHANGED <<version, latest, begun>>

Begins(c, step, mode, o) ==
    /\ cmd[c].step = "idle" /\ mounted
    /\ begun < MaxBegun /\ begun' = begun + 1
    /\ cmd' = [cmd EXCEPT ![c] =
         [Idle EXCEPT !.step = step, !.mode = mode, !.run = begun + 1, !.obj = o]]
    /\ reported' = Nil
    /\ UNCHANGED <<version, latest, faults, blind>>

Fault == faults < MaxFaults /\ faults' = faults + 1

(* protectedObjectForSource: the registered object, or the one the link at *)
(* the path names.                                                         *)
Owners ==
    LET known == {o \in registered : vault[o] # Nil} IN
    IF known # {} THEN known
    ELSE IF path.kind = "link" /\ vault[path.obj] # Nil THEN {path.obj} ELSE {}

Unused == {o \in Objects : vault[o] = Nil /\ \A c \in Commands : cmd[c].obj # o}

(* Another command works on the same object.                               *)
Shared(c) == \E x \in Commands \ {c} : cmd[x].obj = cmd[c].obj

(* The path, or what a command has put aside, is a link to the object.     *)
Named(o) == Link(o) \in {path} \cup leftover \cup {staged[c] : c \in Commands}

(* The process dies.  Its staging directory stays; a target that was being *)
(* rewritten may have been flushed truncated when its handle was closed.   *)
Crash(c) ==
    /\ cmd[c].step # "idle"
    /\ Fault
    /\ leftover' = leftover \cup ({staged[c]} \ {None})
    /\ staged' = [staged EXCEPT ![c] = None]
    /\ \/ UNCHANGED vault
       \/ /\ cmd[c].step = "write" /\ mounted /\ vault[cmd[c].obj] # Nil
          /\ vault' = [vault EXCEPT ![cmd[c].obj] = Empty]
    /\ blind' = (blind \/ (vault' # vault /\ (Shared(c) \/ Named(cmd[c].obj))))
    /\ mounted' = (mounted \/ cmd[c].mode = "unprotect")
    /\ Returns(c)
    /\ UNCHANGED <<path, registered, version, latest, begun>>

-----------------------------------------------------------------------------
(* passfs encrypt                                                          *)

BeginEncrypt(c) ==
    /\ Begins(c, "classify", "import", Nil)
    /\ UNCHANGED Disk /\ UNCHANGED Store /\ UNCHANGED mounted

(* encryptPaths.  When the path is known to belong to an object, only a    *)
(* regular file in the link's place gets any further                       *)
(* (CanReplaceDisplacedProtectedTarget, under the reconciliation lock).    *)
Classify(c) ==
    /\ Working(c, "classify")
    /\ \/ \E o \in Owners \cap registered :
            /\ path.kind = "file" /\ mounted
            /\ cmd' = [cmd EXCEPT ![c].step = "read", ![c].mode = "replace", ![c].obj = o]
            /\ UNCHANGED reported
       \/ /\ Owners = {} \/ (path.kind = "file" /\ ~mounted)
          /\ GoTo(c, "resolve")
          /\ UNCHANGED reported
       \/ /\ Owners # {} /\ path.kind # "file"
          /\ Returns(c)
    /\ UNCHANGED Disk /\ UNCHANGED Store
    /\ UNCHANGED <<mounted, blind, faults>>

(* resolveImportPaths and the first half of importFile.  An object that is *)
(* there already gets its link back and nothing else; one that is empty    *)
(* while the path holds data was left by an interrupted import.            *)
Interrupted(o) == vault[o] = Empty /\ path.kind = "file" /\ path.version # Empty

Linkable(o) == path.kind = "none" \/ path = Link(o)

Resolve(c) ==
    /\ Working(c, "resolve")
    /\ \/ \E o \in IF Owners = {} /\ path.kind # "link" THEN Unused ELSE {} :
            /\ mounted
            /\ cmd' = [cmd EXCEPT ![c].step = "read", ![c].obj = o]
            /\ UNCHANGED <<path, vault, registered, reported>>
       \/ \E o \in {x \in Owners : Interrupted(x)} :
            /\ mounted
            /\ vault' = [vault EXCEPT ![o] = Nil]
            /\ registered' = registered \ {o}
            /\ cmd' = [x \in Commands |->
                 IF x = c THEN [cmd[c] EXCEPT !.step = "read", !.obj = o]
                 ELSE [cmd[x] EXCEPT !.touched = @ \/ cmd[x].obj = o]]
            /\ UNCHANGED <<path, reported>>
       \/ \E o \in {x \in Owners : ~Interrupted(x) /\ Linkable(x)} :
            /\ mounted /\ (vault[o] = Empty => path.kind = "none")
            /\ path' = Link(o)
            /\ cmd' = [cmd EXCEPT ![c].step = "register", ![c].obj = o]
            /\ UNCHANGED <<vault, registered, reported>>
       \/ /\ \/ ~mounted
             \/ (path.kind = "link" /\ Owners = {})
             \/ \E o \in Owners : ~Interrupted(o) /\
                  (~Linkable(o) \/ (vault[o] = Empty /\ path.kind # "none"))
          /\ Returns(c)
          /\ UNCHANGED <<path, vault, registered>>
    /\ UNCHANGED <<staged, leftover, mounted, blind, faults>>

(* Mutant: the file is opened without O_NOFOLLOW, so a link is followed.   *)
ReadThroughLink(c) ==
    /\ Working(c, "read")
    /\ path.kind # "none"
    /\ cmd' = [cmd EXCEPT ![c].seen = path,
         ![c].data = IF path.kind = "link" THEN vault[path.obj] ELSE path.version,
         ![c].step = IF cmd[c].mode = "import" THEN "create" ELSE "write"]
    /\ UNCHANGED Disk /\ UNCHANGED Store
    /\ UNCHANGED <<mounted, reported, blind, faults>>

(* readSourceFile                                                          *)
ReadSource(c) ==
    /\ Working(c, "read")
    /\ \/ /\ path.kind = "file"
          /\ cmd' = [cmd EXCEPT ![c].data = path.version, ![c].seen = path,
               ![c].touched = FALSE,
               ![c].step = IF cmd[c].mode = "import" THEN "create" ELSE "write"]
          /\ UNCHANGED reported
       \/ /\ path.kind # "file"
          /\ Returns(c)
    /\ UNCHANGED Disk /\ UNCHANGED Store
    /\ UNCHANGED <<mounted, blind, faults>>

(* The target is created exclusively, then written; the order leaves an    *)
(* empty object when the command dies between the two.                     *)
CreateTarget(c) ==
    /\ Working(c, "create")
    /\ \/ /\ mounted /\ vault[cmd[c].obj] = Nil
          /\ vault' = [vault EXCEPT ![cmd[c].obj] = Empty]
          /\ GoTo(c, "write")
          /\ UNCHANGED reported
       \/ /\ ~mounted \/ vault[cmd[c].obj] # Nil
          /\ Returns(c)
          /\ UNCHANGED vault
    /\ UNCHANGED Disk
    /\ UNCHANGED <<registered, mounted, blind, faults>>

(* What a failure after the target was opened leads to.                    *)
GivesUp(c) ==
    IF cmd[c].mode = "import" THEN GoTo(c, "undo") /\ UNCHANGED reported ELSE Returns(c)

(* A target the path has been linked to again is rewritten all the same.   *)
WriteTarget(c) ==
    /\ Working(c, "write")
    /\ \/ /\ mounted /\ vault[cmd[c].obj] # Nil
          /\ vault' = [vault EXCEPT ![cmd[c].obj] = cmd[c].data]
          /\ blind' = (blind \/ Shared(c) \/ Named(cmd[c].obj))
          /\ GoTo(c, "recheck")
          /\ UNCHANGED <<reported, faults>>
       \/ /\ IF mounted /\ vault[cmd[c].obj] # Nil THEN Fault ELSE UNCHANGED faults
          /\ GivesUp(c)
          /\ UNCHANGED <<vault, blind>>
    /\ UNCHANGED Disk
    /\ UNCHANGED <<registered, mounted>>

(* replaceRegularFileWithLink looks again before it exchanges anything.    *)
Recheck(c) ==
    /\ Working(c, "recheck")
    /\ \/ /\ path = cmd[c].seen
          /\ GoTo(c, "exchange")
          /\ UNCHANGED reported
       \/ /\ path # cmd[c].seen
          /\ GivesUp(c)
    /\ UNCHANGED Disk /\ UNCHANGED Store
    /\ UNCHANGED <<mounted, blind, faults>>

(* exchangePathWithSymlink: the link and whatever the path names now       *)
(* change places in one step.                                              *)
Exchange(c) ==
    /\ Working(c, "exchange")
    /\ \/ /\ path.kind # "none"
          /\ staged' = [staged EXCEPT ![c] = path]
          /\ path' = Link(cmd[c].obj)
          /\ GoTo(c, "validate")
          /\ UNCHANGED reported
       \/ /\ path.kind = "none"
          /\ GivesUp(c)
          /\ UNCHANGED <<path, staged>>
    /\ UNCHANGED leftover /\ UNCHANGED Store
    /\ UNCHANGED <<mounted, blind, faults>>

(* Mutant: any regular file is taken for the one that was read.            *)
DisplacedUnchecked(c) == staged[c].kind = "file"

(* The displaced entry is removed only when it is the file that was read.  *)
Displaced(c) == staged[c] = cmd[c].seen

ValidateDisplaced(c) ==
    /\ Working(c, "validate")
    /\ \/ /\ Displaced(c)
          /\ staged' = [staged EXCEPT ![c] = None]
          /\ \/ GoTo(c, "register") /\ UNCHANGED <<reported, faults>>
             \/ Fault /\ Returns(c)
       \/ /\ IF Displaced(c) THEN Fault ELSE UNCHANGED faults
          /\ GoTo(c, "rollback")
          /\ UNCHANGED <<staged, reported>>
    /\ UNCHANGED <<path, leftover>> /\ UNCHANGED Store
    /\ UNCHANGED <<mounted, blind>>

(* The displaced entry goes back.  What the path named meanwhile is then   *)
(* in the temporary directory, which is removed.                           *)
Rollback(c) ==
    /\ Working(c, "rollback")
    /\ \/ /\ path.kind # "none"
          /\ path' = staged[c]
          /\ GivesUp(c)
          /\ blind' = (blind \/ path # Link(cmd[c].obj)
                                       \/ vault[cmd[c].obj] # cmd[c].data)
          /\ UNCHANGED leftover
       \/ /\ path.kind = "none"
          /\ leftover' = leftover \cup {staged[c]}
          /\ Returns(c)
          /\ UNCHANGED <<path, blind>>
    /\ staged' = [staged EXCEPT ![c] = None]
    /\ UNCHANGED Store /\ UNCHANGED <<mounted, faults>>

(* The deferred removal of a target no link was installed for.  It does    *)
(* not look whether another command has linked or rewritten it since.      *)
UndoTarget(c) ==
    /\ Working(c, "undo")
    /\ \/ /\ mounted
          /\ vault' = [vault EXCEPT ![cmd[c].obj] = Nil]
          /\ registered' = registered \ {cmd[c].obj}
          /\ blind' = (blind \/ Shared(c) \/ Named(cmd[c].obj)
                           \/ vault[cmd[c].obj] \notin {cmd[c].data, Empty})
          /\ UNCHANGED faults
       \/ /\ IF mounted THEN Fault ELSE UNCHANGED faults
          /\ UNCHANGED <<vault, registered, blind>>
    /\ Returns(c)
    /\ UNCHANGED Disk
    /\ UNCHANGED mounted

(* Mutant: the link is recorded only when no object claims the path yet,   *)
(* whichever object that is.                                               *)
RegisterOnce(c) ==
    /\ Working(c, "register")
    /\ cmd' = [cmd EXCEPT ![c] = Idle]
    /\ registered' = IF registered = {} THEN {cmd[c].obj} ELSE registered
    /\ reported' = IF cmd[c].touched \/ cmd[c].seen = None
                       \/ \E x \in Commands \ {c} : cmd[x].step # "idle"
                    THEN Nil ELSE <<cmd[c].obj, cmd[c].data>>
    /\ UNCHANGED Disk
    /\ UNCHANGED <<vault, mounted, blind, faults>>

(* RegisterProtectedLinkInVault checks the link before it records it.      *)
Register(c) ==
    /\ Working(c, "register")
    /\ cmd' = [cmd EXCEPT ![c] = Idle]
    /\ \/ /\ path = Link(cmd[c].obj) /\ vault[cmd[c].obj] # Nil
          /\ registered' = registered \cup {cmd[c].obj}
          /\ reported' = IF cmd[c].touched \/ cmd[c].seen = None
                            \/ \E x \in Commands \ {c} : cmd[x].step # "idle"
                         THEN Nil ELSE <<cmd[c].obj, cmd[c].data>>
       \/ /\ ~(path = Link(cmd[c].obj) /\ vault[cmd[c].obj] # Nil)
          /\ UNCHANGED <<registered, reported>>
    /\ UNCHANGED Disk
    /\ UNCHANGED <<vault, mounted, blind, faults>>

-----------------------------------------------------------------------------
(* passfs edit: the link is made sure of, the editor runs, and a file it   *)
(* put in the link's place goes the way of a replacement.                  *)

BeginEdit(c) ==
    /\ \E o \in Owners :
         /\ Begins(c, "editing", "edit", o)
         /\ Linkable(o)
         /\ path' = Link(o)
         /\ registered' = registered \cup {o}
    /\ UNCHANGED <<staged, leftover, vault, mounted>>

ReconcileProtectedEdit(c) ==
    /\ Working(c, "editing")
    /\ IF path.kind = "file" THEN GoTo(c, "read") /\ UNCHANGED reported ELSE Returns(c)
    /\ UNCHANGED Disk /\ UNCHANGED Store
    /\ UNCHANGED <<mounted, blind, faults>>

-----------------------------------------------------------------------------
(* passfs unprotect FILE: the service stops, the plaintext changes places  *)
(* with the link, and then the object is removed.                          *)

BeginUnprotect(c) ==
    /\ Begins(c, "decrypt", "unprotect", Nil)
    /\ mounted' = FALSE
    /\ UNCHANGED Disk /\ UNCHANGED Store

(* restore: the service is started again.                                  *)
EndUnprotect(c) == mounted' = TRUE /\ Returns(c)

(* decryptFileWithIdentity and inspectUnprotectDestination.                *)
DecryptFile(c) ==
    /\ Working(c, "decrypt")
    /\ \/ \E o \in {x \in registered : vault[x] # Nil} :
            \/ /\ path = Link(o) \/ (path.kind = "file" /\ path.version = vault[o])
               /\ cmd' = [cmd EXCEPT ![c].obj = o, ![c].data = vault[o],
                    ![c].step = IF path.kind = "link" THEN "stage" ELSE "remove"]
               /\ UNCHANGED <<mounted, reported>>
            \/ /\ ~(path = Link(o) \/ (path.kind = "file" /\ path.version = vault[o]))
               /\ EndUnprotect(c)
       \/ /\ {x \in registered : vault[x] # Nil} = {}
          /\ EndUnprotect(c)
    /\ UNCHANGED Disk /\ UNCHANGED Store
    /\ UNCHANGED <<blind, faults>>

StagePlaintext(c) ==
    /\ Working(c, "stage")
    /\ \/ /\ staged' = [staged EXCEPT ![c] = File(cmd[c].data, cmd[c].run)]
          /\ GoTo(c, "install")
          /\ UNCHANGED <<mounted, reported, faults>>
       \/ /\ Fault
          /\ EndUnprotect(c)
          /\ UNCHANGED staged
    /\ UNCHANGED <<path, leftover>> /\ UNCHANGED Store
    /\ UNCHANGED blind

(* cleanup removes the staged file, and only that file.                    *)
Unstaged(c, e) == IF e = None \/ e.by = cmd[c].run THEN {} ELSE {e}

InstallPlaintext(c) ==
    /\ Working(c, "install")
    /\ \/ /\ path.kind # "none"
          /\ path' = staged[c]
          /\ staged' = [staged EXCEPT ![c] = path]
          /\ GoTo(c, "check")
          /\ UNCHANGED <<mounted, reported>>
       \/ /\ path.kind = "none"
          /\ staged' = [staged EXCEPT ![c] = None]
          /\ EndUnprotect(c)
          /\ UNCHANGED path
    /\ UNCHANGED leftover /\ UNCHANGED Store
    /\ UNCHANGED <<blind, faults>>

CheckDisplacedLink(c) ==
    /\ Working(c, "check")
    /\ \/ /\ staged[c] = Link(cmd[c].obj)
          /\ GoTo(c, "remove")
          /\ UNCHANGED <<path, leftover, mounted, reported, blind>>
       \/ /\ staged[c] # Link(cmd[c].obj)
          /\ IF path.kind # "none"
             THEN /\ path' = staged[c]
                  /\ leftover' = leftover \cup Unstaged(c, path)
                  /\ blind' = (blind \/ path # File(cmd[c].data, cmd[c].run))
             ELSE /\ leftover' = leftover \cup Unstaged(c, staged[c])
                  /\ UNCHANGED <<path, blind>>
          /\ EndUnprotect(c)
    /\ staged' = [staged EXCEPT ![c] = None]
    /\ UNCHANGED Store /\ UNCHANGED faults

(* removeMaterializedCiphertext.  Nothing looks at the path again.         *)
RemoveCiphertext(c) ==
    /\ Working(c, "remove")
    /\ \/ /\ vault' = [vault EXCEPT ![cmd[c].obj] = Nil]
          /\ registered' = registered \ {cmd[c].obj}
          /\ blind' = (blind \/ Shared(c) \/ Named(cmd[c].obj))
          /\ UNCHANGED faults
       \/ /\ Fault
          /\ UNCHANGED <<vault, registered, blind>>
    /\ EndUnprotect(c)
    /\ UNCHANGED Disk

-----------------------------------------------------------------------------
Step(c) ==
    \/ Classify(c) \/ Resolve(c) \/ ReadSource(c) \/ CreateTarget(c)
    \/ WriteTarget(c) \/ Recheck(c) \/ Exchange(c) \/ ValidateDisplaced(c)
    \/ Rollback(c) \/ UndoTarget(c) \/ Register(c) \/ ReconcileProtectedEdit(c)
    \/ DecryptFile(c) \/ StagePlaintext(c) \/ InstallPlaintext(c)
    \/ CheckDisplacedLink(c) \/ RemoveCiphertext(c)

Next ==
    \/ UserSave \/ UserWrite \/ UserDelete
    \/ \E c \in Commands :
         \/ BeginEncrypt(c) \/ BeginEdit(c) \/ BeginUnprotect(c)
         \/ Step(c) \/ Crash(c)

Spec == Init /\ [][Next]_vars

-----------------------------------------------------------------------------
Found(v) ==
    \/ \E e \in {path} \cup leftover \cup {staged[c] : c \in Commands} :
         e.kind = "file" /\ e.version = v
    \/ \E o \in Objects : vault[o] = v

(* No command loses what the user saved last: it is at the path, in an     *)
(* object of the vault or in a staging directory, wherever a command fails *)
(* or dies and whatever another one does meanwhile.  The exceptions are    *)
(* the removals that hit something other than what was last looked at      *)
(* (importFile, ReconcileProtectedEdit, exchangePathWithSymlink,           *)
(* unprotectFile).                                                         *)
LatestKept == latest = 0 \/ Found(latest) \/ blind

(* Once encrypt or edit has reported success and nobody has touched the    *)
(* path since it was read, the path is the link of a registered object and *)
(* the object holds what was read (ImportThroughMount,                     *)
(* ReconcileProtectedEdit, RegisterProtectedLinkInVault).                  *)
ReportedIsProtected ==
    (reported # Nil /\ ~blind) =>
        /\ path = Link(reported[1]) /\ reported[1] \in registered
        /\ vault[reported[1]] = reported[2]
=============================================================================
