------------------------------- MODULE LinkSync -------------------------------
(***************************************************************************)
(* The link synchronizer (internal/passfs/links.go, link_tracker.go and    *)
(* symlink.go): it follows the project-side symbolic links of protected    *)
(* objects while the user moves, copies, deletes and replaces them.        *)
(*                                                                         *)
(* A pass reads one thing at a time (a pathname, a kernel reference, a     *)
(* directory) and the user may act between any two reads.  It runs under   *)
(* the link reconciliation lock, which `passfs recovery restore` takes     *)
(* too, so the index changes during a pass only by the pass itself.        *)
(* Paths are <<directory, name>>; directories lie side by side below the   *)
(* home directory, each the search root of the links in it.  The private   *)
(* directory of a retirement or of an exchange is a name of its own.       *)
(***************************************************************************)
EXTENDS Integers, FiniteSets, FiniteSetsExt, Functions

CONSTANTS
    Objects,        \* protected objects, numbers in the order of their keys
    Dirs,           \* directories below the home directory
    Names,          \* file names the user uses
    Staging,        \* names of private directories, .passfs-retire-*, -link-*
    Inodes,         \* inode numbers, a bound on entries alive at one time
    FirstDir,       \* the directory that exists and holds the links at first
    FirstName,      \* [Objects -> Names], where each link is at first
    OldLinks,       \* objects whose link was made for another mount point
    MaxUser,        \* bound on user actions
    MaxFaults,      \* bound on restarts, unreadable directories, failed watches
    Nil             \* no path, no inode, no watcher

(* The parent of every directory: watched when a directory is gone.        *)
Home == "home"

Paths == Dirs \X (Names \cup Staging)
UserPaths == Dirs \X Names

ASSUME LinkSyncAssumption ==
    /\ Objects \subseteq Nat /\ Inodes \subseteq Nat
    /\ Injection(Objects, Inodes) # {}
    /\ MaxUser \in Nat /\ MaxFaults \in Nat
    /\ FirstDir \in Dirs
    /\ FirstName \in [Objects -> Names] /\ IsInjective(FirstName)
    /\ OldLinks \subseteq Objects
    /\ Names \cap Staging = {}
    /\ Nil \notin Objects \cup Paths \cup Inodes /\ Home \notin Dirs

VARIABLES
    dirs,       \* existing directories
    files,      \* what each path names
    meta,       \* the index entry of each object, as metadata.json has it
    tracker,    \* the inode each kernel reference keeps, or Nil
    watched,    \* directories the watcher is subscribed to, Nil without watcher
    event,      \* watcher.event holds a notification
    retry,      \* the last pass asked for a retry
    pass,       \* progress of Run and of the pass
    user,       \* user actions so far
    faults,     \* faults so far
    deleted,    \* history: objects a link of which the user deleted or replaced
    raced,      \* history: objects whose link moved while a pass was at work
    rebased,    \* history: objects whose record a pass moved onto another entry
    owned,      \* history: inodes of the user's files that the user still has
    overtaken   \* history: entries put at a path between its two exchanges

vars == <<dirs, files, meta, tracker, watched, event, retry, pass, user,
          faults, deleted, raced, rebased, owned, overtaken>>

history == <<deleted, raced, rebased, owned, overtaken>>

Absent == [kind |-> "none", obj |-> Nil, ino |-> Nil, old |-> FALSE]

(* old: the target names the object below another mount point.             *)
Link(o, ino, old) == [kind |-> "link", obj |-> o, ino |-> ino, old |-> old]

Regular(ino) == [kind |-> "file", obj |-> Nil, ino |-> ino, old |-> FALSE]

Entries ==
    {Absent} \cup {Regular(i) : i \in Inodes}
    \cup {Link(o, i, b) : o \in Objects, i \in Inodes, b \in BOOLEAN}

Record == [source : Paths, orphaned : {"no", "recent", "old"},
           recovery : {"none", "trash", "conflict"}, path : Paths \cup {Nil}]

(* The pass: object and the reads made for it, the lazily built search     *)
(* index with the directories still queued, and the moves it inferred.     *)
Off == [step |-> "off", object |-> Nil, todo |-> {}, link |-> Absent,
        moved |-> Nil, staged |-> Nil, listed |-> FALSE, queue |-> {},
        comprehensive |-> TRUE, index |-> {}, moves |-> {}]

Steps == {"off", "idle", "watch", "next", "keep", "swapped", "rollback",
          "discard", "ensure", "track", "search", "moved", "retire", "retired",
          "conflict", "adopt", "retrack"}

PassState ==
    [step : Steps, object : Objects \cup {Nil}, todo : SUBSET Objects,
     link : Entries, moved : Paths \cup {Nil}, staged : Paths \cup {Nil},
     listed : BOOLEAN, queue : SUBSET Dirs, comprehensive : BOOLEAN,
     index : SUBSET (Objects \X Paths),
     moves : SUBSET (Objects \X Dirs \X Dirs)]

TypeOK ==
    /\ dirs \subseteq Dirs
    /\ files \in [Paths -> Entries]
    /\ meta \in [Objects -> Record]
    /\ tracker \in [Objects -> Inodes \cup {Nil}]
    /\ (watched = Nil \/ watched \subseteq Dirs \cup {Home})
    /\ event \in BOOLEAN /\ retry \in BOOLEAN
    /\ pass \in PassState
    /\ user \in 0 .. MaxUser /\ faults \in 0 .. MaxFaults
    /\ deleted \subseteq Objects /\ raced \subseteq Objects
    /\ rebased \subseteq Objects
    /\ owned \subseteq Inodes /\ overtaken \subseteq Entries

(* The service is stopped and the links are in place.                      *)
Init ==
    /\ dirs = {FirstDir}
    /\ \E inode \in {CHOOSE f \in Injection(Objects, Inodes) : TRUE} :
         files = [p \in Paths |->
            IF p[1] = FirstDir /\ p[2] \in Range(FirstName)
            THEN LET o == CHOOSE x \in Objects : FirstName[x] = p[2]
                 IN Link(o, inode[o], o \in OldLinks)
            ELSE Absent]
    /\ meta = [o \in Objects |-> [source |-> <<FirstDir, FirstName[o]>>,
                 orphaned |-> "no", recovery |-> "none", path |-> Nil]]
    /\ tracker = [o \in Objects |-> Nil]
    /\ watched = Nil /\ event = FALSE /\ retry = FALSE
    /\ pass = Off
    /\ user = 0 /\ faults = 0
    /\ deleted = {} /\ raced = {} /\ rebased = {} /\ owned = {}
    /\ overtaken = {}

-----------------------------------------------------------------------------
(* The file system.                                                        *)

Exists(p) == files[p].kind # "none"

IsLink(p, o) == files[p].kind = "link" /\ files[p].obj = o

(* The path that names an inode, Nil when it is unlinked.                  *)
PathOf(ino) ==
    IF \E p \in Paths : files[p].ino = ino
    THEN CHOOSE p \in Paths : files[p].ino = ino ELSE Nil

(* An inode number neither an entry nor a kernel reference uses.           *)
FreshInodes ==
    Inodes \ ({files[p].ino : p \in Paths} \cup Range(tracker))

NewInode == Min(FreshInodes)

(* An inotify or kqueue event for a change in one of the directories ds.   *)
Notify(ds) == event' = (event \/ (watched # Nil /\ ds \cap watched # {}))

(* The directory of the index is watched whenever there is a watcher.      *)
NotifyIndex == event' = (event \/ watched # Nil)

-----------------------------------------------------------------------------
(* The user.                                                               *)

(* Objects whose link the running pass may have read already.              *)
Watching(o) ==
    /\ pass.step \notin {"off", "idle", "watch"}
    /\ o \in pass.todo \cup {pass.object}

UserStep == user < MaxUser /\ user' = user + 1

UserUnchanged ==
    UNCHANGED <<meta, tracker, watched, retry, pass, faults, rebased>>

(* Renaming an entry onto q replaces what q named.                         *)
UserMove(p, q) ==
    /\ UserStep
    /\ p # q /\ Exists(p) /\ q[1] \in dirs
    /\ files' = [files EXCEPT ![q] = files[p], ![p] = Absent]
    /\ Notify({p[1], q[1]})
    /\ deleted' = deleted \cup {o \in Objects : IsLink(q, o)}
         \cup {o \in Objects : meta[o].source = q /\ ~IsLink(p, o)}
    /\ raced' = raced \cup {o \in Objects : IsLink(p, o) /\ Watching(o)}
    /\ owned' = owned \ {files[q].ino}
    /\ UNCHANGED <<dirs, overtaken>> /\ UserUnchanged

UserDelete(p) ==
    /\ UserStep
    /\ Exists(p)
    /\ files' = [files EXCEPT ![p] = Absent]
    /\ Notify({p[1]})
    /\ deleted' = deleted \cup {o \in Objects : IsLink(p, o)}
    /\ owned' = owned \ {files[p].ino}
    /\ UNCHANGED <<dirs, raced, overtaken>> /\ UserUnchanged

(* Creating a file, or an editor's atomic save over the link.              *)
UserSave(p) ==
    /\ UserStep
    /\ p[1] \in dirs /\ FreshInodes # {}
    /\ files' = [files EXCEPT ![p] = Regular(NewInode)]
    /\ Notify({p[1]})
    /\ deleted' = deleted \cup
         {o \in Objects : IsLink(p, o) \/ meta[o].source = p}
    /\ owned' = (owned \ {files[p].ino}) \cup {NewInode}
    /\ overtaken' = overtaken \ {Regular(NewInode)}
    /\ UNCHANGED <<dirs, raced>> /\ UserUnchanged

(* An editor that keeps a backup: the link is moved to q and a new file    *)
(* takes its path, before anyone looks.                                    *)
UserBackupSave(p, q) ==
    /\ UserStep
    /\ files[p].kind = "link" /\ q[1] \in dirs /\ ~Exists(q) /\ FreshInodes # {}
    /\ files' = [files EXCEPT ![q] = files[p], ![p] = Regular(NewInode)]
    /\ Notify({p[1], q[1]})
    /\ deleted' = deleted \cup {files[p].obj} \cup {o \in Objects : meta[o].source = q}
    /\ owned' = owned \cup {NewInode}
    /\ overtaken' = overtaken \ {Regular(NewInode)}
    /\ UNCHANGED <<dirs, raced>> /\ UserUnchanged

(* cp -P: a second link to the same object.                                *)
UserCopy(p, q) ==
    /\ UserStep
    /\ files[p].kind = "link" /\ q[1] \in dirs /\ ~Exists(q) /\ FreshInodes # {}
    /\ files' = [files EXCEPT ![q] = [files[p] EXCEPT !.ino = NewInode]]
    /\ Notify({q[1]})
    /\ deleted' = deleted \cup {files[p].obj} \cup {o \in Objects : meta[o].source = q}
    /\ UNCHANGED <<dirs, raced, owned, overtaken>> /\ UserUnchanged

UserMakeDir(d) ==
    /\ UserStep
    /\ d \notin dirs
    /\ dirs' = dirs \cup {d}
    /\ Notify({Home})
    /\ UNCHANGED files /\ UNCHANGED history /\ UserUnchanged

(* Renaming a directory takes its entries and staging directories along,   *)
(* perhaps to where an object is registered that is no longer there.       *)
UserMoveDir(d, e) ==
    /\ UserStep
    /\ d \in dirs /\ e \notin dirs
    /\ dirs' = (dirs \ {d}) \cup {e}
    /\ files' = [p \in Paths |->
         CASE p[1] = e -> files[<<d, p[2]>>]
           [] p[1] = d -> Absent
           [] OTHER -> files[p]]
    /\ Notify({d, Home})
    /\ deleted' = deleted \cup
         {o \in Objects : LET p == <<d, meta[o].source[2]>> IN
             meta[o].source[1] = e /\ Exists(p) /\ ~IsLink(p, o)}
    /\ raced' = raced \cup
         {o \in Objects : Watching(o) /\ \E p \in Paths : p[1] = d /\ IsLink(p, o)}
    /\ UNCHANGED <<owned, overtaken>> /\ UserUnchanged

User ==
    \/ \E p \in UserPaths : UserDelete(p) \/ UserSave(p)
    \/ \E p, q \in UserPaths : UserMove(p, q) \/ UserBackupSave(p, q) \/ UserCopy(p, q)
    \/ \E d, e \in Dirs : UserMoveDir(d, e)
    \/ \E d \in Dirs : UserMakeDir(d)

-----------------------------------------------------------------------------
(* The index.  Every write of it is an event in its directory.             *)

SetMeta(o, m) ==
    /\ meta' = [meta EXCEPT ![o] = m]
    /\ IF m = meta[o] THEN UNCHANGED event ELSE NotifyIndex

SetLinkSource(o, p) ==
    SetMeta(o, [source |-> p, orphaned |-> "no", recovery |-> "none", path |-> Nil])

MarkLinkOrphan(o) ==
    SetMeta(o, [meta[o] EXCEPT !.orphaned = IF @ = "no" THEN "recent" ELSE @])

ClearLinkOrphan(o) ==
    SetMeta(o, [meta[o] EXCEPT !.orphaned = "no", !.recovery = "none", !.path = Nil])

MarkLinkRecovery(o, state) ==
    SetMeta(o, [meta[o] EXCEPT !.recovery = state, !.orphaned = "no",
                               !.path = IF @ = Nil THEN meta[o].source ELSE @])

(* trackedLinkDeletionGrace passes.                                        *)
GracePasses(o) ==
    /\ meta[o].orphaned = "recent"
    /\ meta' = [meta EXCEPT ![o].orphaned = "old"]
    /\ UNCHANGED <<dirs, files, tracker, watched, event, retry, pass, user, faults>>
    /\ UNCHANGED history

(* `passfs recovery restore`: under the reconciliation lock, it never      *)
(* overwrites an entry.                                                    *)
RestoreRecoveryLink(o) ==
    /\ UserStep
    /\ pass.step \in {"off", "idle", "watch"}
    /\ meta[o].recovery # "none"
    /\ LET p == meta[o].path IN
         /\ p[1] \in dirs
         /\ \/ /\ ~Exists(p) /\ FreshInodes # {}
               /\ files' = [files EXCEPT ![p] = Link(o, NewInode, FALSE)]
            \/ /\ IsLink(p, o) /\ ~files[p].old
               /\ UNCHANGED files
         /\ SetLinkSource(o, p)
         /\ deleted' = deleted \cup {x \in Objects \ {o} : meta[x].source = p}
    /\ UNCHANGED <<dirs, tracker, watched, retry, pass, faults>>
    /\ UNCHANGED <<raced, rebased, owned, overtaken>>

-----------------------------------------------------------------------------
(* Run.                                                                    *)

WatchDirectories ==
    {IF meta[o].source[1] \in dirs THEN meta[o].source[1] ELSE Home : o \in Objects}

Quiet == UNCHANGED <<dirs, user>> /\ UNCHANGED history

GoTo(step) == pass' = [pass EXCEPT !.step = step]

(* Prepare takes kernel references to the links that are in place.         *)
Prepare ==
    /\ pass.step = "off"
    /\ tracker' = [o \in Objects |->
         IF IsLink(meta[o].source, o) /\ ~files[meta[o].source].old
         THEN files[meta[o].source].ino ELSE Nil]
    /\ GoTo("watch")
    /\ UNCHANGED <<files, meta, watched, event, retry, faults>> /\ Quiet

(* A stop or a crash anywhere: references, index and watcher are gone.     *)
Stop ==
    /\ pass.step # "off"
    /\ faults < MaxFaults /\ faults' = faults + 1
    /\ tracker' = [o \in Objects |-> Nil]
    /\ watched' = Nil /\ event' = FALSE /\ retry' = FALSE
    /\ pass' = Off
    /\ UNCHANGED <<files, meta>> /\ Quiet

(* Synchronize takes the reconciliation lock and starts from the records.  *)
StartPass ==
    /\ pass' = [Off EXCEPT !.step = "next", !.todo = Objects]
    /\ retry' = FALSE
    /\ UNCHANGED <<files, meta, tracker>> /\ Quiet

(* The watcher is replaced only when the directories to watch changed; the *)
(* pass follows the subscription.                                          *)
Reconcile ==
    /\ pass.step = "watch"
    /\ IF watched = WatchDirectories
       THEN UNCHANGED <<watched, event>>
       ELSE watched' = WatchDirectories /\ event' = FALSE
    /\ StartPass
    /\ UNCHANGED faults

(* The subscription fails: an older watcher stays, if there is one.        *)
ReconcileUnwatched ==
    /\ pass.step = "watch"
    /\ watched # WatchDirectories
    /\ faults < MaxFaults /\ faults' = faults + 1
    /\ StartPass
    /\ UNCHANGED <<watched, event>>

(* The watcher reports an error and is closed.                             *)
WatcherError ==
    /\ pass.step = "idle" /\ watched # Nil
    /\ faults < MaxFaults /\ faults' = faults + 1
    /\ watched' = Nil /\ event' = FALSE
    /\ GoTo("watch")
    /\ UNCHANGED <<files, meta, tracker, retry>> /\ Quiet

(* An event, the retry timer, or the fallback timer without a watcher.     *)
Wake ==
    /\ pass.step = "idle"
    /\ event \/ retry \/ watched = Nil
    /\ event' = FALSE
    /\ GoTo("watch")
    /\ UNCHANGED <<files, meta, tracker, watched, retry, faults>> /\ Quiet

(* The safety timer, which fires after six hours.                          *)
SafetyTimer ==
    /\ pass.step = "idle"
    /\ GoTo("watch")
    /\ UNCHANGED <<files, meta, tracker, watched, event, retry, faults>> /\ Quiet

-----------------------------------------------------------------------------
(* One pass.                                                               *)

PassUnchanged == UNCHANGED <<watched, faults>> /\ Quiet

(* On to the next record; again asks for a retry (EBUSY or ErrNotExist).   *)
NextRecord(again) ==
    /\ pass' = [pass EXCEPT !.step = "next", !.object = Nil, !.link = Absent,
                            !.moved = Nil, !.staged = Nil]
    /\ retry' = (retry \/ again)

(* inspectProtectedLink at the registered path; linkRecords is sorted.     *)
Inspect ==
    /\ pass.step = "next" /\ pass.todo # {}
    /\ LET o == Min(pass.todo)
           link == files[meta[o].source]
       IN
         pass' = [pass EXCEPT !.todo = @ \ {o}, !.object = o, !.link = link,
             !.step = CASE link.kind = "link" /\ link.obj = o ->
                             IF link.old THEN "keep" ELSE "ensure"
                        [] ~(link.kind = "link" /\ link.obj = o)
                           /\ meta[o].recovery # "none" -> "next"
                        [] OTHER -> "track"]
    /\ UNCHANGED <<files, meta, tracker, event, retry>> /\ PassUnchanged

(* MkdirTemp makes up the name of a private directory: it is neither in    *)
(* use nor one that was recorded before, and which one does not matter.    *)
UnusedName(n) ==
    /\ \A d \in Dirs : ~Exists(<<d, n>>)
    /\ \A o \in Objects : meta[o].source[2] # n

NewStaging(n) == UnusedName(n) /\ n = CHOOSE m \in Staging : UnusedName(m)

(* The link that replaceProtectedLink is called for: the one at the        *)
(* registered path, or the one that was found elsewhere.                   *)
Target == IF pass.moved = Nil THEN meta[pass.object].source ELSE pass.moved

AfterRetarget == IF pass.moved = Nil THEN "ensure" ELSE "adopt"

(* exchangePathWithSymlink: a new link, made in a private directory,       *)
(* changes places with whatever the path names by now.                     *)
RetargetExchange ==
    /\ pass.step = "keep"
    /\ \/ /\ ~Exists(Target)
          /\ NextRecord(TRUE)
          /\ Notify({Target[1]} \cap dirs)
          /\ UNCHANGED files
       \/ \E n \in Staging :
            LET staged == <<Target[1], n>> IN
            /\ Exists(Target) /\ FreshInodes # {} /\ NewStaging(n)
            /\ files' = [files EXCEPT
                 ![Target] = Link(pass.object, NewInode, FALSE), ![staged] = files[Target]]
            /\ Notify({Target[1]})
            /\ pass' = [pass EXCEPT !.step = "swapped", !.staged = staged]
            /\ UNCHANGED retry
    /\ UNCHANGED <<meta, tracker>> /\ PassUnchanged

(* Mutant: what was displaced is removed without a look at it.             *)
RetargetValidateUnchecked ==
    /\ pass.step = "swapped"
    /\ files' = [files EXCEPT ![pass.staged] = Absent]
    /\ Notify({pass.staged[1]})
    /\ GoTo(AfterRetarget)
    /\ UNCHANGED <<meta, tracker, retry>> /\ PassUnchanged

(* The displaced entry is removed when it is the link that was read.       *)
RetargetValidate ==
    /\ pass.step = "swapped"
    /\ IF IsLink(pass.staged, pass.object) /\ files[pass.staged].old
       THEN /\ files' = [files EXCEPT ![pass.staged] = Absent]
            /\ Notify({pass.staged[1]})
            /\ GoTo(AfterRetarget)
       ELSE GoTo("rollback") /\ UNCHANGED <<files, event>>
    /\ UNCHANGED <<meta, tracker, retry>> /\ PassUnchanged

(* The second exchange takes the path's entry without a look at it.  When  *)
(* it fails, what was displaced stays in the private directory.            *)
RetargetRollback ==
    /\ pass.step = "rollback"
    /\ \/ /\ Exists(Target) /\ Exists(pass.staged)
          /\ files' = [files EXCEPT ![Target] = files[pass.staged],
                                    ![pass.staged] = files[Target]]
          /\ Notify({Target[1]})
          /\ GoTo("discard")
          /\ overtaken' = IF IsLink(Target, pass.object) THEN overtaken
                          ELSE overtaken \cup {files[Target]}
          /\ UNCHANGED retry
       \/ /\ ~(Exists(Target) /\ Exists(pass.staged))
          /\ NextRecord(TRUE)
          /\ UNCHANGED <<files, event, overtaken>>
    /\ UNCHANGED <<meta, tracker, watched, faults, dirs, user>>
    /\ UNCHANGED <<deleted, raced, rebased, owned>>

(* RemoveAll.  The directory may be gone by now, and may have been when    *)
(* it was synchronized, which asks for a retry.                            *)
RetargetDiscard ==
    /\ pass.step = "discard"
    /\ files' = [files EXCEPT ![pass.staged] = Absent]
    /\ IF Exists(pass.staged) THEN Notify({pass.staged[1]}) ELSE UNCHANGED event
    /\ \E again \in {FALSE, pass.staged[1] \notin dirs} : NextRecord(again)
    /\ UNCHANGED <<meta, tracker>> /\ PassUnchanged

(* tracker.ensure: a live reference must be to what p names; otherwise a   *)
(* reference is taken to whatever p names now.                             *)
Referenced(o) == tracker[o] # Nil /\ PathOf(tracker[o]) # Nil

Ensure(o, p) ==
    IF Referenced(o) THEN UNCHANGED tracker
    ELSE tracker' = [tracker EXCEPT ![o] = files[p].ino]

EnsureLink ==
    /\ pass.step = "ensure"
    /\ LET o == pass.object
           p == meta[o].source
       IN /\ Ensure(o, p)
          /\ NextRecord(~Exists(p))
          /\ IF Exists(p) /\ (Referenced(o) => files[p].ino = tracker[o])
             THEN ClearLinkOrphan(o)
             ELSE UNCHANGED <<meta, event>>
    /\ UNCHANGED files /\ PassUnchanged

(* tracker.state, and what follows from it when the link did not move.     *)
TrackState ==
    /\ pass.step = "track"
    /\ LET o == pass.object
           p == PathOf(tracker[o])
           tracked == tracker[o] # Nil
       IN \/ /\ ~tracked
             /\ GoTo("search")
             /\ UNCHANGED <<meta, tracker, event, retry>>
          \/ /\ tracked /\ p # Nil /\ p # meta[o].source
             /\ pass' = [pass EXCEPT !.step = "moved", !.moved = p]
             /\ UNCHANGED <<meta, tracker, event, retry>>
          \/ /\ tracked /\ p # Nil /\ p = meta[o].source
             /\ NextRecord(TRUE)
             /\ UNCHANGED <<meta, tracker, event>>
          \/ /\ tracked /\ p = Nil /\ pass.link.kind # "none"
             /\ MarkLinkRecovery(o, "conflict")
             /\ NextRecord(FALSE)
             /\ UNCHANGED tracker
          \/ /\ tracked /\ p = Nil /\ pass.link.kind = "none"
             /\ meta[o].orphaned # "old"
             /\ MarkLinkOrphan(o)
             /\ NextRecord(TRUE)
             /\ UNCHANGED tracker
          \/ /\ tracked /\ p = Nil /\ pass.link.kind = "none"
             /\ meta[o].orphaned = "old"
             /\ MarkLinkRecovery(o, "trash")
             /\ tracker' = [tracker EXCEPT ![o] = Nil]
             /\ NextRecord(FALSE)
    /\ UNCHANGED files /\ PassUnchanged

(* find: the links to the object at other paths that are indexed so far.   *)
Candidates(o) == {p \in Paths : <<o, p>> \in pass.index} \ {meta[o].source}

Indexed == pass.listed /\ pass.queue = {}

(* indexNextRoot and scanDirectory: the home directory is listed once, and *)
(* then one directory is read at a time.  One that cannot be read, or was  *)
(* renamed since, leaves the index incomplete.                             *)
ScanDirectory(d, readable) ==
    pass' = [pass EXCEPT
        !.listed = TRUE,
        !.queue = (IF pass.listed THEN @ ELSE dirs) \ {d},
        !.comprehensive = @ /\ readable /\ d \in dirs,
        !.index = IF readable
                  THEN @ \cup {x \in Objects \X Paths : x[2][1] = d /\ IsLink(x[2], x[1])}
                  ELSE @]

SearchScan ==
    /\ pass.step = "search"
    /\ Candidates(pass.object) = {} /\ ~Indexed
    /\ \E d \in IF pass.listed THEN pass.queue ELSE dirs :
         \/ /\ ScanDirectory(d, TRUE)
            /\ UNCHANGED faults
         \/ /\ faults < MaxFaults /\ faults' = faults + 1
            /\ ScanDirectory(d, FALSE)
    /\ UNCHANGED <<files, meta, tracker, watched, event, retry>> /\ Quiet

(* Mutant: any search that finds nothing proves the deletion.              *)
LinkMissingUnproved(o) ==
    MarkLinkRecovery(o, IF pass.link.kind = "none" THEN "trash" ELSE "conflict")

(* No reference and no other link: only a complete search is a proof.      *)
LinkMissing(o) ==
    \/ /\ pass.link.kind # "none"
       /\ MarkLinkRecovery(o, "conflict")
    \/ /\ pass.link.kind = "none" /\ ~pass.comprehensive
       /\ MarkLinkOrphan(o)
    \/ /\ pass.link.kind = "none" /\ pass.comprehensive
       /\ MarkLinkRecovery(o, "trash")

SearchEnds ==
    /\ pass.step = "search"
    /\ Candidates(pass.object) # {} \/ Indexed
    /\ LET o == pass.object IN
       \/ /\ Cardinality(Candidates(o)) > 1
          /\ MarkLinkOrphan(o)
          /\ NextRecord(FALSE)
       \/ \E p \in Candidates(o) :
            /\ Candidates(o) = {p}
            /\ pass' = [pass EXCEPT !.step = "moved", !.moved = p]
            /\ UNCHANGED <<meta, event, retry>>
       \/ /\ Candidates(o) = {}
          /\ LinkMissing(o)
          /\ NextRecord(FALSE)
    /\ UNCHANGED <<files, tracker>> /\ PassUnchanged

(* The moved path is inspected before anything is done with it.            *)
InspectMoved ==
    /\ pass.step = "moved"
    /\ LET o == pass.object IN
       \/ /\ ~IsLink(pass.moved, o)
          /\ MarkLinkRecovery(o, "conflict")
          /\ NextRecord(FALSE)
       \/ /\ IsLink(pass.moved, o) /\ pass.link.kind # "none"
          /\ GoTo("retire")
          /\ UNCHANGED <<meta, event, retry>>
       \/ /\ IsLink(pass.moved, o) /\ pass.link.kind = "none"
          /\ GoTo(IF files[pass.moved].old THEN "keep" ELSE "adopt")
          /\ UNCHANGED <<meta, event, retry>>
    /\ UNCHANGED <<files, tracker>> /\ PassUnchanged

(* retireProtectedLink: rename the entry into a private directory, look at *)
(* it there, and remove it or put it back.                                 *)
RetireStage ==
    /\ pass.step = "retire"
    /\ \/ /\ ~Exists(pass.moved)
          /\ GoTo("conflict")
          /\ UNCHANGED <<files, event>>
       \/ \E n \in Staging :
            LET staged == <<pass.moved[1], n>> IN
            /\ Exists(pass.moved) /\ NewStaging(n)
            /\ files' = [files EXCEPT ![staged] = files[pass.moved],
                                      ![pass.moved] = Absent]
            /\ Notify({pass.moved[1]})
            /\ pass' = [pass EXCEPT !.step = "retired", !.staged = staged]
    /\ UNCHANGED <<meta, tracker, retry>> /\ PassUnchanged

(* Mutant: what was staged is removed without another look.                *)
RetireValidateUnchecked ==
    /\ pass.step = "retired"
    /\ files' = [files EXCEPT ![pass.staged] = Absent]
    /\ Notify({pass.staged[1]})
    /\ GoTo("conflict")
    /\ UNCHANGED <<meta, tracker, retry>> /\ PassUnchanged

RetireValidate ==
    /\ pass.step = "retired"
    /\ \/ /\ IsLink(pass.staged, pass.object)
          /\ files' = [files EXCEPT ![pass.staged] = Absent]
          /\ Notify({pass.staged[1]})
          /\ GoTo("conflict")
          /\ UNCHANGED retry
       \/ /\ ~IsLink(pass.staged, pass.object)
          /\ IF ~Exists(pass.moved) /\ Exists(pass.staged)
             THEN /\ files' = [files EXCEPT ![pass.moved] = files[pass.staged],
                                            ![pass.staged] = Absent]
                  /\ Notify({pass.staged[1]})
             ELSE UNCHANGED <<files, event>>
          /\ NextRecord(FALSE)
    /\ UNCHANGED <<meta, tracker>> /\ PassUnchanged

RecordConflict ==
    /\ pass.step = "conflict"
    /\ MarkLinkRecovery(pass.object, "conflict")
    /\ tracker' = [tracker EXCEPT ![pass.object] = Nil]
    /\ NextRecord(FALSE)
    /\ UNCHANGED files /\ PassUnchanged

(* Mutant: the whole paths are counted, not the directories.               *)
InferredMovePaths(o, p, q) == {<<o, p, q>>}

(* inferLinkDirectoryMove: the file kept its name in another directory.    *)
InferredMove(o, p, q) ==
    IF p[2] = q[2] /\ p[1] # q[1] THEN {<<o, p[1], q[1]>>} ELSE {}

AdoptMoved ==
    /\ pass.step = "adopt"
    /\ SetLinkSource(pass.object, pass.moved)
    /\ pass' = [pass EXCEPT !.step = "retrack",
         !.moves = @ \cup InferredMove(pass.object, meta[pass.object].source, pass.moved)]
    /\ UNCHANGED <<files, tracker, retry>> /\ PassUnchanged

(* tracker.replace                                                         *)
Retrack ==
    /\ pass.step = "retrack"
    /\ tracker' = [tracker EXCEPT ![pass.object] = files[pass.moved].ino]
    /\ NextRecord(~Exists(pass.moved))
    /\ UNCHANGED <<files, meta, event>> /\ PassUnchanged

(* Directories that two links or more left for the same other directory,   *)
(* gone now: the records that are still below the old one follow.          *)
ConfirmedMoves ==
    {m \in Dirs \X Dirs :
        /\ Cardinality({x \in pass.moves : x[2] = m[1] /\ x[3] = m[2]}) >= 2
        /\ m[1] \notin dirs /\ m[2] \in dirs}

(* Mutant: the events that came during the pass are taken for its own.     *)
EndPassDrainsEvents ==
    /\ pass.step = "next" /\ pass.todo = {}
    /\ pass' = [Off EXCEPT !.step =
         IF watched # Nil /\ watched # WatchDirectories THEN "watch" ELSE "idle"]
    /\ event' = FALSE
    /\ UNCHANGED <<files, meta, retry, tracker>> /\ PassUnchanged

EndPass ==
    /\ pass.step = "next" /\ pass.todo = {}
    /\ \/ /\ ConfirmedMoves = {}
          /\ pass' = [Off EXCEPT !.step =
               IF watched # Nil /\ watched # WatchDirectories THEN "watch" ELSE "idle"]
          /\ UNCHANGED <<meta, event, retry, rebased>>
       \/ \E m \in ConfirmedMoves :
            LET left == {o \in Objects : meta[o].source[1] = m[1]}
                Below(o) == <<m[2], meta[o].source[2]>>
            IN
            /\ meta' = [o \in Objects |->
                 IF o \in left THEN [meta[o] EXCEPT !.source = Below(o)] ELSE meta[o]]
            /\ rebased' = rebased \cup
                 {o \in left : Exists(Below(o)) /\ ~IsLink(Below(o), o)}
            /\ NotifyIndex
            /\ retry' = (retry \/ left # {})
            /\ pass' = [pass EXCEPT !.moves = {x \in @ : <<x[2], x[3]>> # m}]
    /\ UNCHANGED <<files, tracker, watched, faults, dirs, user>>
    /\ UNCHANGED <<deleted, raced, owned, overtaken>>

-----------------------------------------------------------------------------
Synchronizer ==
    \/ Reconcile \/ Wake \/ Inspect \/ EnsureLink \/ TrackState
    \/ RetargetExchange \/ RetargetValidate \/ RetargetRollback \/ RetargetDiscard
    \/ SearchScan \/ SearchEnds \/ InspectMoved \/ RetireStage \/ RetireValidate
    \/ RecordConflict \/ AdoptMoved \/ Retrack \/ EndPass

Next ==
    \/ User \/ Prepare \/ Synchronizer
    \/ \E o \in Objects : RestoreRecoveryLink(o) \/ GracePasses(o)
    \/ Stop \/ ReconcileUnwatched \/ WatcherError \/ SafetyTimer

Spec == Init /\ [][Next]_vars

(* The service is running, its goroutine keeps going, its timers fire and  *)
(* time passes; users, faults and the six-hour timer owe nothing.          *)
FairSpec ==
    /\ Spec
    /\ WF_vars(Prepare) /\ WF_vars(Synchronizer)
    /\ \A o \in Objects : WF_vars(GracePasses(o))

-----------------------------------------------------------------------------
(* A file the user created is never removed or overwritten by the          *)
(* synchronizer: it is where the user put it or preserved in a private     *)
(* directory (retireProtectedLink, replaceProtectedLink).  Only the second *)
(* exchange of a replacement that found something else than the link it    *)
(* expected may take what was put at the path after the first one          *)
(* (exchangePathWithSymlink).                                              *)
UserFilesKept ==
    \A i \in owned : Regular(i) \in overtaken \/ \E p \in Paths : files[p] = Regular(i)

(* An object goes to recovery only because the user deleted, copied or     *)
(* replaced its link, or the link moved while the pass was looking for it  *)
(* or onto a path between its two exchanges, or the record was rebased     *)
(* onto a path that names something else (synchronizeOpaqueLinksOnce,      *)
(* exchangePathWithSymlink, rebaseLinkSources).                            *)
RecoveryHasCause ==
    \A o \in Objects :
        meta[o].recovery # "none" =>
            \/ o \in deleted \cup raced \cup rebased
            \/ \E entry \in overtaken : entry.obj = o

(* The record of an object agrees with its path: the link is there and the *)
(* record is clean, or it is not and the record says so.  A second link at *)
(* the path of one that moved away is reported and left alone.             *)
Settled(o) ==
    IF IsLink(meta[o].source, o)
    THEN \/ meta[o].recovery = "none" /\ meta[o].orphaned = "no"
         \/ Referenced(o) /\ tracker[o] # files[meta[o].source].ino
    ELSE meta[o].recovery # "none" \/ meta[o].orphaned # "no"

(* The path named something else by the time ensure took its reference.    *)
Mistracked(o) == Referenced(o) /\ ~IsLink(PathOf(tracker[o]), o)

(* When the user is done every record comes to agree with the file system, *)
(* by events and retries alone: no change is lost between a subscription   *)
(* and a pass, and a directory a link moved to is watched in turn (Run).   *)
RecordsSettle ==
    <>[](\A o \in Objects : Settled(o) \/ Mistracked(o))
=============================================================================
