----------------------------- MODULE HandleLocks -----------------------------
(***************************************************************************)
(* The locks of a mounted volume (internal/passfs/volume.go,               *)
(* file_handle.go, filesystem.go): namespaceMu, one path lock per object,  *)
(* and the open handles that keep them.  Every request is a goroutine of   *)
(* its own.  An open takes namespaceMu shared and then the path lock,      *)
(* shared or exclusive; a writable handle keeps both until it is closed, a *)
(* read-only one keeps the path lock alone.  Unlink tries namespaceMu and  *)
(* gives up when it is held; ConfigureAuthorization waits for it.          *)
(*                                                                         *)
(* Both locks are sync.RWMutex: a writer that waits keeps new readers out. *)
(* What a flush does to the vault is one step here; ObjectStore has its    *)
(* parts and its failures.                                                 *)
(***************************************************************************)
EXTENDS Naturals, FiniteSets

CONSTANTS
    Objects,    \* object identifiers
    Handles,    \* requests that are in flight or have become open handles
    Contents,   \* plaintexts
    Large,      \* the plaintexts that exceed the smaller size limit
    Empty,      \* the plaintext of length zero
    NoFile,     \* the object does not exist
    None,       \* nobody
    Calls       \* the calls clients make, a subset of Kinds

Kinds == {"read", "write", "truncate", "create", "createReadOnly", "chmod"}

ASSUME HandleAssumption ==
    /\ Calls \subseteq Kinds
    /\ Empty \in Contents \ Large
    /\ Large \subseteq Contents
    /\ NoFile \notin Contents
    /\ None \notin Handles \cup Objects \cup {"unlink", "configure"}

VARIABLES
    cipher,      \* cipher[o]: what objects/<o>.age decrypts to
    limit,       \* Volume.maxFileSize: "small" or "large"
    nsReaders,   \* who holds namespaceMu shared
    nsWriter,    \* who holds it exclusively
    nsPending,   \* the writer that waits for the readers to leave
    pathReaders, pathWriter, pathPending,  \* the same for each path lock
    step,        \* step[h]: how far request h has come
    kind,        \* kind[h]: what it asks for
    obj,         \* obj[h]: the object it names
    data,        \* OpenFile.data
    dirty,       \* OpenFile.dirty
    base,        \* what h loaded or last stored
    removing     \* the object an Unlink that holds namespaceMu removes

nsVars == <<nsReaders, nsWriter, nsPending>>
pathVars == <<pathReaders, pathWriter, pathPending>>
handleVars == <<step, kind, obj, data, dirty, base>>
vars == <<cipher, limit, nsVars, pathVars, handleVars, removing>>

Steps == {"free", "namespace", "path", "announced", "locked", "open"}

(* Only openFile without write access takes the path lock shared.          *)
Exclusive(k) == k # "read"

Writable(k) == k \in {"write", "truncate", "create"}

Creates(k) == k \in {"create", "createReadOnly"}

Fits(c) == limit = "large" \/ c \notin Large

TypeOK ==
    /\ cipher \in [Objects -> Contents \cup {NoFile}]
    /\ limit \in {"small", "large"}
    /\ nsReaders \in SUBSET Handles
    /\ nsWriter \in {None, "unlink", "configure"}
    /\ nsPending \in {None, "configure"}
    /\ pathReaders \in [Objects -> SUBSET Handles]
    /\ pathWriter \in [Objects -> Handles \cup {None}]
    /\ pathPending \in [Objects -> Handles \cup {None}]
    /\ step \in [Handles -> Steps]
    /\ kind \in [Handles -> Kinds]
    /\ obj \in [Handles -> Objects \cup {None}]
    /\ data \in [Handles -> Contents]
    /\ base \in [Handles -> Contents]
    /\ dirty \in [Handles -> BOOLEAN]
    /\ removing \in Objects \cup {None}

Init ==
    /\ cipher \in [Objects -> {NoFile, Empty}]
    /\ limit = "large"
    /\ nsReaders = {} /\ nsWriter = None /\ nsPending = None
    /\ pathReaders = [o \in Objects |-> {}]
    /\ pathWriter = [o \in Objects |-> None]
    /\ pathPending = [o \in Objects |-> None]
    /\ step = [h \in Handles |-> "free"]
    /\ kind = [h \in Handles |-> "read"]
    /\ obj = [h \in Handles |-> None]
    /\ data = [h \in Handles |-> Empty]
    /\ base = [h \in Handles |-> Empty]
    /\ dirty = [h \in Handles |-> FALSE]
    /\ removing = None

-----------------------------------------------------------------------------
(* Opening: openFile, createFile, and acquireOpenLock of a path chmod.     *)

MoveTo(h, s) == step' = [step EXCEPT ![h] = s]

Request(h, k, o) ==
    /\ step[h] = "free"
    /\ MoveTo(h, "namespace")
    /\ kind' = [kind EXCEPT ![h] = k]
    /\ obj' = [obj EXCEPT ![h] = o]
    /\ UNCHANGED <<cipher, limit, nsVars, pathVars, data, dirty, base, removing>>

(* namespaceMu.RLock.                                                      *)
LockNamespace(h) ==
    /\ step[h] = "namespace"
    /\ nsWriter = None /\ nsPending = None
    /\ nsReaders' = nsReaders \cup {h}
    /\ MoveTo(h, "path")
    /\ UNCHANGED <<cipher, limit, nsWriter, nsPending, pathVars, kind, obj,
                   data, dirty, base, removing>>

(* acquirePathLock: RLock of the entry's mutex.                            *)
LockPathShared(h) ==
    /\ step[h] = "path" /\ ~Exclusive(kind[h])
    /\ pathWriter[obj[h]] = None /\ pathPending[obj[h]] = None
    /\ pathReaders' = [pathReaders EXCEPT ![obj[h]] = @ \cup {h}]
    /\ MoveTo(h, "locked")
    /\ UNCHANGED <<cipher, limit, nsVars, pathWriter, pathPending, kind, obj,
                   data, dirty, base, removing>>

(* acquirePathLock: Lock announces itself, then waits for the readers.     *)
AnnouncePath(h) ==
    /\ step[h] = "path" /\ Exclusive(kind[h])
    /\ pathWriter[obj[h]] = None /\ pathPending[obj[h]] = None
    /\ pathPending' = [pathPending EXCEPT ![obj[h]] = h]
    /\ MoveTo(h, "announced")
    /\ UNCHANGED <<cipher, limit, nsVars, pathReaders, pathWriter, kind, obj,
                   data, dirty, base, removing>>

LockPathExclusive(h) ==
    /\ step[h] = "announced"
    /\ pathReaders[obj[h]] = {}
    /\ pathPending' = [pathPending EXCEPT ![obj[h]] = None]
    /\ pathWriter' = [pathWriter EXCEPT ![obj[h]] = h]
    /\ MoveTo(h, "locked")
    /\ UNCHANGED <<cipher, limit, nsVars, pathReaders, kind, obj, data, dirty,
                   base, removing>>

ReleasePath(h) ==
    /\ pathReaders' = [pathReaders EXCEPT ![obj[h]] = @ \ {h}]
    /\ pathWriter' = [pathWriter EXCEPT ![obj[h]] = IF @ = h THEN None ELSE @]
    /\ UNCHANGED pathPending

ReleaseNamespace(h) ==
    /\ nsReaders' = nsReaders \ {h}
    /\ UNCHANGED <<nsWriter, nsPending>>

(* Mutant: a writable handle, too, gives namespaceMu back.                 *)
FinishFileOpenReleases(h, c, d) ==
    /\ data' = [data EXCEPT ![h] = c]
    /\ dirty' = [dirty EXCEPT ![h] = d]
    /\ base' = [base EXCEPT ![h] = cipher'[obj[h]]]
    /\ MoveTo(h, "open")
    /\ ReleaseNamespace(h)

(* finishFileOpen: a read-only handle releases namespaceMu.                *)
FinishFileOpen(h, c, d) ==
    /\ data' = [data EXCEPT ![h] = c]
    /\ dirty' = [dirty EXCEPT ![h] = d]
    /\ base' = [base EXCEPT ![h] = cipher'[obj[h]]]
    /\ MoveTo(h, "open")
    /\ IF Writable(kind[h]) THEN UNCHANGED nsVars ELSE ReleaseNamespace(h)

(* Mutant: the object is read although virtualType did not find it.        *)
LoadExistingFileUnchecked(h) ==
    /\ step[h] = "locked" /\ kind[h] # "chmod"
    /\ UNCHANGED cipher
    /\ FinishFileOpen(h, cipher[obj[h]], FALSE)
    /\ UNCHANGED <<limit, pathVars, kind, obj, removing>>

(* loadExistingFile: the decrypted contents, or nothing after O_TRUNC.     *)
LoadExistingFile(h) ==
    /\ step[h] = "locked" /\ kind[h] # "chmod"
    /\ cipher[obj[h]] # NoFile
    /\ \/ /\ kind[h] = "truncate"
          /\ UNCHANGED cipher
          /\ FinishFileOpen(h, Empty, TRUE)
       \/ /\ kind[h] # "truncate" /\ Fits(cipher[obj[h]])
          /\ UNCHANGED cipher
          /\ FinishFileOpen(h, cipher[obj[h]], FALSE)
    /\ UNCHANGED <<limit, pathVars, kind, obj, removing>>

(* createFile of a new object persists it empty before it returns.         *)
CreateFile(h) ==
    /\ step[h] = "locked" /\ Creates(kind[h])
    /\ cipher[obj[h]] = NoFile
    /\ cipher' = [cipher EXCEPT ![obj[h]] = Empty]
    /\ FinishFileOpen(h, Empty, FALSE)
    /\ UNCHANGED <<limit, pathVars, kind, obj, removing>>

(* The request is over, or the handle closed and its plaintext wiped.      *)
Forget(h) ==
    /\ MoveTo(h, "free")
    /\ kind' = [kind EXCEPT ![h] = "read"]
    /\ obj' = [obj EXCEPT ![h] = None]
    /\ data' = [data EXCEPT ![h] = Empty]
    /\ dirty' = [dirty EXCEPT ![h] = FALSE]
    /\ base' = [base EXCEPT ![h] = Empty]

(* Mutant: the error path forgets the path lock.                           *)
AbandonLeaksPathLock(h) ==
    /\ Forget(h)
    /\ ReleaseNamespace(h)
    /\ UNCHANGED pathVars

(* The deferred unlocks of openFile, createFile and acquireOpenLock, and   *)
(* the ones Close makes.                                                   *)
Abandon(h) ==
    /\ Forget(h)
    /\ ReleasePath(h)
    /\ ReleaseNamespace(h)

(* The object is missing, O_EXCL finds it, authorization is denied, the    *)
(* contents exceed the limit, or the new object cannot be persisted, in    *)
(* which case it may have been left behind.                                *)
OpenFails(h) ==
    /\ step[h] = "locked" /\ kind[h] # "chmod"
    /\ Abandon(h)
    /\ \/ UNCHANGED cipher
       \/ /\ Creates(kind[h]) /\ cipher[obj[h]] = NoFile
          /\ cipher' = [cipher EXCEPT ![obj[h]] = Empty]
    /\ UNCHANGED <<limit, removing>>

(* SetAttributes on a path: only the index changes, then both locks go.    *)
SetFileMeta(h) ==
    /\ step[h] = "locked" /\ kind[h] = "chmod"
    /\ Abandon(h)
    /\ UNCHANGED <<cipher, limit, removing>>

-----------------------------------------------------------------------------
(* Open handles.                                                           *)

(* OpenFile.Write, and a change of size by SetAttributes.                  *)
Write(h, c) ==
    /\ step[h] = "open" /\ Writable(kind[h])
    /\ Fits(c)
    /\ data' = [data EXCEPT ![h] = c]
    /\ dirty' = [dirty EXCEPT ![h] = TRUE]
    /\ UNCHANGED <<cipher, limit, nsVars, pathVars, step, kind, obj, base,
                   removing>>

(* OpenFile.SetAttributes of a mode or a time: no test of writable.        *)
SetAttributes(h) ==
    /\ step[h] = "open"
    /\ dirty' = [dirty EXCEPT ![h] = TRUE]
    /\ UNCHANGED <<cipher, limit, nsVars, pathVars, step, kind, obj, data,
                   base, removing>>

(* persistFile refuses what exceeds the limit.                             *)
PersistFile(h) ==
    /\ Fits(data[h])
    /\ cipher' = [cipher EXCEPT ![obj[h]] = data[h]]

(* flushLocked through Flush.  When persistFile fails, the handle stays    *)
(* dirty, and the new contents may be in place all the same.               *)
Flush(h) ==
    /\ step[h] = "open" /\ dirty[h]
    /\ PersistFile(h)
    /\ base' = [base EXCEPT ![h] = data[h]]
    /\ \/ dirty' = [dirty EXCEPT ![h] = FALSE]
       \/ UNCHANGED dirty
    /\ UNCHANGED <<limit, nsVars, pathVars, step, kind, obj, data, removing>>

(* Close flushes what is dirty and, whatever comes of it, lets the locks   *)
(* go.                                                                     *)
Close(h) ==
    /\ step[h] = "open"
    /\ \/ dirty[h] /\ PersistFile(h)
       \/ UNCHANGED cipher
    /\ Abandon(h)
    /\ UNCHANGED <<limit, removing>>

-----------------------------------------------------------------------------
(* Namespace changes.                                                      *)

(* FileSystem.Unlink: tryNamespaceLock, EBUSY when it is taken.            *)
UnlinkLock(o) ==
    /\ nsReaders = {} /\ nsWriter = None /\ nsPending = None
    /\ nsWriter' = "unlink"
    /\ removing' = o
    /\ UNCHANGED <<cipher, limit, nsReaders, nsPending, pathVars, handleVars>>

UnlinkRemove ==
    /\ nsWriter = "unlink"
    /\ \/ cipher' = [cipher EXCEPT ![removing] = NoFile]
       \/ UNCHANGED cipher
    /\ nsWriter' = None
    /\ removing' = None
    /\ UNCHANGED <<limit, nsReaders, nsPending, pathVars, handleVars>>

(* ConfigureAuthorization: namespaceMu.Lock waits for the readers.         *)
ConfigureAnnounce ==
    /\ nsWriter = None /\ nsPending = None
    /\ nsPending' = "configure"
    /\ UNCHANGED <<cipher, limit, nsReaders, nsWriter, pathVars, handleVars,
                   removing>>

(* Mutant: the settings change without waiting for the readers.            *)
ConfigureLockAtOnce ==
    /\ nsPending = "configure"
    /\ nsPending' = None
    /\ nsWriter' = "configure"
    /\ UNCHANGED <<cipher, limit, nsReaders, pathVars, handleVars, removing>>

ConfigureLock ==
    /\ nsPending = "configure" /\ nsReaders = {}
    /\ nsPending' = None
    /\ nsWriter' = "configure"
    /\ UNCHANGED <<cipher, limit, nsReaders, pathVars, handleVars, removing>>

ConfigureAuthorization(l) ==
    /\ nsWriter = "configure"
    /\ limit' = l
    /\ nsWriter' = None
    /\ UNCHANGED <<cipher, nsReaders, nsPending, pathVars, handleVars, removing>>

-----------------------------------------------------------------------------
Opening(h) ==
    \/ LockNamespace(h) \/ LockPathShared(h)
    \/ AnnouncePath(h) \/ LockPathExclusive(h)
    \/ LoadExistingFile(h) \/ CreateFile(h) \/ OpenFails(h) \/ SetFileMeta(h)

Using(h) ==
    \/ \E c \in Contents : Write(h, c)
    \/ SetAttributes(h) \/ Flush(h) \/ Close(h)

Namespace ==
    \/ \E o \in Objects : UnlinkLock(o)
    \/ UnlinkRemove
    \/ ConfigureAnnounce \/ ConfigureLock
    \/ \E l \in {"small", "large"} : ConfigureAuthorization(l)

Next ==
    \/ \E h \in Handles :
          \/ \E k \in Calls, o \in Objects : Request(h, k, o)
          \/ Opening(h) \/ Using(h)
    \/ Namespace

(* A request that can go on does; a mutex serves its waiters in the end (a *)
(* sync.Mutex hands itself to a waiter that has starved, RWMutex.Unlock    *)
(* admits the readers that waited); a prompt is answered or fails; a       *)
(* client closes what it opened.  A request leaves each of its steps by    *)
(* the action of that step alone, so fairness of their disjunction is      *)
(* fairness of each.                                                       *)
Fairness ==
    /\ \A h \in Handles : SF_vars(Opening(h) \/ Close(h))
    /\ WF_vars(\/ UnlinkRemove \/ ConfigureLock
               \/ \E l \in {"small", "large"} : ConfigureAuthorization(l))

Spec == Init /\ [][Next]_vars

FairSpec == Spec /\ Fairness

-----------------------------------------------------------------------------
(* Properties.                                                             *)

WritableOpen(h) == step[h] = "open" /\ Writable(kind[h])

(* No lost update: while a writable handle is open, the object holds what  *)
(* that handle loaded or last flushed, so its next flush overwrites no     *)
(* contents it has not seen and brings no removed object back.             *)
WriterSeesStored ==
    \A h \in Handles : WritableOpen(h) => cipher[obj[h]] = base[h]

(* What a writable handle has loaded or accepted still fits when it is     *)
(* flushed: ConfigureAuthorization cannot lower maxFileSize under an open  *)
(* writer.                                                                 *)
AcceptedWriteFits ==
    \A h \in Handles : WritableOpen(h) => Fits(data[h])

InFlight(h) == step[h] \in {"namespace", "path", "announced", "locked"}

(* Every open, create and chmod returns, and so does                       *)
(* ConfigureAuthorization: no error path keeps a lock and no waiting       *)
(* writer shuts the others out for good, provided clients close their      *)
(* handles whatever else they wait for.                                    *)
LocksGranted ==
    /\ \A h \in Handles : InFlight(h) ~> ~InFlight(h)
    /\ (nsPending = "configure") ~> (nsPending = None /\ nsWriter # "configure")

=============================================================================
