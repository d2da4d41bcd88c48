--------------------------- MODULE LinkSyncProofs ---------------------------
(***************************************************************************)
(* Proofs about LinkSync, for any objects, directories, names and bounds.  *)
(*                                                                         *)
(* An object is clean while nothing that RecoveryHasCause accepts as a     *)
(* cause has happened to it.  The inductive invariant says what the pass   *)
(* knows of a clean object: it has a link, its registered path names a     *)
(* link to it or nothing, its kernel reference is to such a link, and what *)
(* the pass has read of it, up to the search index, is still so.  A stop   *)
(* in the middle of a retargeting leaves it a second link.                 *)
(***************************************************************************)
EXTENDS LinkSync, WellFoundedInduction, TLAPS

Resting == {"off", "idle", "watch"}

(* The steps of a retargeting, and those at which something is staged.     *)
Staged == {"swapped", "rollback", "discard"}

Retargeting == {"keep"} \cup Staged

(* An entry lies in a directory that exists and has an inode of its own.   *)
EntriesInDirs == \A p \in Paths : Exists(p) => p[1] \in dirs

OneNameEach ==
    \A p, q \in Paths : Exists(p) /\ files[p].ino = files[q].ino => p = q

(* An object in recovery remembers where its link was.                     *)
RecoveryPath == \A o \in Objects : meta[o].recovery # "none" => meta[o].path \in Paths

(* The step of a pass says which of its reads there are.                   *)
PassShape ==
    /\ pass.step \in Resting => pass.todo = {} /\ pass.object = Nil
    /\ pass.step = "next" => pass.moved = Nil
    /\ pass.step \notin Resting \cup {"next"} =>
          pass.object \in Objects /\ pass.object \notin pass.todo
    /\ pass.step \in {"moved", "retire", "retired", "adopt", "retrack"} =>
          pass.moved \in Paths
    /\ pass.step = "retired" =>
          pass.staged \in Paths /\ pass.staged[1] = pass.moved[1]
    /\ pass.step \in Staged =>
          /\ pass.staged \in Paths /\ pass.staged[2] \in Staging
          /\ pass.staged # Target /\ pass.staged[1] = Target[1]

(* The name of a private directory is used once, and what is discarded is  *)
(* a link of the pass's own or was put in the way of the second exchange.  *)
StagedAlone ==
    pass.step \in {"swapped", "rollback"} =>
        \A p, q \in Paths :
            p[2] = pass.staged[2] /\ q[2] = pass.staged[2] /\ Exists(p) /\ Exists(q)
                => p = q

DiscardSpares ==
    pass.step = "discard" =>
        \A p \in Paths, i \in owned :
            p[2] = pass.staged[2] /\ files[p] = Regular(i) => Regular(i) \in overtaken

StagingInv == StagedAlone /\ DiscardSpares

Clean(o) ==
    /\ o \notin deleted \cup raced \cup rebased
    /\ \A entry \in overtaken : entry.obj # o

(* What the running pass has still to look at, or is looking at.           *)
InPass(o) == o = pass.object \/ o \in pass.todo

(* Objects the search index still matters to.                              *)
Searching(o) ==
    o \in pass.todo \/ (o = pass.object /\ pass.step \in {"track", "search"})

HasLink(o) == \E p \in Paths : IsLink(p, o)

SourceClear(o) == Exists(meta[o].source) => IsLink(meta[o].source, o)

TrackerTrue(o) ==
    tracker[o] # Nil =>
        \E p \in Paths : /\ IsLink(p, o) /\ ~files[p].old
                         /\ files[p].ino = tracker[o]

(* The search index holds nothing else than links to the object, and it    *)
(* holds each of them when its directory was read.                         *)
IndexTrue(o) ==
    Searching(o) =>
        /\ \A p \in Paths : <<o, p>> \in pass.index => IsLink(p, o)
        /\ pass.listed /\ pass.comprehensive =>
              \A p \in Paths : IsLink(p, o) =>
                  p[1] \in pass.queue \/ <<o, p>> \in pass.index

(* The reads made for the object the pass is at.                           *)
StepTrue(o) ==
    o = pass.object =>
        /\ pass.step \notin {"retire", "retired", "conflict", "rollback", "discard"}
        /\ pass.step = "keep" => IsLink(Target, o) /\ files[Target].old
        /\ pass.step = "swapped" =>
              /\ IsLink(Target, o) /\ ~files[Target].old
              /\ IsLink(pass.staged, o) /\ files[pass.staged].old
        /\ pass.step = "ensure" =>
              IsLink(meta[o].source, o) /\ ~files[meta[o].source].old
        /\ pass.step \in {"track", "search"} => ~Exists(meta[o].source)
        /\ pass.step \in {"track", "search", "moved"} => pass.link.kind = "none"
        /\ pass.step \in {"moved", "adopt", "retrack"} => IsLink(pass.moved, o)
        /\ pass.step \in {"adopt", "retrack"} => ~files[pass.moved].old

(* A retirement moves no link the pass has still to look at, and puts      *)
(* nothing back onto a registered path.                                    *)
RetireTrue(o) ==
    /\ pass.step \in {"retire", "retired"} => meta[o].source # pass.moved
    /\ pass.step = "retire" /\ o \in pass.todo => ~IsLink(pass.moved, o)
    /\ pass.step = "retired" /\ o \in pass.todo => ~IsLink(pass.staged, o)

(* A retargeting exchanges no registered path of another object and no     *)
(* link the pass has still to look at, and discards no link to the object. *)
RetargetTrue(o) ==
    /\ pass.step \in Retargeting /\ o # pass.object => meta[o].source # Target
    /\ pass.step \in Staged => meta[o].source # pass.staged
    /\ pass.step \in Retargeting /\ o \in pass.todo => ~IsLink(Target, o)
    /\ pass.step \in Staged /\ o \in pass.todo => ~IsLink(pass.staged, o)
    /\ pass.step = "discard" =>
          \A p \in Paths : p[2] = pass.staged[2] => ~IsLink(p, o)

(* What is true of the object itself, and of the pass that is under way.   *)
ObjectTrue(o) ==
    /\ meta[o].recovery = "none"
    /\ HasLink(o)
    /\ SourceClear(o)
    /\ TrackerTrue(o)

PassTrue(o) == IndexTrue(o) /\ StepTrue(o) /\ RetireTrue(o) /\ RetargetTrue(o)

CleanTrue(o) == ObjectTrue(o) /\ PassTrue(o)

CleanObjects == \A o \in Objects : Clean(o) => CleanTrue(o)

FilesInv == EntriesInDirs /\ OneNameEach /\ UserFilesKept

IInv ==
    /\ TypeOK
    /\ FilesInv
    /\ RecoveryPath
    /\ PassShape
    /\ StagingInv
    /\ CleanObjects

-----------------------------------------------------------------------------
(* Entries, inodes and numbers.                                            *)

(* A nonempty set of numbers has a least element: linkRecords is sorted.   *)
LEMMA LeastNumber ==
    ASSUME NEW T \in SUBSET Nat, T # {}
    PROVE  Min(T) \in T
  <1>1. PICK R : R = OpToRel(<, Nat)
    OBVIOUS
  <1>2. R = {ss \in Nat \X Nat : ss[1] < ss[2]}
    BY <1>1 DEF OpToRel
  <1>3. PICK x \in T : \A y \in T : ~ (<<y, x>> \in R)
    BY <1>1, NatLessThanWellFounded, WFMin
  <1>4. \A y \in T : ~(y < x)
    BY <1>2, <1>3
  <1>5. \A y \in T : x =< y
    BY <1>4
  <1> QED
    BY <1>5 DEF Min

(* The three kinds of entries and their fields.                            *)
LEMMA EntryFields ==
    ASSUME NEW e \in Entries
    PROVE  /\ e.kind \in {"none", "file", "link"}
           /\ e.kind = "none" <=> e.ino = Nil
           /\ e.kind = "none" => e = Absent
           /\ e.kind # "none" => e.ino \in Inodes
           /\ e.kind = "file" => e = Regular(e.ino)
           /\ e.kind = "link" => e.obj \in Objects /\ e.old \in BOOLEAN
  BY LinkSyncAssumption DEF Entries, Absent, Regular, Link

(* Every link that is made and every file the user creates is an entry.    *)
LEMMA EntryMade ==
    /\ Absent \in Entries /\ Absent.kind = "none" /\ Absent.ino = Nil
    /\ \A i \in Inodes :
         /\ Regular(i) \in Entries
         /\ Regular(i).kind = "file" /\ Regular(i).ino = i
         /\ Regular(i).obj = Nil
    /\ \A o \in Objects, i \in Inodes, b \in BOOLEAN :
         /\ Link(o, i, b) \in Entries
         /\ Link(o, i, b).kind = "link" /\ Link(o, i, b).obj = o
         /\ Link(o, i, b).ino = i /\ Link(o, i, b).old = b
  <1>1. Absent \in Entries /\ Absent.kind = "none" /\ Absent.ino = Nil
    BY DEF Entries, Absent
  <1>2. ASSUME NEW i \in Inodes
        PROVE  /\ Regular(i) \in Entries
               /\ Regular(i).kind = "file" /\ Regular(i).ino = i
               /\ Regular(i).obj = Nil
    <2>1. Regular(i) \in Entries
      BY DEF Entries
    <2> QED
      BY <2>1 DEF Regular
  <1>3. ASSUME NEW o \in Objects, NEW i \in Inodes, NEW b \in BOOLEAN
        PROVE  /\ Link(o, i, b) \in Entries
               /\ Link(o, i, b).kind = "link" /\ Link(o, i, b).obj = o
               /\ Link(o, i, b).ino = i /\ Link(o, i, b).old = b
    <2>1. Link(o, i, b) \in Entries
      BY DEF Entries
    <2> QED
      BY <2>1 DEF Link
  <1> QED
    BY <1>1, <1>2, <1>3

LEMMA LinkMade ==
    ASSUME NEW o \in Objects, NEW i \in Inodes
    PROVE  /\ Link(o, i, FALSE) \in Entries
           /\ Link(o, i, FALSE).kind = "link" /\ Link(o, i, FALSE).obj = o
           /\ Link(o, i, FALSE).ino = i /\ ~Link(o, i, FALSE).old
  <1>1. PICK no \in BOOLEAN : no = FALSE
    OBVIOUS
  <1>2. /\ Link(o, i, no) \in Entries
        /\ Link(o, i, no).kind = "link" /\ Link(o, i, no).obj = o
        /\ Link(o, i, no).ino = i /\ Link(o, i, no).old = no
    BY EntryMade
  <1> QED
    BY <1>1, <1>2

(* A new inode is one that no entry and no kernel reference uses.          *)
LEMMA InodeIsNew ==
    ASSUME TypeOK, FreshInodes # {}
    PROVE  /\ NewInode \in Inodes
           /\ \A p \in Paths : files[p].ino # NewInode
           /\ \A o \in Objects : tracker[o] # NewInode
  <1>1. FreshInodes \in SUBSET Nat
    BY LinkSyncAssumption DEF FreshInodes
  <1>2. NewInode \in FreshInodes
    BY <1>1, LeastNumber DEF NewInode
  <1>3. tracker \in [Objects -> Inodes \cup {Nil}]
    BY DEF TypeOK
  <1>4. \A o \in Objects : tracker[o] \in Range(tracker)
    BY <1>3 DEF Range
  <1> QED
    BY <1>2, <1>4 DEF FreshInodes

(* PathOf finds the name of an inode that has one.                         *)
LEMMA PathOfNamed ==
    ASSUME NEW i
    PROVE  /\ PathOf(i) # Nil => PathOf(i) \in Paths /\ files[PathOf(i)].ino = i
           /\ \A p \in Paths : files[p].ino = i =>
                 PathOf(i) # Nil /\ files[PathOf(i)].ino = i
  BY LinkSyncAssumption DEF PathOf

-----------------------------------------------------------------------------
(* What the steps that change the file system do to it.                    *)

(* Nothing happens to the file system.                                     *)
LEMMA FilesFrame ==
    ASSUME FilesInv, UNCHANGED <<files, dirs, owned, overtaken>>
    PROVE  FilesInv'
  BY DEF FilesInv, EntriesInDirs, OneNameEach, UserFilesKept, Exists

(* What is known of a file the user had before the step.                   *)
StillOwned(i) == i \in owned /\ (Regular(i) \in overtaken => Regular(i) \in overtaken')

(* An entry is removed, or one with a new inode is put in its place.       *)
LEMMA PutEntry ==
    ASSUME TypeOK, FilesInv, dirs' = dirs,
           NEW p \in Paths, NEW e \in Entries,
           files' = [files EXCEPT ![p] = e],
           e.kind # "none" => p[1] \in dirs,
           e.kind # "none" => \A q \in Paths : files[q].ino # e.ino,
           owned' \subseteq Inodes,
           \A i \in owned' :
              \/ e = Regular(i)
              \/ StillOwned(i) /\ (files[p] # Regular(i) \/ Regular(i) \in overtaken)
    PROVE  files' \in [Paths -> Entries] /\ FilesInv'
  <1>1. files \in [Paths -> Entries]
    BY DEF TypeOK
  <1>2. files' \in [Paths -> Entries] /\ files'[p] = e
    BY <1>1
  <1>3. \A q \in Paths : q # p => files'[q] = files[q]
    BY <1>1
  <1>4. EntriesInDirs'
    BY <1>2, <1>3 DEF FilesInv, EntriesInDirs, Exists
  <1>5. OneNameEach'
    <2> SUFFICES ASSUME NEW q \in Paths, NEW r \in Paths, Exists(q)',
                        files'[q].ino = files'[r].ino
                 PROVE  q = r
      BY DEF OneNameEach
    <2>1. files'[q].ino # Nil
      BY <1>2, EntryFields, LinkSyncAssumption DEF Exists
    <2>2. files'[r].kind # "none"
      BY <1>2, <2>1, EntryFields
    <2> QED
      BY <1>2, <1>3, <2>2 DEF FilesInv, OneNameEach, Exists
  <1>6. UserFilesKept'
    <2> SUFFICES ASSUME NEW i \in owned', Regular(i) \notin overtaken'
                 PROVE  \E q \in Paths : files'[q] = Regular(i)
      BY DEF UserFilesKept
    <2>1. CASE e = Regular(i)
      BY <1>2, <2>1
    <2>2. CASE StillOwned(i) /\ (files[p] # Regular(i) \/ Regular(i) \in overtaken)
      <3>1. PICK q \in Paths : files[q] = Regular(i)
        BY <2>2 DEF FilesInv, UserFilesKept, StillOwned
      <3> QED
        BY <1>3, <2>2, <3>1 DEF StillOwned
    <2> QED
      BY <2>1, <2>2
  <1> QED
    BY <1>2, <1>4, <1>5, <1>6 DEF FilesInv

(* An entry is renamed onto another path.                                  *)
LEMMA MoveEntry ==
    ASSUME TypeOK, FilesInv, dirs' = dirs,
           NEW p \in Paths, NEW q \in Paths, p # q, q[1] \in dirs,
           files' = [files EXCEPT ![q] = files[p], ![p] = Absent],
           \A i \in owned' : StillOwned(i) /\ files[q] # Regular(i)
    PROVE  files' \in [Paths -> Entries] /\ FilesInv'
  <1>1. files \in [Paths -> Entries]
    BY DEF TypeOK
  <1>2. /\ files' \in [Paths -> Entries]
        /\ files'[p] = Absent /\ files'[q] = files[p]
        /\ \A r \in Paths : r # p /\ r # q => files'[r] = files[r]
    BY <1>1, EntryMade
  <1>3. EntriesInDirs'
    BY <1>2, EntryMade DEF FilesInv, EntriesInDirs, Exists
  <1>4. OneNameEach'
    <2> SUFFICES ASSUME NEW r \in Paths, NEW t \in Paths, Exists(r)',
                        files'[r].ino = files'[t].ino
                 PROVE  r = t
      BY DEF OneNameEach
    <2>1. files'[r].ino # Nil
      BY <1>2, EntryFields, LinkSyncAssumption DEF Exists
    <2>2. r # p /\ t # p
      BY <1>2, <2>1, EntryMade DEF Exists
    <2>3. PICK r0 \in Paths : files'[r] = files[r0] /\ r0 = IF r = q THEN p ELSE r
      BY <1>2, <2>2
    <2>4. PICK t0 \in Paths : files'[t] = files[t0] /\ t0 = IF t = q THEN p ELSE t
      BY <1>2, <2>2
    <2>5. r0 = t0
      BY <2>3, <2>4 DEF FilesInv, OneNameEach, Exists
    <2> QED
      BY <2>2, <2>3, <2>4, <2>5
  <1>5. UserFilesKept'
    <2> SUFFICES ASSUME NEW i \in owned', Regular(i) \notin overtaken'
                 PROVE  \E r \in Paths : files'[r] = Regular(i)
      BY DEF UserFilesKept
    <2>1. PICK r \in Paths : files[r] = Regular(i)
      BY DEF FilesInv, UserFilesKept, StillOwned
    <2> QED
      BY <1>2, <2>1
  <1> QED
    BY <1>2, <1>3, <1>4, <1>5 DEF FilesInv

(* An editor's save with a backup: the link moves to q and a new file      *)
(* takes its path.                                                         *)
LEMMA BackupEntry ==
    ASSUME TypeOK, FilesInv, dirs' = dirs,
           NEW p \in Paths, NEW q \in Paths, p # q, q[1] \in dirs, Exists(p),
           FreshInodes # {}, ~Exists(q), files[p].kind = "link",
           files' = [files EXCEPT ![q] = files[p], ![p] = Regular(NewInode)],
           owned' = owned \cup {NewInode},
           overtaken' = overtaken \ {Regular(NewInode)}
    PROVE  files' \in [Paths -> Entries] /\ FilesInv'
  <1>1. files \in [Paths -> Entries] /\ NewInode \in Inodes
    BY InodeIsNew DEF TypeOK
  <1>2. /\ files' \in [Paths -> Entries]
        /\ files'[p] = Regular(NewInode) /\ files'[q] = files[p]
        /\ \A r \in Paths : r # p /\ r # q => files'[r] = files[r]
    BY <1>1, EntryMade
  <1>3. EntriesInDirs'
    BY <1>2 DEF FilesInv, EntriesInDirs, Exists
  <1>4. OneNameEach'
    <2> SUFFICES ASSUME NEW r \in Paths, NEW t \in Paths, Exists(r)',
                        files'[r].ino = files'[t].ino
                 PROVE  r = t
      BY DEF OneNameEach
    <2>1. files'[p].ino = NewInode
      BY <1>1, <1>2, EntryMade
    <2>2. \A u \in Paths : u # p => files'[u].ino # NewInode
      BY <1>2, InodeIsNew
    <2>3. CASE r = p \/ t = p
      BY <2>1, <2>2, <2>3
    <2>4. CASE r # p /\ t # p
      <3>1. PICK r0 \in Paths : files'[r] = files[r0] /\ r0 = IF r = q THEN p ELSE r
        BY <1>2, <2>4
      <3>2. PICK t0 \in Paths : files'[t] = files[t0] /\ t0 = IF t = q THEN p ELSE t
        BY <1>2, <2>4
      <3>3. r0 = t0
        BY <3>1, <3>2 DEF FilesInv, OneNameEach, Exists
      <3> QED
        BY <2>4, <3>1, <3>2, <3>3
    <2> QED
      BY <2>3, <2>4
  <1>5. UserFilesKept'
    <2> SUFFICES ASSUME NEW i \in owned', i # NewInode, Regular(i) \notin overtaken'
                 PROVE  \E r \in Paths : files'[r] = Regular(i)
      BY <1>2 DEF UserFilesKept
    <2>1. i \in Inodes
      BY DEF TypeOK
    <2>2. PICK r \in Paths : files[r] = Regular(i)
      <3>1. Regular(i) # Regular(NewInode)
        BY <1>1, <2>1, EntryMade
      <3> QED
        BY <3>1 DEF FilesInv, UserFilesKept
    <2>3. r # p /\ r # q
      BY <2>1, <2>2, EntryMade DEF Exists
    <2> QED
      BY <1>2, <2>2, <2>3
  <1> QED
    BY <1>2, <1>3, <1>4, <1>5 DEF FilesInv

(* A directory is renamed to one that does not exist.                      *)
LEMMA MoveDirectory ==
    ASSUME TypeOK, FilesInv, NEW d \in dirs, NEW e \in Dirs, e \notin dirs,
           dirs' = (dirs \ {d}) \cup {e},
           files' = [p \in Paths |->
             CASE p[1] = e -> files[<<d, p[2]>>]
               [] p[1] = d -> Absent
               [] OTHER -> files[p]],
           owned' = owned, overtaken' = overtaken
    PROVE  files' \in [Paths -> Entries] /\ FilesInv'
  <1> DEFINE From(p) == <<d, p[2]>>
             Onto(p) == <<e, p[2]>>
  <1>1. files \in [Paths -> Entries] /\ d \in Dirs /\ d # e
    BY DEF TypeOK
  <1>2. \A p \in Paths : From(p) \in Paths /\ Onto(p) \in Paths
    BY <1>1 DEF Paths
  <1>3. \A p \in Paths : p = <<p[1], p[2]>>
    BY DEF Paths
  <1>4. \A p \in Paths : /\ p[1] = e => files'[p] = files[From(p)]
                         /\ p[1] = d => files'[p] = Absent
                         /\ p[1] # e /\ p[1] # d => files'[p] = files[p]
    BY <1>1
  <1>5. files' \in [Paths -> Entries]
    <2>1. \A p \in Paths : files'[p] \in Entries
      BY <1>1, <1>2, <1>4, EntryMade
    <2> QED
      BY <2>1
  <1>6. \A p \in Paths : Exists(p) => p[1] # e
    BY DEF FilesInv, EntriesInDirs
  <1>7. EntriesInDirs'
    BY <1>1, <1>4, EntryMade DEF FilesInv, EntriesInDirs, Exists
  <1>8. OneNameEach'
    <2> SUFFICES ASSUME NEW r \in Paths, NEW t \in Paths, Exists(r)',
                        files'[r].ino = files'[t].ino
                 PROVE  r = t
      BY DEF OneNameEach
    <2>1. files'[r].ino # Nil
      BY <1>5, EntryFields, LinkSyncAssumption DEF Exists
    <2>2. r[1] # d /\ t[1] # d
      BY <1>4, <2>1, EntryMade DEF Exists
    <2>3. PICK r0 \in Paths : files'[r] = files[r0] /\ r0 = IF r[1] = e THEN From(r) ELSE r
      BY <1>2, <1>4, <2>2
    <2>4. PICK t0 \in Paths : files'[t] = files[t0] /\ t0 = IF t[1] = e THEN From(t) ELSE t
      BY <1>2, <1>4, <2>2
    <2>5. r0 = t0
      BY <2>3, <2>4 DEF FilesInv, OneNameEach, Exists
    <2>6. r0[1] = d <=> r[1] = e
      BY <2>2, <2>3
    <2>7. t0[1] = d <=> t[1] = e
      BY <2>2, <2>4
    <2>8. CASE r[1] = e
      <3>1. From(r) = From(t) /\ t[1] = e
        BY <2>3, <2>4, <2>5, <2>6, <2>7, <2>8
      <3>2. r[2] = t[2]
        BY <3>1
      <3> QED
        BY <1>3, <2>8, <3>1, <3>2
    <2>9. CASE r[1] # e
      BY <2>3, <2>4, <2>5, <2>6, <2>7, <2>9
    <2> QED
      BY <2>8, <2>9
  <1>9. UserFilesKept'
    <2> SUFFICES ASSUME NEW i \in owned, Regular(i) \notin overtaken
                 PROVE  \E r \in Paths : files'[r] = Regular(i)
      BY DEF UserFilesKept
    <2>1. PICK r \in Paths : files[r] = Regular(i)
      BY DEF FilesInv, UserFilesKept
    <2>2. Exists(r)
      BY <2>1, EntryMade DEF Exists, TypeOK
    <2>3. r[1] # e
      BY <1>6, <2>2
    <2>4. CASE r[1] = d
      <3>1. Onto(r) \in Paths /\ Onto(r)[1] = e
        BY <1>2
      <3>2. From(Onto(r)) = r
        BY <1>3, <2>4
      <3> QED
        BY <1>4, <2>1, <3>1, <3>2
    <2>5. CASE r[1] # d
      BY <1>4, <2>1, <2>3, <2>5
    <2> QED
      BY <2>4, <2>5
  <1> QED
    BY <1>5, <1>7, <1>8, <1>9 DEF FilesInv

(* Two paths of one directory get the entry of the other: the first gets a *)
(* new one when the second named nothing.                                  *)
LEMMA ExchangeEntries ==
    ASSUME TypeOK, FilesInv, dirs' = dirs, owned' = owned, overtaken \subseteq overtaken',
           NEW p \in Paths, NEW q \in Paths, p # q, p[1] = q[1], Exists(p),
           NEW e \in Entries, e.kind # "none",
           \/ e = files[q]
           \/ ~Exists(q) /\ \A r \in Paths : files[r].ino # e.ino,
           files' = [files EXCEPT ![p] = e, ![q] = files[p]]
    PROVE  files' \in [Paths -> Entries] /\ FilesInv'
  <1>1. files \in [Paths -> Entries]
    BY DEF TypeOK
  <1>2. /\ files' \in [Paths -> Entries]
        /\ files'[p] = e /\ files'[q] = files[p]
        /\ \A r \in Paths : r # p /\ r # q => files'[r] = files[r]
    BY <1>1
  <1>3. EntriesInDirs'
    BY <1>2 DEF FilesInv, EntriesInDirs, Exists
  <1>4. ASSUME NEW r \in Paths, r # p
        PROVE  files'[r].kind # "none" => files'[r].ino # e.ino
    <2>1. PICK t \in Paths : t # q /\ files'[r] = files[t]
      BY <1>2, <1>4
    <2> QED
      BY <2>1 DEF FilesInv, OneNameEach, Exists
  <1>5. OneNameEach'
    <2> SUFFICES ASSUME NEW r \in Paths, NEW t \in Paths, Exists(r)',
                        files'[r].ino = files'[t].ino
                 PROVE  r = t
      BY DEF OneNameEach
    <2>1. files'[t].kind # "none"
      BY <1>2, EntryFields, LinkSyncAssumption DEF Exists
    <2>2. CASE r = p \/ t = p
      BY <1>2, <1>4, <2>1, <2>2 DEF Exists
    <2>3. CASE r # p /\ t # p
      <3>1. PICK r0 \in Paths : files'[r] = files[r0] /\ r0 = IF r = q THEN p ELSE r
        BY <1>2, <2>3
      <3>2. PICK t0 \in Paths : files'[t] = files[t0] /\ t0 = IF t = q THEN p ELSE t
        BY <1>2, <2>3
      <3>3. r0 = t0
        BY <3>1, <3>2 DEF FilesInv, OneNameEach, Exists
      <3> QED
        BY <2>3, <3>1, <3>2, <3>3
    <2> QED
      BY <2>2, <2>3
  <1>6. UserFilesKept'
    <2> SUFFICES ASSUME NEW i \in owned, Regular(i) \notin overtaken'
                 PROVE  \E r \in Paths : files'[r] = Regular(i)
      BY DEF UserFilesKept
    <2>1. PICK r \in Paths : files[r] = Regular(i)
      BY DEF FilesInv, UserFilesKept
    <2>2. Exists(r)
      <3>1. i \in Inodes
        BY DEF TypeOK
      <3> QED
        BY <2>1, <3>1, EntryMade DEF Exists
    <2>3. r = q => e = files[q]
      BY <2>2
    <2> QED
      BY <1>2, <2>1, <2>3
  <1> QED
    BY <1>2, <1>3, <1>5, <1>6 DEF FilesInv

-----------------------------------------------------------------------------
(* The record of the pass.                                                 *)

(* Fields of the pass that a step to another step of one record keeps.     *)
SameSearch ==
    /\ pass'.listed = pass.listed /\ pass'.queue = pass.queue
    /\ pass'.comprehensive = pass.comprehensive /\ pass'.index = pass.index

SameRecord ==
    /\ pass'.object = pass.object /\ pass'.todo = pass.todo
    /\ pass'.link = pass.link

(* A step within the record the pass is at.                                *)
LEMMA GoToFields ==
    ASSUME TypeOK, NEW s \in Steps, GoTo(s)
    PROVE  /\ pass' \in PassState
           /\ pass'.step = s /\ SameRecord /\ SameSearch
           /\ pass'.moved = pass.moved /\ pass'.staged = pass.staged
  <1>1. pass \in PassState
    BY DEF TypeOK
  <1>2. pass' = [pass EXCEPT !.step = s]
    BY DEF GoTo
  <1> QED
    BY <1>1, <1>2 DEF PassState, SameRecord, SameSearch

(* The record is done with: nothing that was read for it is kept.          *)
LEMMA NextRecordFields ==
    ASSUME TypeOK, NEW again \in BOOLEAN, NextRecord(again)
    PROVE  /\ pass' \in PassState
           /\ pass'.step = "next" /\ pass'.object = Nil /\ pass'.moved = Nil
           /\ pass'.todo = pass.todo /\ SameSearch
           /\ retry' \in BOOLEAN
  <1>1. pass \in PassState /\ retry \in BOOLEAN
    BY DEF TypeOK
  <1>2. /\ pass' = [pass EXCEPT !.step = "next", !.object = Nil, !.link = Absent,
                                !.moved = Nil, !.staged = Nil]
        /\ retry' = (retry \/ again)
    BY DEF NextRecord
  <1>3. Absent \in Entries /\ "next" \in Steps
    BY EntryMade DEF Steps
  <1>4. pass' \in PassState
    BY <1>1, <1>2, <1>3 DEF PassState
  <1>5. /\ pass'.step = "next" /\ pass'.object = Nil /\ pass'.moved = Nil
        /\ pass'.todo = pass.todo /\ SameSearch
    BY <1>1, <1>2 DEF PassState, SameSearch
  <1> QED
    BY <1>1, <1>2, <1>4, <1>5

(* No pass is at work: there is nothing it could know.                     *)
LEMMA OffFields ==
    /\ Off \in PassState
    /\ Off.step = "off" /\ Off.object = Nil /\ Off.todo = {}
    /\ Off.index = {} /\ Off.listed = FALSE
    /\ \A s \in Steps, T \in SUBSET Objects :
          LET r == [Off EXCEPT !.step = s, !.todo = T] IN
          /\ r \in PassState /\ r.step = s /\ r.todo = T
          /\ r.object = Nil /\ r.index = {} /\ r.listed = FALSE /\ r.moved = Nil
    /\ \A s \in Steps :
          LET r == [Off EXCEPT !.step = s] IN
          /\ r \in PassState /\ r.step = s /\ r.todo = {} /\ r.object = Nil
  <1>1. /\ Off.step = "off" /\ Off.object = Nil /\ Off.todo = {}
        /\ Off.link = Absent /\ Off.moved = Nil /\ Off.staged = Nil
        /\ Off.listed = FALSE /\ Off.queue = {} /\ Off.comprehensive = TRUE
        /\ Off.index = {} /\ Off.moves = {}
    BY DEF Off
  <1>2. Off \in PassState
    BY EntryMade DEF Off, PassState, Steps
  <1> QED
    BY <1>1, <1>2 DEF PassState

LEMMA RestShape ==
    ASSUME pass' \in PassState, pass'.step \in Resting \cup {"next"},
           pass'.step \in Resting => pass'.todo = {} /\ pass'.object = Nil,
           pass'.step = "next" => pass'.moved = Nil
    PROVE  PassShape'
  BY DEF PassShape, Resting, Staged

(* Between retargetings nothing is said of private directories.            *)
LEMMA NothingStaged ==
    ASSUME pass'.step \notin Staged PROVE StagingInv'
  BY DEF StagingInv, StagedAlone, DiscardSpares, Staged

-----------------------------------------------------------------------------
(* Clean objects: what keeps a clean object's facts true.                  *)

(* Nil is no object: a pass that is at no record looks at nobody.          *)
LEMMA NilIsNobody ==
    ASSUME NEW o \in Objects PROVE o # Nil
  BY LinkSyncAssumption

(* Every link of the object is still an entry, perhaps at another path.    *)
LEMMA ObjectKept ==
    ASSUME NEW o \in Objects, ObjectTrue(o),
           meta'[o].recovery = "none", tracker'[o] = tracker[o],
           \A p \in Paths : IsLink(p, o) => \E q \in Paths : files'[q] = files[p],
           SourceClear(o)'
    PROVE  ObjectTrue(o)'
  <1>1. HasLink(o)'
    BY DEF ObjectTrue, HasLink, IsLink
  <1>2. TrackerTrue(o)'
    BY DEF ObjectTrue, TrackerTrue, IsLink
  <1> QED
    BY <1>1, <1>2 DEF ObjectTrue

(* What a retargeting is about is a path.                                  *)
LEMMA TargetIsPath ==
    ASSUME TypeOK, PassShape, pass.step \in Retargeting
    PROVE  Target \in Paths
  <1>1. pass.object \in Objects /\ pass.moved \in Paths \cup {Nil}
    BY DEF PassShape, Resting, Retargeting, Staged, TypeOK, PassState
  <1> QED
    BY <1>1 DEF Target, TypeOK, Record

(* The user's steps: the links stay where they are, or they move while the *)
(* pass has nothing to do with the object.                                 *)
LEMMA LinkFollowed ==
    ASSUME TypeOK, PassShape, NEW o \in Objects, CleanTrue(o),
           meta'[o] = meta[o], tracker'[o] = tracker[o], pass' = pass,
           pass.step \in Retargeting => Target' = Target,
           \A p \in Paths : IsLink(p, o) => \E q \in Paths : files'[q] = files[p],
           InPass(o) => \A r \in Paths : IsLink(r, o) \/ IsLink(r, o)' =>
                           files'[r] = files[r],
           pass.step = "discard" => \A r \in Paths :
              r[2] = pass.staged[2] /\ IsLink(r, o)' =>
                 \E t \in Paths : t[2] = r[2] /\ IsLink(t, o),
           SourceClear(o)'
    PROVE  CleanTrue(o)'
  <1> meta[o].source \in Paths
    BY DEF TypeOK, Record
  <1>1. ObjectTrue(o)'
    BY ObjectKept DEF CleanTrue, ObjectTrue
  <1>2. InPass(o) => \A r \in Paths : IsLink(r, o)' <=> IsLink(r, o)
    BY DEF IsLink
  <1>3. IndexTrue(o)'
    <2>1. Searching(o) => InPass(o)
      BY DEF Searching, InPass
    <2> QED
      BY <1>2, <2>1 DEF CleanTrue, PassTrue, IndexTrue, Searching
  <1>4. StepTrue(o)'
    <2> SUFFICES ASSUME o = pass.object PROVE StepTrue(o)'
      BY DEF StepTrue
    <2>1. \A r \in Paths : /\ IsLink(r, o)' <=> IsLink(r, o)
                           /\ IsLink(r, o) => files'[r] = files[r]
      BY <1>2 DEF InPass
    <2>2. Exists(meta[o].source)' => Exists(meta[o].source)
      BY <2>1 DEF SourceClear, Exists
    <2>3. pass.step \in {"moved", "adopt", "retrack"} => pass.moved \in Paths
      BY DEF PassShape
    <2>4. pass.step \in {"keep", "swapped"} => Target \in Paths /\ Target' = Target
      BY TargetIsPath DEF Retargeting, Staged
    <2>5. pass.step = "swapped" => pass.staged \in Paths
      BY DEF PassShape, Staged
    <2> QED
      BY <2>1, <2>2, <2>3, <2>4, <2>5 DEF CleanTrue, PassTrue, StepTrue
  <1>5. RetireTrue(o)'
    <2>1. o \in pass.todo => \A r \in Paths : IsLink(r, o)' <=> IsLink(r, o)
      BY <1>2 DEF InPass
    <2> QED
      BY <2>1 DEF CleanTrue, PassTrue, RetireTrue, PassShape
  <1>6. RetargetTrue(o)'
    <2>1. o \in pass.todo => \A r \in Paths : IsLink(r, o)' <=> IsLink(r, o)
      BY <1>2 DEF InPass
    <2>2. pass.step \in Retargeting => Target \in Paths /\ Target' = Target
      BY TargetIsPath
    <2>3. pass.step \in Staged => pass.staged \in Paths /\ pass.step \in Retargeting
      BY DEF PassShape, Retargeting
    <2> QED
      BY <2>1, <2>2, <2>3 DEF CleanTrue, PassTrue, RetargetTrue
  <1> QED
    BY <1>1, <1>3, <1>4, <1>5, <1>6 DEF CleanTrue, PassTrue

(* The pass is done with a record, and no link moved that it has still to  *)
(* look at.                                                                *)
LEMMA CleanAtNext ==
    ASSUME NEW o \in Objects, PassTrue(o),
           o \in pass.todo => \A r \in Paths : IsLink(r, o)' <=> IsLink(r, o),
           pass'.step = "next", pass'.object = Nil, pass'.todo = pass.todo,
           SameSearch
    PROVE  PassTrue(o)'
  <1>1. o # Nil
    BY NilIsNobody
  <1>2. IndexTrue(o)'
    BY <1>1 DEF PassTrue, IndexTrue, Searching, SameSearch
  <1> QED
    BY <1>1, <1>2
       DEF PassTrue, StepTrue, RetireTrue, RetargetTrue, Retargeting, Staged

(* No pass is at work, or a new one starts with nothing read.              *)
LEMMA CleanAtRest ==
    ASSUME NEW o \in Objects, pass'.object = Nil,
           pass'.step \in Resting \cup {"next"},
           pass'.todo = {} \/ (pass'.index = {} /\ ~pass'.listed)
    PROVE  PassTrue(o)'
  <1>1. o # Nil
    BY NilIsNobody
  <1>2. IndexTrue(o)'
    BY <1>1 DEF IndexTrue, Searching
  <1> QED
    BY <1>1, <1>2
       DEF PassTrue, StepTrue, RetireTrue, RetargetTrue, Retargeting, Staged, Resting

(* Nothing that concerns the object itself changes.                        *)
LEMMA ObjectFrame ==
    ASSUME NEW o \in Objects, ObjectTrue(o), files' = files,
           meta'[o].recovery = "none", meta'[o].source = meta[o].source,
           tracker'[o] = tracker[o]
    PROVE  ObjectTrue(o)'
  BY DEF ObjectTrue, HasLink, SourceClear, TrackerTrue, IsLink, Exists

(* The links stay where they are and nothing is put on the registered path. *)
LEMMA LinkStays ==
    ASSUME TypeOK, PassShape, NEW o \in Objects, CleanTrue(o),
           meta'[o] = meta[o], tracker'[o] = tracker[o], pass' = pass,
           pass.step \in Retargeting => Target' = Target,
           \A r \in Paths : IsLink(r, o) \/ IsLink(r, o)' => files'[r] = files[r],
           \/ ~Exists(meta[o].source)'
           \/ files'[meta[o].source] = files[meta[o].source]
    PROVE  CleanTrue(o)'
  <1>1. SourceClear(o)'
    BY DEF CleanTrue, ObjectTrue, SourceClear, Exists, IsLink
  <1>2. \A p \in Paths : IsLink(p, o) => \E q \in Paths : files'[q] = files[p]
    OBVIOUS
  <1>3. \A r \in Paths : IsLink(r, o)' => IsLink(r, o)
    BY DEF IsLink
  <1> QED
    BY <1>1, <1>2, <1>3, LinkFollowed

-----------------------------------------------------------------------------
(* The user's steps.                                                       *)

(* What a pass looks at, Watching says; at rest a pass looks at nothing.   *)
LEMMA InPassIsWatched ==
    ASSUME PassShape, NEW o \in Objects, InPass(o)
    PROVE  Watching(o)
  BY NilIsNobody DEF PassShape, Resting, InPass, Watching

(* The user leaves the program's own state alone.                          *)
LEMMA UserKeeps ==
    ASSUME IInv, UserStep, UserUnchanged,
           dirs' \subseteq Dirs, files' \in [Paths -> Entries], event' \in BOOLEAN,
           deleted' \subseteq Objects, raced' \subseteq Objects,
           owned' \subseteq Inodes, overtaken' \subseteq Entries,
           FilesInv', StagingInv', CleanObjects'
    PROVE  IInv'
  <1>1. TypeOK'
    BY LinkSyncAssumption DEF IInv, TypeOK, UserStep, UserUnchanged
  <1>2. RecoveryPath' /\ PassShape'
    BY DEF IInv, RecoveryPath, PassShape, UserUnchanged, Target
  <1> QED
    BY <1>1, <1>2 DEF IInv

(* The user's names are not those of private directories.                  *)
LEMMA StagingUntouched ==
    ASSUME StagingInv, PassShape, pass' = pass,
           \A p \in Paths : p[2] \in Staging => files'[p] = files[p],
           \A i \in owned' :
              \/ StillOwned(i)
              \/ \A p \in Paths : files[p] # Regular(i)
    PROVE  StagingInv'
  <1>1. pass.step \in Staged => pass.staged[2] \in Staging
    BY DEF PassShape
  <1>2. StagedAlone'
    BY <1>1 DEF StagingInv, StagedAlone, Staged, Exists
  <1>3. DiscardSpares'
    BY <1>1 DEF StagingInv, DiscardSpares, Staged, StillOwned
  <1> QED
    BY <1>2, <1>3 DEF StagingInv

(* Paths the user uses are paths.                                          *)
LEMMA UserPathIsPath ==
    ASSUME NEW p \in UserPaths PROVE p \in Paths /\ p[1] \in Dirs /\ p[2] \notin Staging
  BY LinkSyncAssumption DEF UserPaths, Paths

LEMMA UserDeleteKeeps ==
    ASSUME IInv, NEW p \in UserPaths, UserDelete(p)
    PROVE  IInv'
  <1>1. /\ UserStep /\ UserUnchanged /\ Notify({p[1]})
        /\ files' = [files EXCEPT ![p] = Absent]
        /\ deleted' = deleted \cup {o \in Objects : IsLink(p, o)}
        /\ owned' = owned \ {files[p].ino} /\ overtaken' = overtaken
        /\ dirs' = dirs /\ raced' = raced /\ rebased' = rebased
    BY DEF UserDelete, UserUnchanged
  <1>2. p \in Paths /\ p[2] \notin Staging
    BY UserPathIsPath
  <1>3. TypeOK /\ FilesInv /\ PassShape /\ StagingInv /\ CleanObjects
    BY DEF IInv
  <1>4. owned \subseteq Inodes /\ files \in [Paths -> Entries]
    BY <1>3 DEF TypeOK
  <1>5. \A i \in owned' : StillOwned(i) /\ files[p] # Regular(i)
    BY <1>1, <1>4, EntryMade DEF StillOwned
  <1>6. files' \in [Paths -> Entries] /\ FilesInv'
    <2>1. Absent \in Entries /\ Absent.kind = "none"
      BY EntryMade
    <2> QED
      BY <1>1, <1>2, <1>3, <1>4, <1>5, <2>1, PutEntry
  <1>7. CleanObjects'
    <2> SUFFICES ASSUME NEW o \in Objects, Clean(o)' PROVE CleanTrue(o)'
      BY DEF CleanObjects
    <2>1. Clean(o) /\ ~IsLink(p, o)
      BY <1>1 DEF Clean
    <2>2. \A r \in Paths : files'[r] = IF r = p THEN Absent ELSE files[r]
      BY <1>1, <1>4
    <2>3. \A r \in Paths : IsLink(r, o) \/ IsLink(r, o)' => files'[r] = files[r]
      BY <2>1, <2>2, EntryMade DEF IsLink
    <2>4. meta[o].source \in Paths
      BY <1>3 DEF TypeOK, Record
    <2>5. \/ ~Exists(meta[o].source)'
          \/ files'[meta[o].source] = files[meta[o].source]
      BY <1>1, <2>2, <2>4, EntryMade DEF Exists, UserUnchanged
    <2>6. CleanTrue(o)
      BY <1>3, <2>1 DEF CleanObjects
    <2>7. meta' = meta /\ tracker' = tracker /\ pass' = pass /\ Target' = Target
      BY <1>1 DEF UserUnchanged, Target
    <2> QED
      BY <1>3, <2>3, <2>5, <2>6, <2>7, LinkStays
  <1>8. event' \in BOOLEAN
    BY <1>1, <1>3 DEF Notify, TypeOK
  <1>9. deleted' \subseteq Objects /\ raced' \subseteq Objects /\ owned' \subseteq Inodes
        /\ overtaken' \subseteq Entries /\ dirs' \subseteq Dirs
    BY <1>1, <1>3 DEF TypeOK
  <1>10. StagingInv'
    <2>1. \A r \in Paths : r[2] \in Staging => files'[r] = files[r]
      BY <1>1, <1>2, <1>4
    <2> QED
      BY <1>1, <1>3, <1>5, <2>1, StagingUntouched DEF UserUnchanged
  <1> QED
    BY <1>1, <1>6, <1>7, <1>8, <1>9, <1>10, UserKeeps

LEMMA UserSaveKeeps ==
    ASSUME IInv, NEW p \in UserPaths, UserSave(p)
    PROVE  IInv'
  <1>1. /\ UserStep /\ UserUnchanged /\ Notify({p[1]})
        /\ p[1] \in dirs /\ FreshInodes # {}
        /\ files' = [files EXCEPT ![p] = Regular(NewInode)]
        /\ deleted' = deleted \cup
             {o \in Objects : IsLink(p, o) \/ meta[o].source = p}
        /\ owned' = (owned \ {files[p].ino}) \cup {NewInode}
        /\ overtaken' = overtaken \ {Regular(NewInode)}
        /\ dirs' = dirs /\ raced' = raced /\ rebased' = rebased
    BY DEF UserSave, UserUnchanged
  <1>2. p \in Paths /\ p[2] \notin Staging
    BY UserPathIsPath
  <1>3. TypeOK /\ FilesInv /\ PassShape /\ StagingInv /\ CleanObjects
    BY DEF IInv
  <1>4. owned \subseteq Inodes /\ files \in [Paths -> Entries]
    BY <1>3 DEF TypeOK
  <1>5. NewInode \in Inodes /\ \A q \in Paths : files[q].ino # NewInode
    BY <1>1, <1>3, InodeIsNew
  <1>6. \A i \in owned' : \/ i = NewInode
                          \/ StillOwned(i) /\ files[p] # Regular(i)
    <2>1. \A i \in Inodes : i # NewInode => Regular(i) # Regular(NewInode)
      BY <1>5, EntryMade
    <2> QED
      BY <1>1, <1>4, <2>1, EntryMade DEF StillOwned
  <1>7. files' \in [Paths -> Entries] /\ FilesInv'
    <2>1. Regular(NewInode) \in Entries /\ Regular(NewInode).ino = NewInode
      BY <1>5, EntryMade
    <2>2. owned' \subseteq Inodes
      BY <1>1, <1>4, <1>5
    <2>3. PICK e \in Entries : e = Regular(NewInode)
      BY <2>1
    <2>4. files' = [files EXCEPT ![p] = e] /\ \A q \in Paths : files[q].ino # e.ino
      BY <1>1, <1>5, <2>1, <2>3
    <2>5. \A i \in owned' :
             \/ e = Regular(i)
             \/ StillOwned(i) /\ (files[p] # Regular(i) \/ Regular(i) \in overtaken)
      BY <1>6, <2>3
    <2>6. p[1] \in dirs /\ dirs' = dirs
      BY <1>1
    <2> QED
      BY <1>2, <1>3, <2>2, <2>4, <2>5, <2>6, PutEntry
  <1>8. CleanObjects'
    <2> SUFFICES ASSUME NEW o \in Objects, Clean(o)' PROVE CleanTrue(o)'
      BY DEF CleanObjects
    <2>1. Clean(o) /\ ~IsLink(p, o) /\ meta[o].source # p
      <3>1. Regular(NewInode).obj # o
        BY <1>5, EntryMade, NilIsNobody
      <3> QED
        BY <1>1, <3>1 DEF Clean
    <2>2. \A r \in Paths : files'[r] = IF r = p THEN Regular(NewInode) ELSE files[r]
      BY <1>1, <1>4
    <2>3. \A r \in Paths : IsLink(r, o) \/ IsLink(r, o)' => files'[r] = files[r]
      BY <1>5, <2>1, <2>2, EntryMade DEF IsLink
    <2>4. meta[o].source \in Paths
      BY <1>3 DEF TypeOK, Record
    <2>5. files'[meta[o].source] = files[meta[o].source]
      BY <2>1, <2>2, <2>4
    <2>6. CleanTrue(o)
      BY <1>3, <2>1 DEF CleanObjects
    <2>7. meta' = meta /\ tracker' = tracker /\ pass' = pass /\ Target' = Target
      BY <1>1 DEF UserUnchanged, Target
    <2> QED
      BY <1>3, <2>3, <2>5, <2>6, <2>7, LinkStays
  <1>9. event' \in BOOLEAN
    BY <1>1, <1>3 DEF Notify, TypeOK
  <1>10. deleted' \subseteq Objects /\ raced' \subseteq Objects /\ owned' \subseteq Inodes
         /\ overtaken' \subseteq Entries /\ dirs' \subseteq Dirs
    BY <1>1, <1>3, <1>5 DEF TypeOK
  <1>11. StagingInv'
    <2>1. \A r \in Paths : r[2] \in Staging => files'[r] = files[r]
      BY <1>1, <1>2, <1>4
    <2>2. \A r \in Paths : files[r] # Regular(NewInode)
      BY <1>5, EntryMade
    <2> QED
      BY <1>1, <1>3, <1>6, <2>1, <2>2, StagingUntouched DEF UserUnchanged
  <1> QED
    BY <1>1, <1>7, <1>8, <1>9, <1>10, <1>11, UserKeeps

LEMMA UserMoveKeeps ==
    ASSUME IInv, NEW p \in UserPaths, NEW q \in UserPaths, UserMove(p, q)
    PROVE  IInv'
  <1>1. /\ UserStep /\ UserUnchanged /\ Notify({p[1], q[1]})
        /\ p # q /\ Exists(p) /\ q[1] \in dirs
        /\ files' = [files EXCEPT ![q] = files[p], ![p] = Absent]
        /\ deleted' = deleted \cup {o \in Objects : IsLink(q, o)}
             \cup {o \in Objects : meta[o].source = q /\ ~IsLink(p, o)}
        /\ raced' = raced \cup {o \in Objects : IsLink(p, o) /\ Watching(o)}
        /\ owned' = owned \ {files[q].ino}
        /\ dirs' = dirs /\ rebased' = rebased /\ overtaken' = overtaken
    BY DEF UserMove, UserUnchanged
  <1>2. p \in Paths /\ q \in Paths /\ p[2] \notin Staging /\ q[2] \notin Staging
    BY UserPathIsPath
  <1>3. TypeOK /\ FilesInv /\ PassShape /\ StagingInv /\ CleanObjects
    BY DEF IInv
  <1>4. owned \subseteq Inodes /\ files \in [Paths -> Entries]
    BY <1>3 DEF TypeOK
  <1>5. \A i \in owned' : StillOwned(i) /\ files[q] # Regular(i)
    BY <1>1, <1>4, EntryMade DEF StillOwned
  <1>6. files' \in [Paths -> Entries] /\ FilesInv'
    BY <1>1, <1>2, <1>3, <1>5, MoveEntry
  <1>7. CleanObjects'
    <2> SUFFICES ASSUME NEW o \in Objects, Clean(o)' PROVE CleanTrue(o)'
      BY DEF CleanObjects
    <2>1. /\ Clean(o) /\ ~IsLink(q, o)
          /\ meta[o].source = q => IsLink(p, o)
          /\ ~(IsLink(p, o) /\ Watching(o))
      BY <1>1 DEF Clean
    <2>2. /\ files'[p] = Absent /\ files'[q] = files[p]
          /\ \A r \in Paths : r # p /\ r # q => files'[r] = files[r]
      BY <1>1, <1>2, <1>4
    <2>3. meta[o].source \in Paths
      BY <1>3 DEF TypeOK, Record
    <2>4. CleanTrue(o)
      BY <1>3, <2>1 DEF CleanObjects
    <2>5. meta' = meta /\ tracker' = tracker /\ pass' = pass /\ Target' = Target
      BY <1>1 DEF UserUnchanged, Target
    <2>6. \A u \in Paths : IsLink(u, o) => \E t \in Paths : files'[t] = files[u]
      BY <1>2, <2>1, <2>2
    <2>7. ~IsLink(p, o)'
      BY <2>2, EntryMade DEF IsLink
    <2>8. InPass(o) => \A u \in Paths : IsLink(u, o) \/ IsLink(u, o)' => files'[u] = files[u]
      BY <1>3, <2>1, <2>2, <2>7, InPassIsWatched DEF IsLink
    <2>9. pass.step = "discard" => \A u \in Paths :
             u[2] = pass.staged[2] /\ IsLink(u, o)' =>
                \E t \in Paths : t[2] = u[2] /\ IsLink(t, o)
      BY <1>2, <1>3, <2>2 DEF PassShape, Staged, IsLink
    <2>10. SourceClear(o)'
      <3>1. CASE meta[o].source = q
        BY <2>1, <2>2, <2>5, <3>1 DEF SourceClear, IsLink
      <3>2. CASE meta[o].source = p
        BY <2>2, <2>5, <3>2, EntryMade DEF SourceClear, Exists
      <3>3. CASE meta[o].source # p /\ meta[o].source # q
        BY <2>2, <2>3, <2>4, <2>5, <3>3
           DEF CleanTrue, ObjectTrue, SourceClear, Exists, IsLink
      <3> QED
        BY <3>1, <3>2, <3>3
    <2> QED
      BY <1>3, <2>4, <2>5, <2>6, <2>8, <2>9, <2>10, LinkFollowed
  <1>8. event' \in BOOLEAN
    BY <1>1, <1>3 DEF Notify, TypeOK
  <1>9. deleted' \subseteq Objects /\ raced' \subseteq Objects /\ owned' \subseteq Inodes
        /\ overtaken' \subseteq Entries /\ dirs' \subseteq Dirs
    BY <1>1, <1>3 DEF TypeOK
  <1>10. StagingInv'
    <2>1. \A r \in Paths : r[2] \in Staging => files'[r] = files[r]
      BY <1>1, <1>2, <1>4
    <2> QED
      BY <1>1, <1>3, <1>5, <2>1, StagingUntouched DEF UserUnchanged
  <1> QED
    BY <1>1, <1>6, <1>7, <1>8, <1>9, <1>10, UserKeeps

LEMMA UserBackupSaveKeeps ==
    ASSUME IInv, NEW p \in UserPaths, NEW q \in UserPaths, UserBackupSave(p, q)
    PROVE  IInv'
  <1>1. /\ UserStep /\ UserUnchanged /\ Notify({p[1], q[1]})
        /\ files[p].kind = "link" /\ q[1] \in dirs /\ ~Exists(q) /\ FreshInodes # {}
        /\ files' = [files EXCEPT ![q] = files[p], ![p] = Regular(NewInode)]
        /\ deleted' = deleted \cup {files[p].obj}
             \cup {o \in Objects : meta[o].source = q}
        /\ owned' = owned \cup {NewInode}
        /\ overtaken' = overtaken \ {Regular(NewInode)}
        /\ dirs' = dirs /\ raced' = raced /\ rebased' = rebased
    BY DEF UserBackupSave, UserUnchanged
  <1>2. /\ p \in Paths /\ q \in Paths /\ p # q /\ Exists(p)
        /\ p[2] \notin Staging /\ q[2] \notin Staging
    BY <1>1, UserPathIsPath DEF Exists
  <1>3. TypeOK /\ FilesInv /\ PassShape /\ StagingInv /\ CleanObjects
    BY DEF IInv
  <1>4. owned \subseteq Inodes /\ files \in [Paths -> Entries]
    BY <1>3 DEF TypeOK
  <1>5. NewInode \in Inodes /\ \A r \in Paths : files[r].ino # NewInode
    BY <1>1, <1>3, InodeIsNew
  <1>6. files' \in [Paths -> Entries] /\ FilesInv'
    BY <1>1, <1>2, <1>3, BackupEntry
  <1>7. CleanObjects'
    <2> SUFFICES ASSUME NEW o \in Objects, Clean(o)' PROVE CleanTrue(o)'
      BY DEF CleanObjects
    <2>1. Clean(o) /\ files[p].obj # o /\ meta[o].source # q
      <3>1. Regular(NewInode).obj # o
        BY <1>5, EntryMade, NilIsNobody
      <3> QED
        BY <1>1, <3>1 DEF Clean
    <2>2. /\ files'[p] = Regular(NewInode) /\ files'[q] = files[p]
          /\ \A r \in Paths : r # p /\ r # q => files'[r] = files[r]
      BY <1>1, <1>2, <1>4
    <2>3. \A r \in Paths : IsLink(r, o) \/ IsLink(r, o)' => files'[r] = files[r]
      <3>1. ~IsLink(p, o) /\ ~IsLink(q, o)
        BY <1>1, <2>1 DEF IsLink, Exists
      <3>2. ~IsLink(p, o)' /\ ~IsLink(q, o)'
        BY <1>5, <2>1, <2>2, EntryMade DEF IsLink
      <3> QED
        BY <2>2, <3>1, <3>2
    <2>4. meta[o].source \in Paths
      BY <1>3 DEF TypeOK, Record
    <2>5. CleanTrue(o)
      BY <1>3, <2>1 DEF CleanObjects
    <2>6. meta[o].source # p
      BY <1>2, <2>1, <2>5 DEF CleanTrue, ObjectTrue, SourceClear, IsLink
    <2>7. files'[meta[o].source] = files[meta[o].source]
      BY <2>1, <2>2, <2>4, <2>6
    <2>8. meta' = meta /\ tracker' = tracker /\ pass' = pass /\ Target' = Target
      BY <1>1 DEF UserUnchanged, Target
    <2> QED
      BY <1>3, <2>3, <2>5, <2>7, <2>8, LinkStays
  <1>8. event' \in BOOLEAN
    BY <1>1, <1>3 DEF Notify, TypeOK
  <1>9. files[p].obj \in Objects
    BY <1>1, <1>2, <1>4, EntryFields
  <1>10. deleted' \subseteq Objects /\ raced' \subseteq Objects /\ owned' \subseteq Inodes
         /\ overtaken' \subseteq Entries /\ dirs' \subseteq Dirs
    BY <1>1, <1>3, <1>5, <1>9 DEF TypeOK
  <1>11. StagingInv'
    <2>1. \A r \in Paths : r[2] \in Staging => files'[r] = files[r]
      BY <1>1, <1>2, <1>4
    <2>2. \A i \in Inodes : i # NewInode => Regular(i) # Regular(NewInode)
      BY <1>5, EntryMade
    <2>3. \A i \in owned' : StillOwned(i) \/ \A r \in Paths : files[r] # Regular(i)
      BY <1>1, <1>4, <1>5, <2>2, EntryMade DEF StillOwned
    <2> QED
      BY <1>1, <1>3, <2>1, <2>3, StagingUntouched DEF UserUnchanged
  <1> QED
    BY <1>1, <1>6, <1>7, <1>8, <1>10, <1>11, UserKeeps

LEMMA UserCopyKeeps ==
    ASSUME IInv, NEW p \in UserPaths, NEW q \in UserPaths, UserCopy(p, q)
    PROVE  IInv'
  <1>1. /\ UserStep /\ UserUnchanged /\ Notify({q[1]})
        /\ files[p].kind = "link" /\ q[1] \in dirs /\ ~Exists(q) /\ FreshInodes # {}
        /\ files' = [files EXCEPT ![q] = [files[p] EXCEPT !.ino = NewInode]]
        /\ deleted' = deleted \cup {files[p].obj}
             \cup {o \in Objects : meta[o].source = q}
        /\ dirs' = dirs /\ raced' = raced /\ rebased' = rebased /\ owned' = owned
        /\ overtaken' = overtaken
    BY DEF UserCopy, UserUnchanged
  <1>2. p \in Paths /\ q \in Paths /\ p[2] \notin Staging /\ q[2] \notin Staging
    BY UserPathIsPath
  <1>3. TypeOK /\ FilesInv /\ PassShape /\ StagingInv /\ CleanObjects
    BY DEF IInv
  <1>4. owned \subseteq Inodes /\ files \in [Paths -> Entries]
    BY <1>3 DEF TypeOK
  <1>5. NewInode \in Inodes /\ \A r \in Paths : files[r].ino # NewInode
    BY <1>1, <1>3, InodeIsNew
  <1>6. PICK e \in Entries : /\ e = [files[p] EXCEPT !.ino = NewInode]
                             /\ e.ino = NewInode /\ e.obj = files[p].obj
    <2>1. PICK o \in Objects, i \in Inodes, b \in BOOLEAN : files[p] = Link(o, i, b)
      BY <1>1, <1>2, <1>4 DEF Entries, Absent, Regular
    <2>2. [files[p] EXCEPT !.ino = NewInode] = Link(o, NewInode, b)
      BY <2>1 DEF Link
    <2>3. Link(o, NewInode, b) \in Entries /\ Link(o, NewInode, b).ino = NewInode
          /\ Link(o, NewInode, b).obj = o /\ files[p].obj = o
      BY <1>5, <2>1, EntryMade
    <2> QED
      BY <2>2, <2>3
  <1>7. files' = [files EXCEPT ![q] = e]
    BY <1>1, <1>6
  <1>8. files' \in [Paths -> Entries] /\ FilesInv'
    <2>1. \A i \in owned' :
             \/ e = Regular(i)
             \/ StillOwned(i) /\ (files[q] # Regular(i) \/ Regular(i) \in overtaken)
      BY <1>1, <1>4, EntryMade DEF Exists, StillOwned
    <2>2. owned' \subseteq Inodes /\ q[1] \in dirs /\ dirs' = dirs
      BY <1>1, <1>4
    <2>3. \A r \in Paths : files[r].ino # e.ino
      BY <1>5, <1>6
    <2> QED
      BY <1>2, <1>3, <1>7, <2>1, <2>2, <2>3, PutEntry
  <1>9. CleanObjects'
    <2> SUFFICES ASSUME NEW o \in Objects, Clean(o)' PROVE CleanTrue(o)'
      BY DEF CleanObjects
    <2>1. Clean(o) /\ files[p].obj # o /\ meta[o].source # q
      BY <1>1 DEF Clean
    <2>2. \A r \in Paths : files'[r] = IF r = q THEN e ELSE files[r]
      BY <1>4, <1>7
    <2>3. \A r \in Paths : IsLink(r, o) \/ IsLink(r, o)' => files'[r] = files[r]
      <3>1. ~IsLink(q, o)
        BY <1>1 DEF IsLink, Exists
      <3>2. ~IsLink(q, o)'
        BY <1>2, <1>6, <2>1, <2>2 DEF IsLink
      <3> QED
        BY <2>2, <3>1, <3>2
    <2>4. meta[o].source \in Paths
      BY <1>3 DEF TypeOK, Record
    <2>5. CleanTrue(o)
      BY <1>3, <2>1 DEF CleanObjects
    <2>6. files'[meta[o].source] = files[meta[o].source]
      BY <2>1, <2>2, <2>4
    <2>7. meta' = meta /\ tracker' = tracker /\ pass' = pass /\ Target' = Target
      BY <1>1 DEF UserUnchanged, Target
    <2> QED
      BY <1>3, <2>3, <2>5, <2>6, <2>7, LinkStays
  <1>10. event' \in BOOLEAN
    BY <1>1, <1>3 DEF Notify, TypeOK
  <1>11. files[p].obj \in Objects
    BY <1>1, <1>2, <1>4, EntryFields
  <1>12. deleted' \subseteq Objects /\ raced' \subseteq Objects /\ owned' \subseteq Inodes
         /\ overtaken' \subseteq Entries /\ dirs' \subseteq Dirs
    BY <1>1, <1>3, <1>11 DEF TypeOK
  <1>13. StagingInv'
    <2>1. \A r \in Paths : r[2] \in Staging => files'[r] = files[r]
      BY <1>1, <1>2, <1>4
    <2>2. \A i \in owned' : StillOwned(i)
      BY <1>1 DEF StillOwned
    <2> QED
      BY <1>1, <1>3, <2>1, <2>2, StagingUntouched DEF UserUnchanged
  <1> QED
    BY <1>1, <1>8, <1>9, <1>10, <1>12, <1>13, UserKeeps

LEMMA UserMakeDirKeeps ==
    ASSUME IInv, NEW d \in Dirs, UserMakeDir(d)
    PROVE  IInv'
  <1>1. /\ UserStep /\ UserUnchanged /\ Notify({Home})
        /\ dirs' = dirs \cup {d} /\ files' = files
        /\ deleted' = deleted /\ raced' = raced /\ rebased' = rebased
        /\ owned' = owned /\ overtaken' = overtaken
    BY DEF UserMakeDir, history
  <1>2. TypeOK /\ FilesInv /\ PassShape /\ StagingInv /\ CleanObjects
    BY DEF IInv
  <1>3. FilesInv'
    BY <1>1, <1>2 DEF FilesInv, EntriesInDirs, OneNameEach, UserFilesKept, Exists
  <1>4. CleanObjects'
    <2> SUFFICES ASSUME NEW o \in Objects, Clean(o)' PROVE CleanTrue(o)'
      BY DEF CleanObjects
    <2>1. Clean(o) /\ meta' = meta /\ tracker' = tracker /\ pass' = pass /\ Target' = Target
      BY <1>1 DEF Clean, UserUnchanged, Target
    <2>2. CleanTrue(o)
      BY <1>2, <2>1 DEF CleanObjects
    <2> QED
      BY <1>1, <1>2, <2>1, <2>2, LinkStays
  <1>5. event' \in BOOLEAN /\ dirs' \subseteq Dirs /\ files' \in [Paths -> Entries]
    BY <1>1, <1>2 DEF Notify, TypeOK
  <1>6. deleted' \subseteq Objects /\ raced' \subseteq Objects /\ owned' \subseteq Inodes
        /\ overtaken' \subseteq Entries
    BY <1>1, <1>2 DEF TypeOK
  <1>7. StagingInv'
    <2>1. \A i \in owned' : StillOwned(i)
      BY <1>1 DEF StillOwned
    <2> QED
      BY <1>1, <1>2, <2>1, StagingUntouched DEF UserUnchanged
  <1> QED
    BY <1>1, <1>3, <1>4, <1>5, <1>6, <1>7, UserKeeps

LEMMA UserMoveDirKeeps ==
    ASSUME IInv, NEW d \in Dirs, NEW e \in Dirs, UserMoveDir(d, e)
    PROVE  IInv'
  <1> DEFINE From(p) == <<d, p[2]>>
             Onto(p) == <<e, p[2]>>
  <1>1. /\ UserStep /\ UserUnchanged /\ Notify({d, Home})
        /\ d \in dirs /\ e \notin dirs
        /\ dirs' = (dirs \ {d}) \cup {e}
        /\ files' = [p \in Paths |->
             CASE p[1] = e -> files[<<d, p[2]>>]
               [] p[1] = d -> Absent
               [] OTHER -> files[p]]
        /\ deleted' = deleted \cup
             {o \in Objects : LET p == <<d, meta[o].source[2]>> IN
                 meta[o].source[1] = e /\ Exists(p) /\ ~IsLink(p, o)}
        /\ raced' = raced \cup
             {o \in Objects : Watching(o) /\ \E p \in Paths : p[1] = d /\ IsLink(p, o)}
        /\ owned' = owned /\ overtaken' = overtaken /\ rebased' = rebased
    BY DEF UserMoveDir, UserUnchanged
  <1>2. TypeOK /\ FilesInv /\ PassShape /\ StagingInv /\ CleanObjects
    BY DEF IInv
  <1>3. files' \in [Paths -> Entries] /\ FilesInv'
    BY <1>1, <1>2, MoveDirectory
  <1>4. CleanObjects'
    <2> SUFFICES ASSUME NEW o \in Objects, Clean(o)' PROVE CleanTrue(o)'
      BY DEF CleanObjects
    <2>1. /\ Clean(o)
          /\ meta[o].source[1] = e /\ Exists(From(meta[o].source)) =>
                IsLink(From(meta[o].source), o)
          /\ Watching(o) => \A p \in Paths : p[1] = d => ~IsLink(p, o)
      BY <1>1 DEF Clean
    <2>2. d # e
      BY <1>1
    <2>3. \A p \in Paths : From(p) \in Paths /\ Onto(p) \in Paths /\ p = <<p[1], p[2]>>
      BY DEF Paths
    <2>4. \A p \in Paths : /\ p[1] = e => files'[p] = files[From(p)]
                           /\ p[1] = d => files'[p] = Absent
                           /\ p[1] # e /\ p[1] # d => files'[p] = files[p]
      BY <1>1, <2>2
    <2>5. meta[o].source \in Paths
      BY <1>2 DEF TypeOK, Record
    <2>6. CleanTrue(o)
      BY <1>2, <2>1 DEF CleanObjects
    <2>7. meta' = meta /\ tracker' = tracker /\ pass' = pass /\ Target' = Target
      BY <1>1 DEF UserUnchanged, Target
    <2>8. \A u \in Paths : IsLink(u, o) => u[1] # e
      BY <1>1, <1>2 DEF FilesInv, EntriesInDirs, IsLink, Exists
    <2>9. ASSUME NEW u \in Paths, IsLink(u, o)
          PROVE  \E t \in Paths : files'[t] = files[u]
      <3>1. CASE u[1] = d
        <4>1. Onto(u) \in Paths /\ Onto(u)[1] = e /\ From(Onto(u)) = u
          BY <2>3, <3>1
        <4> QED
          BY <2>4, <4>1
      <3>2. CASE u[1] # d
        BY <2>4, <2>8, <2>9, <3>2
      <3> QED
        BY <3>1, <3>2
    <2>10. ASSUME NEW u \in Paths, IsLink(u, o)'
           PROVE  /\ u[1] # d
                  /\ u[1] = e => IsLink(From(u), o) /\ From(u)[1] = d
                  /\ u[1] # e => files'[u] = files[u] /\ IsLink(u, o)
      BY <2>4, <2>10, EntryMade DEF IsLink
    <2>11. InPass(o) => \A u \in Paths :
              IsLink(u, o) \/ IsLink(u, o)' => files'[u] = files[u]
      <3> SUFFICES ASSUME InPass(o), NEW u \in Paths, IsLink(u, o) \/ IsLink(u, o)'
                   PROVE  files'[u] = files[u]
        OBVIOUS
      <3>1. \A p \in Paths : p[1] = d => ~IsLink(p, o)
        BY <1>2, <2>1, InPassIsWatched
      <3>2. CASE IsLink(u, o)
        BY <2>4, <2>8, <3>1, <3>2
      <3>3. CASE IsLink(u, o)'
        BY <2>3, <2>10, <3>1, <3>3
      <3> QED
        BY <3>2, <3>3
    <2>12. \A u \in Paths : IsLink(u, o)' => \E t \in Paths : t[2] = u[2] /\ IsLink(t, o)
      <3> SUFFICES ASSUME NEW u \in Paths, IsLink(u, o)'
                   PROVE  \E t \in Paths : t[2] = u[2] /\ IsLink(t, o)
        OBVIOUS
      <3>1. CASE u[1] = e
        <4>1. From(u) \in Paths /\ From(u)[2] = u[2]
          BY <2>3
        <4> QED
          BY <2>10, <3>1, <4>1
      <3>2. CASE u[1] # e
        BY <2>10, <3>2
      <3> QED
        BY <3>1, <3>2
    <2>13. SourceClear(o)'
      <3>1. CASE meta[o].source[1] = e
        BY <2>1, <2>4, <2>5, <2>7, <3>1 DEF SourceClear, IsLink, Exists
      <3>2. CASE meta[o].source[1] = d
        BY <2>4, <2>5, <2>7, <3>2, EntryMade DEF SourceClear, Exists
      <3>3. CASE meta[o].source[1] # d /\ meta[o].source[1] # e
        BY <2>4, <2>5, <2>6, <2>7, <3>3
           DEF CleanTrue, ObjectTrue, SourceClear, Exists, IsLink
      <3> QED
        BY <3>1, <3>2, <3>3
    <2> QED
      BY <1>2, <2>6, <2>7, <2>9, <2>11, <2>12, <2>13, LinkFollowed
  <1>5. event' \in BOOLEAN
    BY <1>1, <1>2 DEF Notify, TypeOK
  <1>6. deleted' \subseteq Objects /\ raced' \subseteq Objects /\ owned' \subseteq Inodes
        /\ overtaken' \subseteq Entries
        /\ dirs' \subseteq Dirs
    BY <1>1, <1>2 DEF TypeOK
  <1>7. \A p \in Paths : Exists(p)' =>
           \E q \in Paths : /\ files'[p] = files[q] /\ q[2] = p[2] /\ p[1] # d
                            /\ q = IF p[1] = e THEN From(p) ELSE p
    <2>1. \A p \in Paths : From(p) \in Paths
      BY DEF Paths
    <2>2. d # e /\ Absent.kind = "none"
      BY <1>1, EntryMade
    <2> QED
      BY <1>1, <2>1, <2>2 DEF Exists
  <1>8. \A p, q \in Paths : From(p) = From(q) /\ p[1] = q[1] => p = q
    BY DEF Paths
  <1>9. StagingInv'
    <2>1. StagedAlone'
      <3> SUFFICES ASSUME pass.step \in {"swapped", "rollback"},
                          NEW p \in Paths, NEW q \in Paths, p[2] = pass.staged[2],
                          q[2] = pass.staged[2], Exists(p)', Exists(q)'
                   PROVE  p = q
        BY <1>1 DEF StagedAlone, UserUnchanged
      <3>1. PICK r \in Paths : /\ files'[p] = files[r] /\ r[2] = p[2] /\ p[1] # d
                               /\ r = IF p[1] = e THEN From(p) ELSE p
        BY <1>7
      <3>2. PICK t \in Paths : /\ files'[q] = files[t] /\ t[2] = q[2] /\ q[1] # d
                               /\ t = IF q[1] = e THEN From(q) ELSE q
        BY <1>7
      <3>3. r = t
        BY <1>2, <3>1, <3>2 DEF StagingInv, StagedAlone, Exists
      <3>4. r[1] = d <=> p[1] = e
        BY <3>1
      <3>5. t[1] = d <=> q[1] = e
        BY <3>2
      <3> QED
        BY <1>8, <3>1, <3>2, <3>3, <3>4, <3>5
    <2>2. DiscardSpares'
      <3> SUFFICES ASSUME pass.step = "discard", NEW p \in Paths, NEW i \in owned,
                          p[2] = pass.staged[2], files'[p] = Regular(i)
                   PROVE  Regular(i) \in overtaken
        BY <1>1 DEF DiscardSpares, UserUnchanged
      <3>1. i \in Inodes
        BY <1>2 DEF TypeOK
      <3>2. Exists(p)'
        BY <3>1, EntryMade DEF Exists
      <3> QED
        BY <1>2, <1>7, <3>2 DEF StagingInv, DiscardSpares
    <2> QED
      BY <2>1, <2>2 DEF StagingInv
  <1> QED
    BY <1>1, <1>3, <1>4, <1>5, <1>6, <1>9, UserKeeps

(* No step of the user's breaks the invariant.                             *)
LEMMA UserStepKeeps ==
    ASSUME IInv, User
    PROVE  IInv'
  BY UserDeleteKeeps, UserSaveKeeps, UserMoveKeeps, UserBackupSaveKeeps,
     UserCopyKeeps, UserMoveDirKeeps, UserMakeDirKeeps DEF User

-----------------------------------------------------------------------------
(* Steps between the passes.                                               *)

(* What the synchronizer may change, typed.                                *)
LEMMA QuietTyped ==
    ASSUME TypeOK, Quiet,
           files' \in [Paths -> Entries], meta' \in [Objects -> Record],
           tracker' \in [Objects -> Inodes \cup {Nil}],
           watched' = Nil \/ watched' \subseteq Dirs \cup {Home},
           event' \in BOOLEAN, retry' \in BOOLEAN, pass' \in PassState,
           faults' \in 0 .. MaxFaults
    PROVE  TypeOK'
  BY DEF TypeOK, Quiet, history

(* A fault is counted.                                                     *)
LEMMA FaultCounted ==
    ASSUME TypeOK, faults < MaxFaults, faults' = faults + 1
    PROVE  faults' \in 0 .. MaxFaults
  BY LinkSyncAssumption DEF TypeOK

(* No pass is at work, or one begins.                                      *)
LEMMA RestKeeps ==
    ASSUME IInv, Quiet, files' = files, meta' = meta,
           tracker' \in [Objects -> Inodes \cup {Nil}],
           \A o \in Objects : CleanTrue(o) => TrackerTrue(o)',
           watched' = Nil \/ watched' \subseteq Dirs \cup {Home},
           event' \in BOOLEAN, retry' \in BOOLEAN, faults' \in 0 .. MaxFaults,
           pass' \in PassState, pass'.object = Nil,
           pass'.step = "next" => pass'.moved = Nil,
           \/ pass'.step \in Resting /\ pass'.todo = {}
           \/ pass'.step = "next" /\ pass'.index = {} /\ ~pass'.listed
    PROVE  IInv'
  <1>1. TypeOK /\ FilesInv /\ RecoveryPath /\ CleanObjects
    BY DEF IInv
  <1>2. TypeOK'
    BY <1>1, QuietTyped DEF TypeOK
  <1>3. FilesInv'
    BY <1>1, FilesFrame DEF Quiet, history
  <1>4. RecoveryPath'
    BY <1>1 DEF RecoveryPath
  <1>5. PassShape'
    BY RestShape DEF Resting
  <1>6. ASSUME NEW o \in Objects, Clean(o)' PROVE CleanTrue(o)'
    <2>1. CleanTrue(o)
      BY <1>1, <1>6 DEF Clean, CleanObjects, Quiet, history
    <2>2. PassTrue(o)'
      BY CleanAtRest
    <2>3. TrackerTrue(o)'
      BY <2>1
    <2>4. ObjectTrue(o)'
      BY <2>1, <2>3 DEF CleanTrue, ObjectTrue, HasLink, SourceClear,
         IsLink, Exists
    <2> QED
      BY <2>2, <2>4 DEF CleanTrue
  <1>7. StagingInv'
    BY NothingStaged DEF Staged, Resting
  <1> QED
    BY <1>2, <1>3, <1>4, <1>5, <1>6, <1>7 DEF IInv, CleanObjects

(* References that are kept, or that are all dropped.                      *)
LEMMA TrackerKept ==
    ASSUME tracker' = tracker \/ tracker' = [x \in Objects |-> Nil], files' = files,
           NEW o \in Objects, CleanTrue(o)
    PROVE  TrackerTrue(o)'
  BY DEF CleanTrue, ObjectTrue, TrackerTrue, IsLink

(* The directories to watch are directories.                               *)
LEMMA WatchedAreDirs ==
    ASSUME TypeOK PROVE WatchDirectories \subseteq Dirs \cup {Home}
  <1>1. \A o \in Objects : meta[o].source[1] \in Dirs
    BY DEF TypeOK, Record, Paths
  <1> QED
    BY <1>1 DEF WatchDirectories

LEMMA PrepareKeeps ==
    ASSUME IInv, Prepare
    PROVE  IInv'
  <1> DEFINE Source(o) == meta[o].source
  <1>1. /\ pass.step = "off" /\ GoTo("watch") /\ Quiet
        /\ tracker' = [o \in Objects |->
             IF IsLink(Source(o), o) /\ ~files[Source(o)].old
             THEN files[Source(o)].ino ELSE Nil]
        /\ files' = files /\ meta' = meta /\ watched' = watched
        /\ event' = event /\ retry' = retry /\ faults' = faults
    BY DEF Prepare
  <1>2. TypeOK /\ PassShape
    BY DEF IInv
  <1>3. \A o \in Objects : Source(o) \in Paths /\ files[Source(o)] \in Entries
    BY <1>2 DEF TypeOK, Record
  <1>4. tracker' \in [Objects -> Inodes \cup {Nil}]
    BY <1>1, <1>3, EntryFields DEF IsLink
  <1>5. \A o \in Objects : TrackerTrue(o)'
    BY <1>1, <1>3 DEF TrackerTrue, IsLink
  <1>6. pass' \in PassState /\ pass'.step = "watch" /\ SameRecord
    BY <1>1, <1>2, GoToFields DEF Steps
  <1>7. pass'.object = Nil /\ pass'.todo = {}
    BY <1>1, <1>2, <1>6 DEF PassShape, SameRecord, Resting
  <1>8. /\ watched' = Nil \/ watched' \subseteq Dirs \cup {Home}
        /\ event' \in BOOLEAN /\ retry' \in BOOLEAN /\ faults' \in 0 .. MaxFaults
    BY <1>1, <1>2 DEF TypeOK
  <1> QED
    BY <1>1, <1>4, <1>5, <1>6, <1>7, <1>8, RestKeeps DEF Resting

LEMMA StopKeeps ==
    ASSUME IInv, Stop
    PROVE  IInv'
  <1>1. /\ tracker' = [o \in Objects |-> Nil]
        /\ watched' = Nil /\ event' = FALSE /\ retry' = FALSE
        /\ pass' = Off /\ files' = files /\ meta' = meta /\ Quiet
    BY DEF Stop
  <1>2. faults' \in 0 .. MaxFaults
    BY FaultCounted DEF Stop, IInv
  <1>3. \A o \in Objects : CleanTrue(o) => TrackerTrue(o)'
    BY <1>1, TrackerKept
  <1> QED
    BY <1>1, <1>2, <1>3, OffFields, RestKeeps DEF Resting

(* A pass that starts has read nothing.                                    *)
LEMMA StartPassKeeps ==
    ASSUME IInv, StartPass, faults' \in 0 .. MaxFaults, event' \in BOOLEAN,
           watched' = Nil \/ watched' \subseteq Dirs \cup {Home}
    PROVE  IInv'
  <1>1. /\ pass' = [Off EXCEPT !.step = "next", !.todo = Objects]
        /\ retry' = FALSE /\ files' = files /\ meta' = meta
        /\ tracker' = tracker /\ Quiet
    BY DEF StartPass
  <1>2. /\ pass' \in PassState /\ pass'.step = "next" /\ pass'.object = Nil
        /\ pass'.index = {} /\ ~pass'.listed /\ pass'.moved = Nil
    <2>1. "next" \in Steps /\ Objects \in SUBSET Objects
      BY DEF Steps
    <2> QED
      BY <1>1, <2>1, OffFields
  <1>3. \A o \in Objects : CleanTrue(o) => TrackerTrue(o)'
    BY <1>1, TrackerKept
  <1>4. tracker' \in [Objects -> Inodes \cup {Nil}]
    BY <1>1 DEF IInv, TypeOK
  <1> QED
    BY <1>1, <1>2, <1>3, <1>4, RestKeeps

LEMMA ReconcileKeeps ==
    ASSUME IInv, Reconcile \/ ReconcileUnwatched
    PROVE  IInv'
  <1>1. TypeOK
    BY DEF IInv
  <1>2. CASE Reconcile
    <2>1. StartPass /\ faults' = faults
      BY <1>2 DEF Reconcile
    <2>2. \/ watched' = watched /\ event' = event
          \/ watched' = WatchDirectories /\ event' = FALSE
      BY <1>2 DEF Reconcile
    <2>3. /\ watched' = Nil \/ watched' \subseteq Dirs \cup {Home}
          /\ event' \in BOOLEAN /\ faults' \in 0 .. MaxFaults
      BY <1>1, <2>1, <2>2, WatchedAreDirs DEF TypeOK
    <2> QED
      BY <2>1, <2>3, StartPassKeeps
  <1>3. CASE ReconcileUnwatched
    <2>1. StartPass /\ watched' = watched /\ event' = event
      BY <1>3 DEF ReconcileUnwatched
    <2>2. faults' \in 0 .. MaxFaults
      BY <1>1, <1>3, FaultCounted DEF ReconcileUnwatched
    <2>3. /\ watched' = Nil \/ watched' \subseteq Dirs \cup {Home}
          /\ event' \in BOOLEAN
      BY <1>1, <2>1 DEF TypeOK
    <2> QED
      BY <2>1, <2>2, <2>3, StartPassKeeps
  <1> QED
    BY <1>2, <1>3

(* The watcher fails, something wakes Run, or the safety timer fires.      *)
LEMMA WakeKeeps ==
    ASSUME IInv, WatcherError \/ Wake \/ SafetyTimer
    PROVE  IInv'
  <1>1. TypeOK /\ PassShape
    BY DEF IInv
  <1>2. /\ pass.step = "idle" /\ GoTo("watch") /\ Quiet
        /\ files' = files /\ meta' = meta /\ tracker' = tracker /\ retry' = retry
        /\ watched' \in {watched, Nil} /\ event' \in {event, FALSE}
    BY DEF WatcherError, Wake, SafetyTimer
  <1>3. faults' \in 0 .. MaxFaults
    <2>1. CASE faults' = faults
      BY <1>1, <2>1 DEF TypeOK
    <2>2. CASE faults < MaxFaults /\ faults' = faults + 1
      BY <1>1, <2>2, FaultCounted
    <2> QED
      BY <2>1, <2>2 DEF WatcherError, Wake, SafetyTimer
  <1>4. pass' \in PassState /\ pass'.step = "watch" /\ SameRecord
    BY <1>1, <1>2, GoToFields DEF Steps
  <1>5. pass'.object = Nil /\ pass'.todo = {}
    BY <1>1, <1>2, <1>4 DEF PassShape, SameRecord, Resting
  <1>6. \A o \in Objects : CleanTrue(o) => TrackerTrue(o)'
    BY <1>2, TrackerKept
  <1>7. /\ watched' = Nil \/ watched' \subseteq Dirs \cup {Home}
        /\ event' \in BOOLEAN /\ retry' \in BOOLEAN
        /\ tracker' \in [Objects -> Inodes \cup {Nil}]
    BY <1>1, <1>2 DEF TypeOK
  <1> QED
    BY <1>2, <1>3, <1>4, <1>5, <1>6, <1>7, RestKeeps DEF Resting

-----------------------------------------------------------------------------
(* The index.                                                              *)

(* One record is written.                                                  *)
LEMMA SetMetaFields ==
    ASSUME TypeOK, RecoveryPath, NEW o \in Objects, NEW m \in Record,
           m.recovery # "none" => m.path \in Paths, SetMeta(o, m)
    PROVE  /\ meta' \in [Objects -> Record] /\ RecoveryPath' /\ event' \in BOOLEAN
           /\ meta'[o] = m
           /\ \A x \in Objects : x # o => meta'[x] = meta[x]
  BY DEF TypeOK, RecoveryPath, SetMeta, NotifyIndex

(* What the writers of a record leave in it.                               *)
LEMMA SetLinkSourceFields ==
    ASSUME TypeOK, RecoveryPath, NEW o \in Objects, NEW p \in Paths,
           SetLinkSource(o, p)
    PROVE  /\ meta' \in [Objects -> Record] /\ RecoveryPath' /\ event' \in BOOLEAN
           /\ meta'[o].source = p /\ meta'[o].recovery = "none"
           /\ \A x \in Objects : x # o => meta'[x] = meta[x]
  <1>1. PICK m \in Record : /\ SetMeta(o, m) /\ m.source = p
                            /\ m.recovery = "none"
    BY DEF SetLinkSource, Record
  <1> QED
    BY <1>1, SetMetaFields

LEMMA MarkLinkOrphanFields ==
    ASSUME TypeOK, RecoveryPath, NEW o \in Objects, MarkLinkOrphan(o)
    PROVE  /\ meta' \in [Objects -> Record] /\ RecoveryPath' /\ event' \in BOOLEAN
           /\ \A x \in Objects : /\ meta'[x].source = meta[x].source
                                 /\ meta'[x].recovery = meta[x].recovery
  <1>1. meta[o] \in Record
    BY DEF TypeOK
  <1>2. PICK m \in Record : /\ SetMeta(o, m) /\ m.source = meta[o].source
                            /\ m.recovery = meta[o].recovery /\ m.path = meta[o].path
    BY <1>1 DEF MarkLinkOrphan, Record
  <1>3. m.recovery # "none" => m.path \in Paths
    BY <1>2 DEF RecoveryPath
  <1> QED
    BY <1>2, <1>3, SetMetaFields

LEMMA ClearLinkOrphanFields ==
    ASSUME TypeOK, RecoveryPath, NEW o \in Objects, ClearLinkOrphan(o)
    PROVE  /\ meta' \in [Objects -> Record] /\ RecoveryPath' /\ event' \in BOOLEAN
           /\ meta'[o].source = meta[o].source /\ meta'[o].recovery = "none"
           /\ \A x \in Objects : x # o => meta'[x] = meta[x]
  <1>1. meta[o] \in Record
    BY DEF TypeOK
  <1> DEFINE m == [meta[o] EXCEPT !.orphaned = "no", !.recovery = "none",
                                  !.path = Nil]
  <1>2. /\ m \in Record /\ m.source = meta[o].source
        /\ m.recovery = "none"
    BY <1>1 DEF Record
  <1>3. SetMeta(o, m)
    BY DEF ClearLinkOrphan
  <1> HIDE DEF m
  <1> QED
    BY <1>2, <1>3, SetMetaFields

LEMMA MarkLinkRecoveryFields ==
    ASSUME TypeOK, RecoveryPath, NEW o \in Objects,
           NEW state \in {"trash", "conflict"}, MarkLinkRecovery(o, state)
    PROVE  /\ meta' \in [Objects -> Record] /\ RecoveryPath' /\ event' \in BOOLEAN
           /\ \A x \in Objects : x # o => meta'[x] = meta[x]
  <1>1. meta[o] \in Record
    BY DEF TypeOK
  <1> DEFINE m == [meta[o] EXCEPT !.recovery = state, !.orphaned = "no",
                     !.path = IF @ = Nil THEN meta[o].source ELSE @]
  <1>2. m \in Record /\ m.path \in Paths
    BY <1>1 DEF Record
  <1>3. SetMeta(o, m)
    BY DEF MarkLinkRecovery
  <1> HIDE DEF m
  <1> QED
    BY <1>2, <1>3, SetMetaFields

(* The pass and what it looks at are as before.                            *)
LEMMA PassFrame ==
    ASSUME NEW o \in Objects, PassTrue(o), pass' = pass, files' = files,
           meta'[o].source = meta[o].source,
           pass.step \in Retargeting => Target' = Target
    PROVE  PassTrue(o)'
  <1>1. IndexTrue(o)' /\ StepTrue(o)' /\ RetireTrue(o)'
    BY DEF PassTrue, IndexTrue, StepTrue, RetireTrue, Searching, Retargeting, Staged,
       IsLink, Exists
  <1>2. RetargetTrue(o)'
    BY DEF PassTrue, RetargetTrue, Retargeting, Staged, IsLink
  <1> QED
    BY <1>1, <1>2 DEF PassTrue

LEMMA GracePassesKeeps ==
    ASSUME IInv, NEW o \in Objects, GracePasses(o)
    PROVE  IInv'
  <1>1. TypeOK /\ FilesInv /\ RecoveryPath /\ PassShape /\ StagingInv /\ CleanObjects
    BY DEF IInv
  <1>2. /\ dirs' = dirs /\ files' = files /\ tracker' = tracker
        /\ watched' = watched /\ event' = event /\ retry' = retry
        /\ pass' = pass /\ user' = user /\ faults' = faults
        /\ deleted' = deleted /\ raced' = raced /\ rebased' = rebased
        /\ owned' = owned /\ overtaken' = overtaken
    BY DEF GracePasses, history
  <1>3. meta \in [Objects -> Record] /\ meta' = [meta EXCEPT ![o].orphaned = "old"]
    BY <1>1 DEF GracePasses, TypeOK
  <1>4. meta' \in [Objects -> Record]
    BY <1>3 DEF Record
  <1>5. \A x \in Objects : /\ meta'[x].source = meta[x].source
                           /\ meta'[x].recovery = meta[x].recovery
                           /\ meta'[x].path = meta[x].path
    BY <1>3 DEF Record
  <1>6. TypeOK'
    BY <1>1, <1>2, <1>4 DEF TypeOK
  <1>7. FilesInv'
    BY <1>1, <1>2, FilesFrame
  <1>8. pass.step \in Retargeting => Target' = Target
    <2>1. pass.step \in Retargeting => pass.object \in Objects
      BY <1>1 DEF PassShape, Retargeting, Staged, Resting
    <2> QED
      BY <1>2, <1>5, <2>1 DEF Target
  <1>10. RecoveryPath' /\ PassShape' /\ StagingInv'
    <2>1. RecoveryPath' /\ PassShape'
      BY <1>1, <1>2, <1>5, <1>8 DEF RecoveryPath, PassShape, Retargeting
    <2>2. StagingInv'
      BY <1>1, <1>2 DEF StagingInv, StagedAlone, DiscardSpares, Exists
    <2> QED
      BY <2>1, <2>2
  <1>9. ASSUME NEW x \in Objects, Clean(x)' PROVE CleanTrue(x)'
    <2>1. CleanTrue(x)
      BY <1>1, <1>2, <1>9 DEF Clean, CleanObjects
    <2>2. PassTrue(x)'
      BY <1>2, <1>5, <1>8, <2>1, PassFrame DEF CleanTrue
    <2>3. ObjectTrue(x)'
      BY <1>2, <1>5, <2>1, ObjectFrame DEF CleanTrue, ObjectTrue
    <2> QED
      BY <2>2, <2>3 DEF CleanTrue
  <1> QED
    BY <1>6, <1>7, <1>9, <1>10 DEF IInv, CleanObjects

(* `passfs recovery restore` runs while no pass does, and the object it    *)
(* restores went to recovery for a cause.                                  *)
LEMMA RestoreRecoveryLinkKeeps ==
    ASSUME IInv, NEW o \in Objects, RestoreRecoveryLink(o)
    PROVE  IInv'
  <1>1. TypeOK /\ FilesInv /\ RecoveryPath /\ PassShape /\ CleanObjects
    BY DEF IInv
  <1>2. PICK p : p = meta[o].path
    OBVIOUS
  <1>3. /\ UserStep /\ pass.step \in Resting /\ meta[o].recovery # "none"
        /\ p[1] \in dirs
        /\ \/ /\ ~Exists(p) /\ FreshInodes # {}
              /\ files' = [files EXCEPT ![p] = Link(o, NewInode, FALSE)]
           \/ IsLink(p, o) /\ files' = files
        /\ SetLinkSource(o, p)
        /\ deleted' = deleted \cup {x \in Objects \ {o} : meta[x].source = p}
        /\ dirs' = dirs /\ tracker' = tracker /\ watched' = watched
        /\ retry' = retry /\ pass' = pass /\ faults' = faults
        /\ raced' = raced /\ rebased' = rebased /\ owned' = owned
        /\ overtaken' = overtaken
    BY <1>2 DEF RestoreRecoveryLink, Resting
  <1>4. p \in Paths
    BY <1>1, <1>2, <1>3 DEF RecoveryPath
  <1>5. /\ meta' \in [Objects -> Record] /\ RecoveryPath' /\ event' \in BOOLEAN
        /\ \A x \in Objects : x # o => meta'[x] = meta[x]
    BY <1>1, <1>3, <1>4, SetLinkSourceFields
  <1>6. owned \subseteq Inodes /\ files \in [Paths -> Entries]
    BY <1>1 DEF TypeOK
  <1>7. /\ files' \in [Paths -> Entries] /\ FilesInv'
        /\ \A r \in Paths : r # p => files'[r] = files[r]
        /\ files'[p] = files[p] \/ (~Exists(p) /\ IsLink(p, o)')
    <2>1. CASE files' = files
      <3>1. FilesInv'
        BY <1>1, <1>3, <2>1, FilesFrame
      <3> QED
        BY <1>6, <2>1, <3>1
    <2>2. CASE /\ ~Exists(p) /\ FreshInodes # {}
               /\ files' = [files EXCEPT ![p] = Link(o, NewInode, FALSE)]
      <3>1. NewInode \in Inodes /\ \A q \in Paths : files[q].ino # NewInode
        BY <1>1, <2>2, InodeIsNew
      <3> DEFINE e == Link(o, NewInode, FALSE)
      <3>2. e \in Entries /\ e.ino = NewInode /\ e.kind = "link" /\ e.obj = o
        BY <3>1, LinkMade
      <3>3. files' = [files EXCEPT ![p] = e] /\ \A q \in Paths : files[q].ino # e.ino
        BY <2>2, <3>1, <3>2
      <3> HIDE DEF e
      <3>4. \A i \in owned' :
               \/ e = Regular(i)
               \/ StillOwned(i) /\ (files[p] # Regular(i) \/ Regular(i) \in overtaken)
        BY <1>3, <1>6, <2>2, EntryMade DEF Exists, StillOwned
      <3>5. owned' \subseteq Inodes
        BY <1>3, <1>6
      <3>6. files' \in [Paths -> Entries] /\ FilesInv'
        BY <1>1, <1>3, <1>4, <3>2, <3>3, <3>4, <3>5, PutEntry
      <3> QED
        BY <1>4, <1>6, <2>2, <3>2, <3>3, <3>6 DEF IsLink
    <2> QED
      BY <1>3, <2>1, <2>2
  <1>8. TypeOK'
    <2>1. user' \in 0 .. MaxUser
      BY <1>1, <1>3, LinkSyncAssumption DEF TypeOK, UserStep
    <2>2. deleted' \subseteq Objects
      BY <1>1, <1>3 DEF TypeOK
    <2> QED
      BY <1>1, <1>3, <1>5, <1>7, <2>1, <2>2 DEF TypeOK
  <1>9. PassShape' /\ StagingInv'
    BY <1>1, <1>3, NothingStaged DEF PassShape, Resting, Staged
  <1>10. ASSUME NEW x \in Objects, Clean(x)' PROVE CleanTrue(x)'
    <2>1. CleanTrue(x)
      BY <1>1, <1>3, <1>10 DEF Clean, CleanObjects
    <2>2. x # o /\ meta[x].source # p
      BY <1>3, <1>10, <2>1 DEF Clean, CleanTrue, ObjectTrue
    <2>3. \A r \in Paths : IsLink(r, x) \/ IsLink(r, x)' => files'[r] = files[r]
      BY <1>7, <2>2 DEF IsLink, Exists
    <2>4. meta[x].source \in Paths
      BY <1>1 DEF TypeOK, Record
    <2>5. files'[meta[x].source] = files[meta[x].source]
      BY <1>7, <2>2, <2>4
    <2> QED
      BY <1>1, <1>3, <1>5, <2>1, <2>2, <2>3, <2>5, LinkStays DEF Resting, Retargeting, Staged
  <1> QED
    BY <1>5, <1>7, <1>8, <1>9, <1>10 DEF IInv, CleanObjects

-----------------------------------------------------------------------------
(* Steps of a pass.                                                        *)

(* What a step of a pass has to show.                                      *)
LEMMA PassStepKeeps ==
    ASSUME IInv, PassUnchanged,
           files' \in [Paths -> Entries], FilesInv',
           meta' \in [Objects -> Record], RecoveryPath',
           tracker' \in [Objects -> Inodes \cup {Nil}],
           event' \in BOOLEAN, retry' \in BOOLEAN, pass' \in PassState, PassShape',
           StagingInv',
           \A o \in Objects : Clean(o) /\ CleanTrue(o) => CleanTrue(o)'
    PROVE  IInv'
  <1>1. TypeOK /\ CleanObjects
    BY DEF IInv
  <1>2. Quiet /\ watched' = watched /\ faults' = faults
    BY DEF PassUnchanged
  <1>3. TypeOK'
    BY <1>1, <1>2, QuietTyped DEF TypeOK
  <1>4. CleanObjects'
    BY <1>1, <1>2 DEF CleanObjects, Clean, Quiet, history
  <1> QED
    BY <1>3, <1>4 DEF IInv

(* A step that is done with the record and leaves the files alone.         *)
LEMMA RecordDoneKeeps ==
    ASSUME IInv, PassUnchanged, files' = files,
           meta' \in [Objects -> Record], RecoveryPath',
           tracker' \in [Objects -> Inodes \cup {Nil}],
           event' \in BOOLEAN, NEW again \in BOOLEAN, NextRecord(again),
           \A o \in Objects : Clean(o) /\ CleanTrue(o) => ObjectTrue(o)'
    PROVE  IInv'
  <1>1. TypeOK /\ FilesInv
    BY DEF IInv
  <1>2. /\ pass' \in PassState
        /\ pass'.step = "next" /\ pass'.object = Nil /\ pass'.moved = Nil
        /\ pass'.todo = pass.todo /\ SameSearch
        /\ retry' \in BOOLEAN
    BY <1>1, NextRecordFields
  <1>3. PassShape' /\ StagingInv'
    BY <1>2, RestShape, NothingStaged DEF Resting, Staged
  <1>4. FilesInv' /\ files' \in [Paths -> Entries]
    BY <1>1, FilesFrame DEF PassUnchanged, Quiet, history, TypeOK
  <1>5. \A o \in Objects : Clean(o) /\ CleanTrue(o) => CleanTrue(o)'
    BY <1>2, CleanAtNext DEF CleanTrue, IsLink
  <1> QED
    BY <1>2, <1>3, <1>4, <1>5, PassStepKeeps

(* A step to another step of the record that changes nothing but the pass. *)
LEMMA StepOnKeeps ==
    ASSUME IInv, PassUnchanged,
           UNCHANGED <<files, meta, tracker, event, retry>>,
           pass' \in PassState, SameRecord, SameSearch,
           pass.step \notin Resting \cup {"next"},
           pass'.step \notin Resting \cup {"next", "retired"} \cup Staged,
           pass'.step \in {"track", "search"} => pass.step \in {"track", "search"},
           pass'.step \in {"moved", "retire", "adopt", "retrack"} => pass'.moved \in Paths,
           \A o \in Objects : Clean(o) /\ CleanTrue(o) =>
              StepTrue(o)' /\ RetireTrue(o)' /\ RetargetTrue(o)'
    PROVE  IInv'
  <1>1. TypeOK /\ FilesInv /\ PassShape /\ RecoveryPath
    BY DEF IInv
  <1>2. PassShape' /\ StagingInv'
    <2>1. PassShape'
      BY <1>1 DEF PassShape, SameRecord, Resting, Staged
    <2> QED
      BY <2>1, NothingStaged
  <1>3. FilesInv' /\ files' \in [Paths -> Entries]
    BY <1>1, FilesFrame DEF PassUnchanged, Quiet, history, TypeOK
  <1>4. ASSUME NEW o \in Objects, Clean(o), CleanTrue(o)
        PROVE  CleanTrue(o)'
    <2>1. ObjectTrue(o)'
      BY <1>4, ObjectFrame DEF CleanTrue, ObjectTrue
    <2>2. IndexTrue(o)'
      BY <1>4 DEF CleanTrue, PassTrue, IndexTrue, Searching, SameRecord, SameSearch, IsLink
    <2> QED
      BY <1>4, <2>1, <2>2 DEF CleanTrue, PassTrue
  <1>5. RecoveryPath'
    BY <1>1 DEF RecoveryPath
  <1>6. /\ meta' \in [Objects -> Record] /\ event' \in BOOLEAN /\ retry' \in BOOLEAN
        /\ tracker' \in [Objects -> Inodes \cup {Nil}]
    BY <1>1 DEF TypeOK
  <1> QED
    BY <1>2, <1>3, <1>4, <1>5, <1>6, PassStepKeeps

LEMMA InspectKeeps ==
    ASSUME IInv, Inspect
    PROVE  IInv'
  <1>1. TypeOK /\ FilesInv /\ PassShape /\ RecoveryPath
    BY DEF IInv
  <1>2. pass \in PassState /\ pass.todo \subseteq Objects
    BY <1>1 DEF TypeOK, PassState
  <1>3. PICK o : o = Min(pass.todo)
    OBVIOUS
  <1>4. o \in pass.todo /\ o \in Objects
    <2>1. pass.todo \in SUBSET Nat /\ pass.todo # {}
      BY <1>2, LinkSyncAssumption DEF Inspect
    <2> QED
      BY <1>2, <1>3, <2>1, LeastNumber
  <1>5. PICK link : link = files[meta[o].source]
    OBVIOUS
  <1>6. PICK s : s = CASE link.kind = "link" /\ link.obj = o ->
                            IF link.old THEN "keep" ELSE "ensure"
                       [] ~(link.kind = "link" /\ link.obj = o)
                          /\ meta[o].recovery # "none" -> "next"
                       [] OTHER -> "track"
    OBVIOUS
  <1>7. /\ pass.step = "next" /\ PassUnchanged
        /\ files' = files /\ meta' = meta /\ tracker' = tracker
        /\ event' = event /\ retry' = retry
        /\ pass' = [pass EXCEPT !.todo = @ \ {o}, !.object = o, !.link = link,
                                !.step = s]
    BY <1>3, <1>5, <1>6 DEF Inspect
  <1>8. link \in Entries /\ meta[o].source \in Paths
    BY <1>1, <1>4, <1>5 DEF TypeOK, Record
  <1>9. s \in {"keep", "ensure", "next", "track"}
    BY <1>6
  <1>10. /\ pass' \in PassState
         /\ pass'.todo = pass.todo \ {o} /\ pass'.object = o /\ pass'.link = link
         /\ pass'.step = s /\ SameSearch /\ pass'.moved = pass.moved
    BY <1>2, <1>4, <1>7, <1>8, <1>9 DEF PassState, Steps, SameSearch
  <1>11. PassShape' /\ StagingInv'
    <2>1. pass.moved = Nil /\ o \notin pass'.todo
      BY <1>1, <1>7, <1>10 DEF PassShape
    <2>2. PassShape'
      BY <1>4, <1>9, <1>10, <2>1 DEF PassShape, Resting, Staged
    <2> QED
      BY <1>9, <1>10, <2>2, NothingStaged DEF Staged
  <1>12. FilesInv' /\ files' \in [Paths -> Entries]
    BY <1>1, <1>7, FilesFrame DEF PassUnchanged, Quiet, history, TypeOK
  <1>13. ASSUME NEW x \in Objects, Clean(x), CleanTrue(x)
         PROVE  CleanTrue(x)'
    <2>1. ObjectTrue(x)'
      BY <1>7, <1>13, ObjectFrame DEF CleanTrue, ObjectTrue
    <2>2. IndexTrue(x)'
      <3>1. Searching(x)' => Searching(x)
        BY <1>4, <1>10 DEF Searching
      <3> QED
        BY <1>7, <1>10, <1>13, <3>1 DEF CleanTrue, PassTrue, IndexTrue, SameSearch, IsLink
    <2>3. StepTrue(x)'
      <3> SUFFICES ASSUME x = o PROVE StepTrue(x)'
        BY <1>10 DEF StepTrue
      <3>1. meta[o].recovery = "none" /\ SourceClear(o)
        BY <1>13 DEF CleanTrue, ObjectTrue
      <3>2. CASE IsLink(meta[o].source, o)
        <4>1. s = IF link.old THEN "keep" ELSE "ensure"
          BY <1>5, <1>6, <3>2 DEF IsLink
        <4>2. Target' = meta[o].source
          BY <1>1, <1>7, <1>10 DEF Target, PassShape
        <4> QED
          BY <1>5, <1>7, <1>10, <3>2, <4>1, <4>2 DEF StepTrue, IsLink, Exists
      <3>3. CASE ~IsLink(meta[o].source, o)
        <4>1. s = "track" /\ ~Exists(meta[o].source) /\ link.kind = "none"
          BY <1>5, <1>6, <3>1, <3>3 DEF IsLink, SourceClear, Exists
        <4> QED
          BY <1>7, <1>10, <4>1 DEF StepTrue, Exists
      <3> QED
        BY <3>2, <3>3
    <2>4. RetireTrue(x)'
      BY <1>9, <1>10 DEF RetireTrue
    <2>5. RetargetTrue(x)'
      <3> SUFFICES ASSUME s = "keep" PROVE RetargetTrue(x)'
        BY <1>9, <1>10 DEF RetargetTrue, Retargeting, Staged
      <3>1. Target' = meta[o].source
        BY <1>1, <1>7, <1>10 DEF Target, PassShape
      <3>2. IsLink(meta[o].source, o)
        BY <1>5, <1>6 DEF IsLink
      <3>3. x # o => meta[x].source # meta[o].source
        BY <1>13, <3>2 DEF CleanTrue, ObjectTrue, SourceClear, IsLink, Exists
      <3> QED
        BY <1>7, <1>10, <3>1, <3>2, <3>3 DEF RetargetTrue, Staged, IsLink
    <2> QED
      BY <2>1, <2>2, <2>3, <2>4, <2>5 DEF CleanTrue, PassTrue
  <1>14. RecoveryPath'
    BY <1>1, <1>7 DEF RecoveryPath
  <1>15. /\ meta' \in [Objects -> Record] /\ event' \in BOOLEAN /\ retry' \in BOOLEAN
         /\ tracker' \in [Objects -> Inodes \cup {Nil}]
    BY <1>1, <1>7 DEF TypeOK
  <1> QED
    BY <1>7, <1>10, <1>11, <1>12, <1>13, <1>14, <1>15, PassStepKeeps

(* What the steps of a retargeting work on.                                *)
LEMMA RetargetPlace ==
    ASSUME IInv, pass.step \in Retargeting
    PROVE  /\ pass.object \in Objects /\ pass.object \notin pass.todo
           /\ Target \in Paths
           /\ pass.moved \in Paths \cup {Nil}
           /\ pass.step \in Staged =>
                 /\ pass.staged \in Paths /\ pass.staged # Target
                 /\ pass.staged[1] = Target[1] /\ pass.staged[2] # Target[2]
  <1>1. TypeOK /\ PassShape
    BY DEF IInv
  <1>2. pass.object \in Objects /\ pass.object \notin pass.todo
    BY <1>1 DEF PassShape, Resting, Retargeting, Staged
  <1>3. Target \in Paths /\ pass.moved \in Paths \cup {Nil}
    BY <1>1, TargetIsPath DEF TypeOK, PassState
  <1>4. ASSUME pass.step \in Staged
        PROVE  /\ pass.staged \in Paths /\ pass.staged # Target
               /\ pass.staged[1] = Target[1] /\ pass.staged[2] # Target[2]
    <2>1. /\ pass.staged \in Paths /\ pass.staged # Target
          /\ pass.staged[1] = Target[1]
      BY <1>1, <1>4 DEF PassShape
    <2> QED
      BY <1>3, <2>1 DEF Paths
  <1> QED
    BY <1>2, <1>3, <1>4

(* The new link is where the old one was, and the old one is staged.       *)
LEMMA RetargetExchangeKeeps ==
    ASSUME IInv, RetargetExchange
    PROVE  IInv'
  <1>1. TypeOK /\ FilesInv /\ PassShape /\ RecoveryPath
    BY DEF IInv
  <1>2. /\ pass.step = "keep" /\ meta' = meta /\ tracker' = tracker
        /\ PassUnchanged
    BY DEF RetargetExchange
  <1>3. PICK o \in Objects : o = pass.object /\ o \notin pass.todo
    BY <1>2, RetargetPlace DEF Retargeting
  <1>4. PICK T \in Paths : T = Target
    BY <1>2, RetargetPlace DEF Retargeting
  <1>5. /\ meta' \in [Objects -> Record] /\ RecoveryPath'
        /\ tracker' \in [Objects -> Inodes \cup {Nil}]
    BY <1>1, <1>2 DEF TypeOK, RecoveryPath
  <1>6. CASE NextRecord(TRUE) /\ files' = files /\ Notify({T[1]} \cap dirs)
    <2>1. \A x \in Objects : CleanTrue(x) => ObjectTrue(x)'
      BY <1>2, <1>6, ObjectFrame DEF CleanTrue, ObjectTrue
    <2>2. event' \in BOOLEAN
      BY <1>1, <1>6 DEF Notify, TypeOK
    <2> QED
      BY <1>2, <1>5, <1>6, <2>1, <2>2, RecordDoneKeeps
  <1>7. ASSUME NEW n \in Staging, Exists(T), FreshInodes # {}, NewStaging(n),
               files' = [files EXCEPT ![T] = Link(o, NewInode, FALSE),
                                      ![<<T[1], n>>] = files[T]],
               Notify({T[1]}), retry' = retry,
               pass' = [pass EXCEPT !.step = "swapped", !.staged = <<T[1], n>>]
        PROVE  IInv'
    <2>1. PICK t \in Paths : t = <<T[1], n>>
      BY <1>4 DEF Paths
    <2>2. /\ \A r \in Paths : r[2] = n => ~Exists(r)
          /\ \A x \in Objects : meta[x].source[2] # n
      <3>1. \A r \in Paths : r = <<r[1], r[2]>> /\ r[1] \in Dirs
        BY DEF Paths
      <3> QED
        BY <1>7, <3>1 DEF NewStaging, UnusedName
    <2>3. t[1] = T[1] /\ t[2] = n /\ ~Exists(t) /\ t # T
      BY <1>7, <2>1, <2>2
    <2>4. NewInode \in Inodes /\ \A q \in Paths : files[q].ino # NewInode
      BY <1>1, <1>7, InodeIsNew
    <2>5. PICK e \in Entries : /\ e = Link(o, NewInode, FALSE)
                               /\ e.kind = "link" /\ e.obj = o
                               /\ e.ino = NewInode /\ ~e.old
      BY <2>4, LinkMade
    <2>6. files \in [Paths -> Entries] /\ pass \in PassState
      BY <1>1 DEF TypeOK
    <2>7. files' = [files EXCEPT ![T] = e, ![t] = files[T]]
      BY <1>7, <2>1, <2>5
    <2>8. /\ files'[T] = e /\ files'[t] = files[T]
          /\ \A r \in Paths : r # T /\ r # t => files'[r] = files[r]
      BY <2>3, <2>6, <2>7
    <2>9. files' \in [Paths -> Entries] /\ FilesInv'
      <3>1. dirs' = dirs /\ owned' = owned /\ overtaken \subseteq overtaken'
        BY <1>2 DEF PassUnchanged, Quiet, history
      <3>2. \A r \in Paths : files[r].ino # e.ino
        BY <2>4, <2>5
      <3>3. Exists(T) /\ e.kind # "none" /\ T # t /\ T[1] = t[1] /\ ~Exists(t)
        BY <1>7, <2>3, <2>5
      <3> QED
        BY <1>1, <2>7, <3>1, <3>2, <3>3, ExchangeEntries
    <2>10. /\ pass' \in PassState /\ pass'.step = "swapped" /\ SameRecord /\ SameSearch
           /\ pass'.moved = pass.moved /\ pass'.staged = t
      BY <1>7, <2>1, <2>6 DEF PassState, Steps, SameRecord, SameSearch
    <2>11. Target' = T
      BY <1>2, <1>4, <2>10 DEF Target, SameRecord
    <2>12. PassShape'
      BY <1>3, <2>1, <2>3, <2>10, <2>11 DEF PassShape, SameRecord, Resting, Staged
    <2>13. StagingInv'
      BY <1>7, <2>2, <2>3, <2>8, <2>10 DEF StagingInv, StagedAlone, DiscardSpares, Exists
    <2>14. event' \in BOOLEAN /\ retry' \in BOOLEAN
      BY <1>1, <1>7 DEF Notify, TypeOK
    <2>15. ASSUME NEW x \in Objects, Clean(x), CleanTrue(x)
           PROVE  CleanTrue(x)'
      <3>1. meta[x].source \in Paths /\ meta[x].source # t
        BY <1>1, <2>2, <2>3 DEF TypeOK, Record
      <3>2. x # o => meta[x].source # T
        BY <1>2, <1>3, <1>4, <2>15 DEF CleanTrue, PassTrue, RetargetTrue, Retargeting
      <3>3. ObjectTrue(x)'
        <4>1. SourceClear(x)'
          BY <1>2, <2>5, <2>8, <2>15, <3>1, <3>2
             DEF CleanTrue, ObjectTrue, SourceClear, IsLink, Exists
        <4>2. \A p \in Paths : IsLink(p, x) => \E q \in Paths : files'[q] = files[p]
          BY <2>3, <2>8 DEF IsLink, Exists
        <4> QED
          BY <1>2, <2>15, <4>1, <4>2, ObjectKept DEF CleanTrue, ObjectTrue
      <3>4. x \in pass.todo => \A r \in Paths : IsLink(r, x)' <=> IsLink(r, x)
        <4> SUFFICES ASSUME x \in pass.todo, NEW r \in Paths
                     PROVE  IsLink(r, x)' <=> IsLink(r, x)
          OBVIOUS
        <4>1. x # o /\ ~IsLink(T, x)
          BY <1>2, <1>3, <1>4, <2>15 DEF CleanTrue, PassTrue, RetargetTrue, Retargeting
        <4> QED
          BY <2>3, <2>5, <2>8, <4>1 DEF IsLink, Exists
      <3>5. IndexTrue(x)'
        BY <2>10, <2>15, <3>4
           DEF CleanTrue, PassTrue, IndexTrue, Searching, SameRecord, SameSearch
      <3>6. StepTrue(x)'
        <4> SUFFICES ASSUME x = o PROVE StepTrue(x)'
          BY <1>3, <2>10 DEF StepTrue, SameRecord
        <4>1. IsLink(T, o) /\ files[T].old
          BY <1>2, <1>3, <1>4, <2>15 DEF CleanTrue, PassTrue, StepTrue
        <4>2. IsLink(T, o)' /\ ~files'[T].old /\ IsLink(t, o)' /\ files'[t].old
          BY <2>5, <2>8, <4>1 DEF IsLink
        <4> QED
          BY <2>10, <2>11, <4>2 DEF StepTrue
      <3>7. RetireTrue(x)'
        BY <2>10 DEF RetireTrue
      <3>8. RetargetTrue(x)'
        <4>1. x \in pass.todo => ~IsLink(T, x)' /\ ~IsLink(t, x)'
          <5>1. x \in pass.todo => ~IsLink(T, x)
            BY <1>2, <1>4, <2>15 DEF CleanTrue, PassTrue, RetargetTrue, Retargeting
          <5>2. ~IsLink(t, x)
            BY <2>3 DEF IsLink, Exists
          <5> QED
            BY <3>4, <5>1, <5>2
        <4> QED
          BY <1>2, <1>3, <2>10, <2>11, <3>1, <3>2, <4>1
             DEF RetargetTrue, SameRecord, Staged
      <3> QED
        BY <3>3, <3>5, <3>6, <3>7, <3>8 DEF CleanTrue, PassTrue
    <2> QED
      BY <1>2, <1>5, <2>9, <2>10, <2>12, <2>13, <2>14, <2>15, PassStepKeeps
  <1> QED
    BY <1>3, <1>4, <1>6, <1>7 DEF RetargetExchange

(* The staged entry is removed when it is the old link, and only then.     *)
LEMMA RetargetValidateKeeps ==
    ASSUME IInv, RetargetValidate
    PROVE  IInv'
  <1>1. TypeOK /\ FilesInv /\ PassShape /\ RecoveryPath /\ StagingInv /\ CleanObjects
    BY DEF IInv
  <1>2. /\ pass.step = "swapped" /\ meta' = meta /\ tracker' = tracker
        /\ retry' = retry /\ PassUnchanged
    BY DEF RetargetValidate
  <1>3. PICK o \in Objects : o = pass.object /\ o \notin pass.todo
    BY <1>2, RetargetPlace DEF Retargeting, Staged
  <1>4. PICK T \in Paths : T = Target
    BY <1>2, RetargetPlace DEF Retargeting, Staged
  <1>5. PICK t \in Paths : t = pass.staged /\ t # T
    BY <1>2, <1>4, RetargetPlace DEF Retargeting, Staged
  <1>6. /\ meta' \in [Objects -> Record] /\ RecoveryPath'
        /\ tracker' \in [Objects -> Inodes \cup {Nil}] /\ retry' \in BOOLEAN
    BY <1>1, <1>2 DEF TypeOK, RecoveryPath
  <1>7. files \in [Paths -> Entries] /\ owned \subseteq Inodes
    BY <1>1 DEF TypeOK
  <1>8. CASE IsLink(t, o) /\ files[t].old
    <2>1. files' = [files EXCEPT ![t] = Absent] /\ Notify({t[1]}) /\ GoTo(AfterRetarget)
      BY <1>3, <1>5, <1>8 DEF RetargetValidate
    <2>2. AfterRetarget \in {"ensure", "adopt"} /\ AfterRetarget \in Steps
      BY DEF AfterRetarget, Steps
    <2>3. /\ pass' \in PassState /\ pass'.step = AfterRetarget
          /\ SameRecord /\ SameSearch /\ pass'.moved = pass.moved
      BY <1>1, <2>1, <2>2, GoToFields
    <2>4. /\ AfterRetarget = "ensure" => T = meta[o].source
          /\ AfterRetarget = "adopt" => T = pass.moved
      BY <1>3, <1>4 DEF AfterRetarget, Target
    <2>5. PassShape' /\ StagingInv'
      <3>1. PassShape'
        BY <1>3, <1>4, <2>2, <2>3, <2>4 DEF PassShape, SameRecord, Resting, Staged
      <3> QED
        BY <2>2, <2>3, <3>1, NothingStaged DEF Staged
    <2>6. \A r \in Paths : files'[r] = IF r = t THEN Absent ELSE files[r]
      BY <1>7, <2>1
    <2>7. files' \in [Paths -> Entries] /\ FilesInv'
      <3>1. /\ \A i \in owned' : StillOwned(i) /\ files[t] # Regular(i)
            /\ owned' \subseteq Inodes /\ dirs' = dirs
        BY <1>2, <1>7, <1>8, EntryMade
           DEF IsLink, StillOwned, PassUnchanged, Quiet, history
      <3>2. Absent \in Entries /\ Absent.kind = "none"
        BY EntryMade
      <3> QED
        BY <1>1, <2>1, <3>1, <3>2, PutEntry
    <2>8. event' \in BOOLEAN
      BY <1>1, <2>1 DEF Notify, TypeOK
    <2>9. ASSUME NEW x \in Objects, Clean(x), CleanTrue(x)
          PROVE  CleanTrue(x)'
      <3>1. meta[x].source \in Paths /\ meta[x].source # t
        BY <1>1, <1>2, <1>5, <2>9
           DEF TypeOK, Record, CleanTrue, PassTrue, RetargetTrue, Staged
      <3>2. SourceClear(x)'
        BY <1>2, <2>6, <2>9, <3>1 DEF CleanTrue, ObjectTrue, SourceClear, IsLink, Exists
      <3>3. x # o => ~IsLink(t, x)
        BY <1>8 DEF IsLink
      <3>4. x = o => IsLink(T, o) /\ ~files[T].old
        BY <1>2, <1>3, <1>4, <2>9 DEF CleanTrue, PassTrue, StepTrue
      <3>5. HasLink(x)'
        <4>1. CASE x = o
          BY <1>5, <2>6, <3>4, <4>1 DEF HasLink, IsLink
        <4>2. CASE x # o
          BY <2>6, <2>9, <3>3, <4>2 DEF CleanTrue, ObjectTrue, HasLink, IsLink
        <4> QED
          BY <4>1, <4>2
      <3>6. TrackerTrue(x)'
        BY <1>2, <1>8, <2>6, <2>9, <3>3 DEF CleanTrue, ObjectTrue, TrackerTrue, IsLink
      <3>7. ObjectTrue(x)'
        BY <1>2, <2>9, <3>2, <3>5, <3>6 DEF CleanTrue, ObjectTrue
      <3>8. IndexTrue(x)'
        <4>1. x \in pass.todo => \A r \in Paths : IsLink(r, x)' <=> IsLink(r, x)
          BY <1>3, <2>6, <3>3, EntryMade DEF IsLink
        <4> QED
          BY <2>2, <2>3, <2>9, <4>1
             DEF CleanTrue, PassTrue, IndexTrue, Searching, SameRecord, SameSearch
      <3>9. StepTrue(x)'
        <4> SUFFICES ASSUME x = o PROVE StepTrue(x)'
          BY <1>3, <2>3 DEF StepTrue, SameRecord
        <4>1. IsLink(T, o)' /\ ~files'[T].old
          BY <1>5, <2>6, <3>4 DEF IsLink
        <4> QED
          BY <1>2, <2>2, <2>3, <2>4, <4>1 DEF StepTrue
      <3>10. RetireTrue(x)' /\ RetargetTrue(x)'
        BY <2>2, <2>3 DEF RetireTrue, RetargetTrue, Retargeting, Staged
      <3> QED
        BY <3>7, <3>8, <3>9, <3>10 DEF CleanTrue, PassTrue
    <2> QED
      BY <1>2, <1>6, <2>3, <2>5, <2>7, <2>8, <2>9, PassStepKeeps
  <1>9. CASE ~(IsLink(t, o) /\ files[t].old)
    <2>1. files' = files /\ event' = event /\ GoTo("rollback")
      BY <1>3, <1>5, <1>9 DEF RetargetValidate
    <2>2. /\ pass' \in PassState /\ pass'.step = "rollback" /\ SameRecord /\ SameSearch
          /\ pass'.moved = pass.moved /\ pass'.staged = pass.staged
      BY <1>1, <2>1, GoToFields DEF Steps
    <2>3. Target' = Target
      BY <1>2, <2>2 DEF Target, SameRecord
    <2>4. PassShape' /\ StagingInv'
      <3>1. PassShape'
        BY <1>1, <1>2, <2>2, <2>3 DEF PassShape, SameRecord, Resting, Staged
      <3>2. StagingInv'
        BY <1>1, <1>2, <2>1, <2>2 DEF StagingInv, StagedAlone, DiscardSpares, Exists
      <3> QED
        BY <3>1, <3>2
    <2>5. FilesInv' /\ files' \in [Paths -> Entries] /\ event' \in BOOLEAN
      BY <1>1, <1>2, <2>1, FilesFrame DEF PassUnchanged, Quiet, history, TypeOK
    <2>6. ASSUME NEW x \in Objects, Clean(x), CleanTrue(x)
          PROVE  CleanTrue(x)'
      <3>1. x # o
        BY <1>2, <1>3, <1>5, <1>9, <2>6 DEF CleanTrue, PassTrue, StepTrue
      <3>2. ObjectTrue(x)'
        BY <1>2, <2>1, <2>6, ObjectFrame DEF CleanTrue, ObjectTrue
      <3>3. IndexTrue(x)'
        BY <2>1, <2>2, <2>6
           DEF CleanTrue, PassTrue, IndexTrue, Searching, SameRecord, SameSearch, IsLink
      <3>4. StepTrue(x)' /\ RetireTrue(x)'
        BY <1>3, <2>2, <3>1 DEF StepTrue, RetireTrue, SameRecord
      <3>5. RetargetTrue(x)'
        BY <1>2, <2>1, <2>2, <2>3, <2>6
           DEF CleanTrue, PassTrue, RetargetTrue, Retargeting, Staged, SameRecord, IsLink
      <3> QED
        BY <3>2, <3>3, <3>4, <3>5 DEF CleanTrue, PassTrue
    <2> QED
      BY <1>2, <1>6, <2>2, <2>4, <2>5, <2>6, PassStepKeeps
  <1> QED
    BY <1>8, <1>9

(* The second exchange: an entry that was put in the way is recorded.      *)
LEMMA RetargetRollbackKeeps ==
    ASSUME IInv, RetargetRollback
    PROVE  IInv'
  <1>1. TypeOK /\ FilesInv /\ PassShape /\ RecoveryPath /\ StagingInv /\ CleanObjects
    BY DEF IInv
  <1>2. /\ pass.step = "rollback" /\ meta' = meta /\ tracker' = tracker
        /\ watched' = watched /\ faults' = faults /\ dirs' = dirs /\ user' = user
        /\ deleted' = deleted /\ raced' = raced /\ rebased' = rebased
        /\ owned' = owned
    BY DEF RetargetRollback
  <1>3. PICK o \in Objects : o = pass.object /\ o \notin pass.todo
    BY <1>2, RetargetPlace DEF Retargeting, Staged
  <1>4. PICK T \in Paths : T = Target
    BY <1>2, RetargetPlace DEF Retargeting, Staged
  <1>5. PICK t \in Paths : /\ t = pass.staged /\ t # T
                           /\ t[1] = T[1] /\ t[2] # T[2]
    BY <1>2, <1>4, RetargetPlace DEF Retargeting, Staged
  <1>6. ~Clean(o)
    BY <1>1, <1>2, <1>3 DEF CleanObjects, CleanTrue, PassTrue, StepTrue
  <1>7. CASE /\ Exists(T) /\ Exists(t)
             /\ files' = [files EXCEPT ![T] = files[t], ![t] = files[T]]
             /\ Notify({T[1]}) /\ GoTo("discard") /\ retry' = retry
             /\ overtaken' = IF IsLink(T, o) THEN overtaken ELSE overtaken \cup {files[T]}
    <2>1. files \in [Paths -> Entries]
      BY <1>1 DEF TypeOK
    <2>2. /\ files'[T] = files[t] /\ files'[t] = files[T]
          /\ \A r \in Paths : r # T /\ r # t => files'[r] = files[r]
      BY <1>5, <1>7, <2>1
    <2>3. /\ overtaken \subseteq overtaken' /\ overtaken' \subseteq Entries
          /\ ~IsLink(T, o) => files[T] \in overtaken'
      BY <1>1, <1>7, <2>1 DEF TypeOK
    <2>4. files' \in [Paths -> Entries] /\ FilesInv'
      <3>1. PICK e \in Entries : e = files[t] /\ e.kind # "none"
        BY <1>7, <2>1 DEF Exists
      <3>2. files' = [files EXCEPT ![T] = e, ![t] = files[T]]
        BY <1>7, <3>1
      <3>3. /\ TypeOK /\ FilesInv /\ dirs' = dirs /\ owned' = owned
            /\ overtaken \subseteq overtaken'
        BY <1>1, <1>2, <2>3
      <3>4. T # t /\ T[1] = t[1] /\ Exists(T)
        BY <1>5, <1>7
      <3> QED
        BY <3>1, <3>2, <3>3, <3>4, ExchangeEntries
    <2>5. /\ pass' \in PassState /\ pass'.step = "discard" /\ SameRecord /\ SameSearch
          /\ pass'.moved = pass.moved /\ pass'.staged = t
      BY <1>1, <1>5, <1>7, GoToFields DEF Steps
    <2>6. Target' = T
      BY <1>2, <1>4, <2>5 DEF Target, SameRecord
    <2>7. \A r \in Paths : r[2] = t[2] /\ files'[r].kind # "none" => r = t
      <3>1. \A r \in Paths : r[2] = t[2] /\ Exists(r) => r = t
        BY <1>1, <1>2, <1>5, <1>7 DEF StagingInv, StagedAlone
      <3> QED
        BY <1>5, <2>2, <3>1 DEF Exists
    <2>8. TypeOK'
      <3>1. event' \in BOOLEAN /\ retry' \in BOOLEAN
        BY <1>1, <1>7 DEF Notify, TypeOK
      <3> QED
        BY <1>1, <1>2, <2>3, <2>4, <2>5, <3>1 DEF TypeOK
    <2>9. RecoveryPath' /\ PassShape'
      BY <1>1, <1>2, <1>3, <1>5, <2>5, <2>6
         DEF RecoveryPath, PassShape, SameRecord, Resting, Staged
    <2>10. StagingInv'
      <3>1. ASSUME NEW p \in Paths, NEW i \in owned, p[2] = t[2], files'[p] = Regular(i)
            PROVE  Regular(i) \in overtaken'
        <4>1. Regular(i).kind = "file"
          BY <1>1, EntryMade DEF TypeOK
        <4>2. files[T] = Regular(i)
          BY <2>2, <2>7, <3>1, <4>1
        <4> QED
          BY <2>3, <4>1, <4>2 DEF IsLink
      <3> QED
        BY <1>2, <2>5, <3>1 DEF StagingInv, StagedAlone, DiscardSpares
    <2>11. ASSUME NEW x \in Objects, Clean(x)'
           PROVE  CleanTrue(x)'
      <3>1. Clean(x) /\ x # o
        BY <1>2, <1>6, <2>3, <2>11 DEF Clean
      <3>2. CleanTrue(x)
        BY <1>1, <3>1 DEF CleanObjects
      <3>3. ~IsLink(T, x)
        BY <2>3, <2>11, <3>1 DEF Clean, IsLink
      <3>4. meta[x].source \in Paths /\ meta[x].source # T /\ meta[x].source # t
        BY <1>1, <1>2, <1>3, <1>4, <1>5, <3>1, <3>2
           DEF TypeOK, Record, CleanTrue, PassTrue, RetargetTrue, Retargeting, Staged
      <3>5. ObjectTrue(x)'
        <4>1. SourceClear(x)'
          BY <1>2, <2>2, <3>2, <3>4 DEF CleanTrue, ObjectTrue, SourceClear, IsLink, Exists
        <4>2. \A p \in Paths : IsLink(p, x) => \E q \in Paths : files'[q] = files[p]
          BY <2>2, <3>3
        <4> QED
          BY <1>2, <3>2, <4>1, <4>2, ObjectKept DEF CleanTrue, ObjectTrue
      <3>6. x \in pass.todo => ~IsLink(t, x)
        BY <1>2, <1>5, <3>2 DEF CleanTrue, PassTrue, RetargetTrue, Staged
      <3>7. x \in pass.todo => \A r \in Paths : IsLink(r, x)' <=> IsLink(r, x)
        BY <2>2, <3>3, <3>6 DEF IsLink
      <3>8. IndexTrue(x)'
        BY <2>5, <3>2, <3>7
           DEF CleanTrue, PassTrue, IndexTrue, Searching, SameRecord, SameSearch
      <3>9. StepTrue(x)' /\ RetireTrue(x)'
        BY <1>3, <2>5, <3>1 DEF StepTrue, RetireTrue, SameRecord
      <3>10. RetargetTrue(x)'
        <4>1. \A p \in Paths : p[2] = t[2] => ~IsLink(p, x)'
          BY <2>2, <2>7, <3>3 DEF IsLink
        <4> QED
          BY <1>2, <2>5, <2>6, <3>3, <3>4, <3>6, <3>7, <4>1
             DEF RetargetTrue, SameRecord
      <3> QED
        BY <3>5, <3>8, <3>9, <3>10 DEF CleanTrue, PassTrue
    <2> QED
      BY <2>4, <2>8, <2>9, <2>10, <2>11 DEF IInv, CleanObjects
  <1>8. CASE NextRecord(TRUE) /\ UNCHANGED <<files, event, overtaken>>
    <2>1. PassUnchanged
      BY <1>2, <1>8 DEF PassUnchanged, Quiet, history
    <2>2. \A x \in Objects : CleanTrue(x) => ObjectTrue(x)'
      BY <1>2, <1>8, ObjectFrame DEF CleanTrue, ObjectTrue
    <2>3. /\ meta' \in [Objects -> Record] /\ RecoveryPath' /\ event' \in BOOLEAN
          /\ tracker' \in [Objects -> Inodes \cup {Nil}]
      BY <1>1, <1>2, <1>8 DEF TypeOK, RecoveryPath
    <2> QED
      BY <1>8, <2>1, <2>2, <2>3, RecordDoneKeeps
  <1> QED
    BY <1>3, <1>4, <1>5, <1>7, <1>8 DEF RetargetRollback

(* What is discarded is no clean object's link.                            *)
LEMMA RetargetDiscardKeeps ==
    ASSUME IInv, RetargetDiscard
    PROVE  IInv'
  <1>1. TypeOK /\ FilesInv /\ PassShape /\ RecoveryPath /\ StagingInv
    BY DEF IInv
  <1>2. PICK again \in BOOLEAN : NextRecord(again)
    BY DEF RetargetDiscard
  <1>3. PICK t \in Paths : t = pass.staged
    BY RetargetPlace DEF RetargetDiscard, Retargeting, Staged
  <1>4. /\ pass.step = "discard" /\ meta' = meta /\ tracker' = tracker
        /\ files' = [files EXCEPT ![t] = Absent] /\ PassUnchanged
        /\ Notify({t[1]}) \/ event' = event
    BY <1>3 DEF RetargetDiscard
  <1>5. /\ pass' \in PassState /\ pass'.step = "next" /\ pass'.object = Nil
        /\ pass'.moved = Nil /\ pass'.todo = pass.todo /\ SameSearch
        /\ retry' \in BOOLEAN
    BY <1>1, <1>2, NextRecordFields
  <1>6. PassShape' /\ StagingInv'
    BY <1>5, RestShape, NothingStaged DEF Resting, Staged
  <1>7. files \in [Paths -> Entries] /\ owned \subseteq Inodes
    BY <1>1 DEF TypeOK
  <1>8. \A r \in Paths : files'[r] = IF r = t THEN Absent ELSE files[r]
    BY <1>4, <1>7
  <1>9. files' \in [Paths -> Entries] /\ FilesInv'
    <2>1. \A i \in owned' :
             \/ Absent = Regular(i)
             \/ StillOwned(i) /\ (files[t] # Regular(i) \/ Regular(i) \in overtaken)
      BY <1>1, <1>3, <1>4
         DEF StagingInv, DiscardSpares, StillOwned, PassUnchanged, Quiet, history
    <2>2. owned' \subseteq Inodes /\ dirs' = dirs
      BY <1>4, <1>7 DEF PassUnchanged, Quiet, history
    <2>3. Absent \in Entries /\ Absent.kind = "none"
      BY EntryMade
    <2> QED
      <3> DEFINE e == Absent
      <3>1. files' = [files EXCEPT ![t] = e] /\ e \in Entries /\ e.kind = "none"
        BY <1>4, <2>3
      <3>2. \A i \in owned' :
               \/ e = Regular(i)
               \/ StillOwned(i) /\ (files[t] # Regular(i) \/ Regular(i) \in overtaken)
        BY <2>1
      <3> HIDE DEF e
      <3> QED
        BY <1>1, <2>2, <3>1, <3>2, PutEntry
  <1>10. ASSUME NEW x \in Objects, Clean(x), CleanTrue(x)
         PROVE  CleanTrue(x)'
    <2>1. ~IsLink(t, x) /\ meta[x].source # t /\ meta[x].source \in Paths
      BY <1>1, <1>3, <1>4, <1>10
         DEF TypeOK, Record, CleanTrue, PassTrue, RetargetTrue, Staged
    <2>2. \A r \in Paths : IsLink(r, x)' <=> IsLink(r, x)
      BY <1>8, <2>1, EntryMade DEF IsLink
    <2>3. SourceClear(x)'
      BY <1>4, <1>8, <1>10, <2>1 DEF CleanTrue, ObjectTrue, SourceClear, IsLink, Exists
    <2>4. \A p \in Paths : IsLink(p, x) => \E q \in Paths : files'[q] = files[p]
      BY <1>8, <2>1
    <2>5. ObjectTrue(x)'
      BY <1>4, <1>10, <2>3, <2>4, ObjectKept DEF CleanTrue, ObjectTrue
    <2>6. PassTrue(x)'
      BY <1>5, <1>10, <2>2, CleanAtNext DEF CleanTrue
    <2> QED
      BY <2>5, <2>6 DEF CleanTrue
  <1>11. /\ meta' \in [Objects -> Record] /\ RecoveryPath' /\ event' \in BOOLEAN
         /\ tracker' \in [Objects -> Inodes \cup {Nil}]
    BY <1>1, <1>4 DEF TypeOK, RecoveryPath, Notify
  <1> QED
    BY <1>4, <1>5, <1>6, <1>9, <1>10, <1>11, PassStepKeeps

LEMMA EnsureLinkKeeps ==
    ASSUME IInv, EnsureLink
    PROVE  IInv'
  <1>1. TypeOK /\ RecoveryPath /\ PassShape
    BY DEF IInv
  <1>2. PICK o \in Objects : o = pass.object
    BY <1>1 DEF EnsureLink, PassShape, Resting
  <1>3. PICK p \in Paths : p = meta[o].source
    BY <1>1 DEF TypeOK, Record
  <1>4. /\ pass.step = "ensure" /\ PassUnchanged /\ files' = files
        /\ Ensure(o, p) /\ NextRecord(~Exists(p))
        /\ ClearLinkOrphan(o) \/ (meta' = meta /\ event' = event)
    BY <1>2, <1>3 DEF EnsureLink
  <1>5. files[p] \in Entries /\ tracker \in [Objects -> Inodes \cup {Nil}]
    BY <1>1 DEF TypeOK
  <1>6. tracker' = tracker \/ tracker' = [tracker EXCEPT ![o] = files[p].ino]
    BY <1>4 DEF Ensure
  <1>7. tracker' \in [Objects -> Inodes \cup {Nil}]
    BY <1>5, <1>6, EntryFields
  <1>8. /\ meta' \in [Objects -> Record] /\ RecoveryPath' /\ event' \in BOOLEAN
        /\ \A x \in Objects : /\ meta'[x].source = meta[x].source
                              /\ meta[x].recovery = "none" => meta'[x].recovery = "none"
    <2>1. CASE ClearLinkOrphan(o)
      BY <1>1, <2>1, ClearLinkOrphanFields
    <2>2. CASE meta' = meta /\ event' = event
      BY <1>1, <2>2 DEF TypeOK, RecoveryPath
    <2> QED
      BY <1>4, <2>1, <2>2
  <1>9. ASSUME NEW x \in Objects, CleanTrue(x) PROVE ObjectTrue(x)'
    <2>1. CASE x # o \/ tracker' = tracker
      BY <1>4, <1>5, <1>6, <1>8, <1>9, <2>1, ObjectFrame DEF CleanTrue, ObjectTrue
    <2>2. CASE x = o /\ tracker' = [tracker EXCEPT ![o] = files[p].ino]
      <3>1. IsLink(p, o) /\ ~files[p].old
        BY <1>2, <1>3, <1>4, <1>9, <2>2 DEF CleanTrue, PassTrue, StepTrue
      <3>2. TrackerTrue(o)'
        BY <1>4, <1>5, <2>2, <3>1 DEF TrackerTrue, IsLink
      <3>3. HasLink(o)' /\ SourceClear(o)'
        BY <1>4, <1>8, <1>9, <2>2
           DEF CleanTrue, ObjectTrue, HasLink, SourceClear, IsLink, Exists
      <3> QED
        BY <1>8, <1>9, <2>2, <3>2, <3>3 DEF CleanTrue, ObjectTrue
    <2> QED
      BY <1>6, <2>1, <2>2
  <1> QED
    BY <1>4, <1>7, <1>8, <1>9, RecordDoneKeeps

(* An object goes to recovery: it must not have been clean.                *)
LEMMA ToRecoveryKeeps ==
    ASSUME IInv, PassUnchanged, files' = files,
           NEW o \in Objects, ~Clean(o),
           NEW state \in {"trash", "conflict"}, MarkLinkRecovery(o, state),
           tracker' \in {tracker, [tracker EXCEPT ![o] = Nil]},
           NEW again \in BOOLEAN, NextRecord(again)
    PROVE  IInv'
  <1>1. TypeOK /\ RecoveryPath
    BY DEF IInv
  <1>2. /\ meta' \in [Objects -> Record] /\ RecoveryPath' /\ event' \in BOOLEAN
        /\ \A x \in Objects : x # o => meta'[x] = meta[x]
    BY <1>1, MarkLinkRecoveryFields
  <1>3. tracker \in [Objects -> Inodes \cup {Nil}]
    BY <1>1 DEF TypeOK
  <1>4. /\ tracker' \in [Objects -> Inodes \cup {Nil}]
        /\ \A x \in Objects : x # o => tracker'[x] = tracker[x]
    BY <1>3
  <1>5. \A x \in Objects : Clean(x) /\ CleanTrue(x) => ObjectTrue(x)'
    BY <1>2, <1>4, ObjectFrame DEF CleanTrue, ObjectTrue
  <1> QED
    BY <1>2, <1>4, <1>5, RecordDoneKeeps

(* An object is marked as orphaned.                                        *)
LEMMA ToOrphanKeeps ==
    ASSUME IInv, PassUnchanged, files' = files, tracker' = tracker,
           NEW o \in Objects, MarkLinkOrphan(o),
           NEW again \in BOOLEAN, NextRecord(again)
    PROVE  IInv'
  <1>1. TypeOK /\ RecoveryPath
    BY DEF IInv
  <1>2. /\ meta' \in [Objects -> Record] /\ RecoveryPath' /\ event' \in BOOLEAN
        /\ \A x \in Objects : /\ meta'[x].source = meta[x].source
                              /\ meta'[x].recovery = meta[x].recovery
    BY <1>1, MarkLinkOrphanFields
  <1>3. tracker' \in [Objects -> Inodes \cup {Nil}]
    BY <1>1 DEF TypeOK
  <1>4. \A x \in Objects : CleanTrue(x) => ObjectTrue(x)'
    BY <1>2, ObjectFrame DEF CleanTrue, ObjectTrue
  <1> QED
    BY <1>2, <1>3, <1>4, RecordDoneKeeps

(* The step to "moved": what the pass found is the link, if it is clean.   *)
LEMMA ToMovedKeeps ==
    ASSUME IInv, PassUnchanged,
           UNCHANGED <<files, meta, tracker, event, retry>>,
           pass.step \in {"track", "search"}, NEW p \in Paths,
           pass' = [pass EXCEPT !.step = "moved", !.moved = p],
           Clean(pass.object) => IsLink(p, pass.object)
    PROVE  IInv'
  <1>1. pass \in PassState
    BY DEF IInv, TypeOK
  <1>2. /\ pass' \in PassState /\ pass'.step = "moved" /\ pass'.moved = p
        /\ SameRecord /\ SameSearch
    BY <1>1 DEF PassState, Steps, SameRecord, SameSearch
  <1>3. ASSUME NEW x \in Objects, Clean(x), CleanTrue(x)
        PROVE  StepTrue(x)' /\ RetireTrue(x)' /\ RetargetTrue(x)'
    <2>1. x = pass.object => IsLink(p, x)' /\ pass.link.kind = "none"
      BY <1>3 DEF CleanTrue, PassTrue, StepTrue, IsLink
    <2>2. StepTrue(x)'
      BY <1>2, <2>1 DEF StepTrue, SameRecord
    <2> QED
      BY <1>2, <2>2 DEF RetireTrue, RetargetTrue, Retargeting, Staged
  <1> QED
    BY <1>2, <1>3, StepOnKeeps DEF Resting, Staged

(* The kernel reference of a clean object leads to its link.               *)
LEMMA ReferenceLeadsToLink ==
    ASSUME TypeOK, FilesInv, NEW o \in Objects, CleanTrue(o), tracker[o] # Nil
    PROVE  /\ PathOf(tracker[o]) \in Paths /\ PathOf(tracker[o]) # Nil
           /\ IsLink(PathOf(tracker[o]), o)
  <1>1. PICK p \in Paths : IsLink(p, o) /\ files[p].ino = tracker[o]
    BY DEF CleanTrue, ObjectTrue, TrackerTrue
  <1>2. /\ PathOf(tracker[o]) \in Paths /\ PathOf(tracker[o]) # Nil
        /\ files[PathOf(tracker[o])].ino = tracker[o]
    BY <1>1, PathOfNamed
  <1>3. PathOf(tracker[o]) = p
    BY <1>1, <1>2 DEF FilesInv, OneNameEach, Exists, IsLink
  <1> QED
    BY <1>1, <1>2, <1>3

LEMMA TrackStateKeeps ==
    ASSUME IInv, TrackState
    PROVE  IInv'
  <1>1. TypeOK /\ FilesInv /\ PassShape /\ RecoveryPath /\ CleanObjects
    BY DEF IInv
  <1>2. PICK o \in Objects : o = pass.object
    BY <1>1 DEF TrackState, PassShape, Resting
  <1>3. PICK p : p = PathOf(tracker[o])
    OBVIOUS
  <1>4. pass.step = "track" /\ files' = files /\ PassUnchanged
    BY DEF TrackState
  <1>5. ASSUME Clean(o)
        PROVE  /\ tracker[o] # Nil => p \in Paths /\ p # Nil /\ IsLink(p, o)
               /\ ~Exists(meta[o].source) /\ pass.link.kind = "none"
    <2>1. CleanTrue(o)
      BY <1>1, <1>5 DEF CleanObjects
    <2>2. ~Exists(meta[o].source) /\ pass.link.kind = "none"
      BY <1>2, <1>4, <2>1 DEF CleanTrue, PassTrue, StepTrue
    <2> QED
      BY <1>1, <1>3, <2>1, <2>2, ReferenceLeadsToLink
  <1>6. CASE tracker[o] = Nil /\ GoTo("search")
             /\ UNCHANGED <<meta, tracker, event, retry>>
    <2>1. /\ pass' \in PassState /\ pass'.step = "search" /\ SameRecord /\ SameSearch
      BY <1>1, <1>6, GoToFields DEF Steps
    <2>2. ASSUME NEW x \in Objects, Clean(x), CleanTrue(x)
          PROVE  StepTrue(x)' /\ RetireTrue(x)' /\ RetargetTrue(x)'
      <3>1. StepTrue(x)'
        BY <1>4, <1>6, <2>1, <2>2 DEF CleanTrue, PassTrue, StepTrue, SameRecord, Exists
      <3> QED
        BY <2>1, <3>1 DEF RetireTrue, RetargetTrue, Retargeting, Staged
    <2> QED
      BY <1>4, <1>6, <2>1, <2>2, StepOnKeeps DEF Resting, Staged
  <1>7. CASE /\ tracker[o] # Nil /\ p # Nil /\ p # meta[o].source
             /\ pass' = [pass EXCEPT !.step = "moved", !.moved = p]
             /\ UNCHANGED <<meta, tracker, event, retry>>
    <2>1. p \in Paths
      BY <1>3, <1>7, PathOfNamed
    <2>2. Clean(pass.object) => IsLink(p, pass.object)
      BY <1>2, <1>5, <1>7
    <2> QED
      BY <1>4, <1>7, <2>1, <2>2, ToMovedKeeps
  <1>8. CASE NextRecord(TRUE) /\ UNCHANGED <<meta, tracker, event>>
    <2>1. \A x \in Objects : CleanTrue(x) => ObjectTrue(x)'
      BY <1>4, <1>8, ObjectFrame DEF CleanTrue, ObjectTrue
    <2>2. /\ meta' \in [Objects -> Record] /\ RecoveryPath' /\ event' \in BOOLEAN
          /\ tracker' \in [Objects -> Inodes \cup {Nil}]
      BY <1>1, <1>8 DEF TypeOK, RecoveryPath
    <2> QED
      BY <1>4, <1>8, <2>1, <2>2, RecordDoneKeeps
  <1>9. CASE /\ tracker[o] # Nil /\ p = Nil
             /\ MarkLinkRecovery(o, "conflict")
             /\ NextRecord(FALSE) /\ tracker' = tracker
    <2>1. ~Clean(o)
      BY <1>5, <1>9
    <2> QED
      BY <1>4, <1>9, <2>1, ToRecoveryKeeps
  <1>10. CASE MarkLinkOrphan(o) /\ NextRecord(TRUE) /\ tracker' = tracker
    BY <1>4, <1>10, ToOrphanKeeps
  <1>11. CASE /\ tracker[o] # Nil /\ p = Nil
              /\ MarkLinkRecovery(o, "trash")
              /\ tracker' = [tracker EXCEPT ![o] = Nil]
              /\ NextRecord(FALSE)
    <2>1. ~Clean(o)
      BY <1>5, <1>11
    <2> QED
      BY <1>4, <1>11, <2>1, ToRecoveryKeeps
  <1> QED
    BY <1>2, <1>3, <1>6, <1>7, <1>8, <1>9, <1>10, <1>11 DEF TrackState

(* A directory that is read adds its links to the index; one that cannot   *)
(* be read, or is gone, leaves the index incomplete.                       *)
LEMMA ScanKeepsIndex ==
    ASSUME TypeOK, FilesInv, NEW d \in Dirs, NEW readable \in BOOLEAN,
           ScanDirectory(d, readable), files' = files,
           NEW o \in Objects, IndexTrue(o)
    PROVE  IndexTrue(o)'
  <1> DEFINE read == {x \in Objects \X Paths : x[2][1] = d /\ IsLink(x[2], x[1])}
             from == IF pass.listed THEN pass.queue ELSE dirs
  <1>1. pass \in PassState
    BY DEF TypeOK
  <1>2. /\ pass'.listed = TRUE /\ pass'.queue = from \ {d}
        /\ pass'.comprehensive = (pass.comprehensive /\ readable /\ d \in dirs)
        /\ pass'.index = IF readable THEN pass.index \cup read ELSE pass.index
        /\ pass'.object = pass.object /\ pass'.todo = pass.todo
        /\ pass'.step = pass.step
    BY <1>1 DEF ScanDirectory, PassState
  <1> SUFFICES ASSUME Searching(o) PROVE IndexTrue(o)'
    BY <1>2 DEF IndexTrue, Searching
  <1>3. \A p \in Paths : <<o, p>> \in read <=> p[1] = d /\ IsLink(p, o)
    OBVIOUS
  <1>4. \A p \in Paths : <<o, p>> \in pass'.index => IsLink(p, o)'
    <2> HIDE DEF read
    <2> QED
      BY <1>2, <1>3 DEF IndexTrue, IsLink
  <1>5. ASSUME pass'.comprehensive, NEW p \in Paths, IsLink(p, o)
        PROVE  p[1] \in pass'.queue \/ <<o, p>> \in pass'.index
    <2>1. readable /\ pass.comprehensive
      BY <1>2, <1>5
    <2>2. p[1] \in dirs
      BY <1>5 DEF FilesInv, EntriesInDirs, Exists, IsLink
    <2>3. p[1] \in from \/ <<o, p>> \in pass.index
      BY <1>5, <2>1, <2>2 DEF IndexTrue
    <2> HIDE DEF read, from
    <2> QED
      BY <1>2, <1>3, <1>5, <2>1, <2>3
  <1> QED
    BY <1>4, <1>5 DEF IndexTrue, IsLink

LEMMA SearchScanKeeps ==
    ASSUME IInv, SearchScan
    PROVE  IInv'
  <1>1. TypeOK /\ FilesInv /\ PassShape /\ RecoveryPath /\ CleanObjects
    BY DEF IInv
  <1>2. pass \in PassState /\ dirs \subseteq Dirs
    BY <1>1 DEF TypeOK
  <1>3. PICK d \in Dirs, readable \in BOOLEAN :
          /\ ScanDirectory(d, readable)
          /\ faults' = faults \/ (faults < MaxFaults /\ faults' = faults + 1)
    BY <1>2 DEF SearchScan, PassState
  <1>4. /\ pass.step = "search" /\ Quiet
        /\ files' = files /\ meta' = meta /\ tracker' = tracker
        /\ watched' = watched /\ event' = event /\ retry' = retry
    BY DEF SearchScan
  <1>5. faults' \in 0 .. MaxFaults
    BY <1>1, <1>3, FaultCounted DEF TypeOK
  <1>6. /\ pass' \in PassState /\ pass'.step = "search" /\ SameRecord
        /\ pass'.moved = pass.moved /\ pass'.staged = pass.staged
    <2> DEFINE read == {x \in Objects \X Paths : x[2][1] = d /\ IsLink(x[2], x[1])}
    <2>1. read \in SUBSET (Objects \X Paths)
      OBVIOUS
    <2>2. (IF pass.listed THEN pass.queue ELSE dirs) \ {d} \in SUBSET Dirs
      BY <1>2 DEF PassState
    <2>3. (pass.comprehensive /\ readable /\ d \in dirs) \in BOOLEAN
      OBVIOUS
    <2>4. pass' = [pass EXCEPT
             !.listed = TRUE,
             !.queue = (IF pass.listed THEN pass.queue ELSE dirs) \ {d},
             !.comprehensive = pass.comprehensive /\ readable /\ d \in dirs,
             !.index = IF readable THEN pass.index \cup read ELSE pass.index]
      BY <1>2, <1>3 DEF ScanDirectory, PassState
    <2> HIDE DEF read
    <2> QED
      BY <1>2, <1>4, <2>1, <2>2, <2>3, <2>4 DEF PassState, SameRecord
  <1>7. TypeOK'
    BY <1>1, <1>4, <1>5, <1>6, QuietTyped DEF TypeOK
  <1>8. FilesInv'
    BY <1>1, <1>4, FilesFrame DEF Quiet, history
  <1>9. RecoveryPath' /\ PassShape' /\ StagingInv'
    <2>1. RecoveryPath' /\ PassShape'
      BY <1>1, <1>4, <1>6 DEF RecoveryPath, PassShape, SameRecord, Resting, Staged
    <2> QED
      BY <1>6, <2>1, NothingStaged DEF Staged
  <1>10. ASSUME NEW o \in Objects, Clean(o)' PROVE CleanTrue(o)'
    <2>1. CleanTrue(o)
      BY <1>1, <1>4, <1>10 DEF Clean, CleanObjects, Quiet, history
    <2>2. ObjectTrue(o)'
      BY <1>4, <2>1, ObjectFrame DEF CleanTrue, ObjectTrue
    <2>3. IndexTrue(o)'
      BY <1>1, <1>3, <1>4, <2>1, ScanKeepsIndex DEF CleanTrue, PassTrue
    <2>4. StepTrue(o)' /\ RetireTrue(o)' /\ RetargetTrue(o)'
      BY <1>4, <1>6, <2>1
         DEF CleanTrue, PassTrue, StepTrue, RetireTrue, RetargetTrue, Retargeting, Staged,
             SameRecord, Exists
    <2> QED
      BY <2>1, <2>2, <2>3, <2>4 DEF CleanTrue, PassTrue
  <1> QED
    BY <1>7, <1>8, <1>9, <1>10 DEF IInv, CleanObjects

(* A search that found nothing in a complete index leaves no clean object  *)
(* without its link.                                                       *)
LEMMA SearchFindsLink ==
    ASSUME TypeOK, pass.step = "search", NEW o \in Objects, o = pass.object, CleanTrue(o),
           Candidates(o) # {} \/ Indexed
    PROVE  /\ pass.link.kind = "none"
           /\ \A p \in Candidates(o) : IsLink(p, o)
           /\ Candidates(o) = {} => ~pass.comprehensive
  <1>1. /\ pass.link.kind = "none" /\ ~Exists(meta[o].source)
        /\ IndexTrue(o) /\ Searching(o)
    BY DEF CleanTrue, PassTrue, StepTrue, Searching
  <1>2. \A p \in Candidates(o) : IsLink(p, o)
    BY <1>1 DEF Candidates, IndexTrue
  <1>3. ASSUME Candidates(o) = {}, pass.comprehensive PROVE FALSE
    <2>1. PICK p \in Paths : IsLink(p, o)
      BY DEF CleanTrue, ObjectTrue, HasLink
    <2>2. <<o, p>> \in pass.index
      BY <1>1, <1>3, <2>1 DEF IndexTrue, Indexed
    <2>3. p # meta[o].source
      BY <1>1, <2>1 DEF Exists, IsLink
    <2> QED
      BY <1>3, <2>2, <2>3 DEF Candidates
  <1> QED
    BY <1>1, <1>2, <1>3

LEMMA SearchEndsKeeps ==
    ASSUME IInv, SearchEnds
    PROVE  IInv'
  <1>1. TypeOK /\ PassShape /\ CleanObjects
    BY DEF IInv
  <1>2. PICK o \in Objects : o = pass.object
    BY <1>1 DEF SearchEnds, PassShape, Resting
  <1>3. /\ pass.step = "search" /\ files' = files /\ tracker' = tracker /\ PassUnchanged
        /\ Candidates(o) # {} \/ Indexed
    BY <1>2 DEF SearchEnds
  <1>4. Clean(o) => /\ pass.link.kind = "none"
                    /\ \A p \in Candidates(o) : IsLink(p, o)
                    /\ Candidates(o) = {} => ~pass.comprehensive
    BY <1>1, <1>2, <1>3, SearchFindsLink DEF CleanObjects
  <1>5. CASE MarkLinkOrphan(o) /\ NextRecord(FALSE)
    BY <1>3, <1>5, ToOrphanKeeps
  <1>6. ASSUME NEW p \in Candidates(o),
               pass' = [pass EXCEPT !.step = "moved", !.moved = p],
               UNCHANGED <<meta, event, retry>>
        PROVE  IInv'
    <2>1. p \in Paths
      BY DEF Candidates
    <2> QED
      BY <1>2, <1>3, <1>4, <1>6, <2>1, ToMovedKeeps
  <1>7. CASE Candidates(o) = {} /\ LinkMissing(o) /\ NextRecord(FALSE)
    <2>1. CASE pass.link.kind # "none" /\ MarkLinkRecovery(o, "conflict")
      BY <1>3, <1>4, <1>7, <2>1, ToRecoveryKeeps
    <2>2. CASE MarkLinkOrphan(o)
      BY <1>5, <1>7, <2>2
    <2>3. CASE pass.comprehensive /\ MarkLinkRecovery(o, "trash")
      BY <1>3, <1>4, <1>7, <2>3, ToRecoveryKeeps
    <2> QED
      BY <1>7, <2>1, <2>2, <2>3 DEF LinkMissing
  <1> QED
    BY <1>2, <1>5, <1>6, <1>7 DEF SearchEnds

LEMMA InspectMovedKeeps ==
    ASSUME IInv, InspectMoved
    PROVE  IInv'
  <1>1. TypeOK /\ PassShape /\ CleanObjects
    BY DEF IInv
  <1>2. PICK o \in Objects : o = pass.object /\ o \notin pass.todo
    BY <1>1 DEF InspectMoved, PassShape, Resting
  <1>3. /\ pass.step = "moved" /\ tracker' = tracker /\ PassUnchanged
        /\ pass.moved \in Paths
    BY <1>1 DEF InspectMoved, PassShape
  <1>4. Clean(o) => pass.link.kind = "none" /\ IsLink(pass.moved, o)
    BY <1>1, <1>2, <1>3 DEF CleanObjects, CleanTrue, PassTrue, StepTrue
  <1>5. CASE /\ ~IsLink(pass.moved, o) /\ MarkLinkRecovery(o, "conflict")
             /\ NextRecord(FALSE) /\ files' = files
    BY <1>3, <1>4, <1>5, ToRecoveryKeeps
  <1>6. CASE /\ IsLink(pass.moved, o) /\ pass.link.kind # "none"
             /\ GoTo("retire") /\ UNCHANGED <<files, meta, event, retry>>
    <2>1. /\ pass' \in PassState /\ pass'.step = "retire" /\ SameRecord /\ SameSearch
          /\ pass'.moved = pass.moved
      BY <1>1, <1>6, GoToFields DEF Steps
    <2>2. ASSUME NEW x \in Objects, Clean(x), CleanTrue(x)
          PROVE  StepTrue(x)' /\ RetireTrue(x)' /\ RetargetTrue(x)'
      <3>1. x # o
        BY <1>4, <1>6, <2>2
      <3>2. ~IsLink(pass.moved, x)
        BY <1>6, <3>1 DEF IsLink
      <3>3. meta[x].source # pass.moved
        BY <1>6, <2>2, <3>2 DEF CleanTrue, ObjectTrue, SourceClear, Exists, IsLink
      <3>4. StepTrue(x)'
        BY <1>2, <2>1, <3>1 DEF StepTrue, SameRecord
      <3> QED
        BY <1>6, <2>1, <3>2, <3>3, <3>4
           DEF RetireTrue, RetargetTrue, Retargeting, Staged, IsLink
    <2> QED
      BY <1>3, <1>6, <2>1, <2>2, StepOnKeeps DEF Resting, Staged
  <1>7. CASE /\ IsLink(pass.moved, o) /\ files[pass.moved].old
             /\ GoTo("keep") /\ UNCHANGED <<files, meta, event, retry>>
    <2>1. /\ pass' \in PassState /\ pass'.step = "keep" /\ SameRecord /\ SameSearch
          /\ pass'.moved = pass.moved
      BY <1>1, <1>7, GoToFields DEF Steps
    <2>2. Target' = pass.moved
      BY <1>3, <2>1, LinkSyncAssumption DEF Target
    <2>3. ASSUME NEW x \in Objects, Clean(x), CleanTrue(x)
          PROVE  StepTrue(x)' /\ RetireTrue(x)' /\ RetargetTrue(x)'
      <3>1. StepTrue(x)'
        BY <1>2, <1>7, <2>1, <2>2 DEF StepTrue, SameRecord, IsLink
      <3>2. x # o => ~IsLink(pass.moved, x)
        BY <1>7 DEF IsLink
      <3>3. x # o => meta[x].source # pass.moved
        BY <1>7, <2>3, <3>2 DEF CleanTrue, ObjectTrue, SourceClear, Exists, IsLink
      <3>4. RetargetTrue(x)'
        BY <1>2, <1>7, <2>1, <2>2, <3>2, <3>3
           DEF RetargetTrue, Staged, SameRecord, IsLink
      <3> QED
        BY <2>1, <3>1, <3>4 DEF RetireTrue
    <2> QED
      BY <1>3, <1>7, <2>1, <2>3, StepOnKeeps DEF Resting, Staged
  <1>8. CASE /\ IsLink(pass.moved, o) /\ ~files[pass.moved].old
             /\ GoTo("adopt") /\ UNCHANGED <<files, meta, event, retry>>
    <2>1. /\ pass' \in PassState /\ pass'.step = "adopt" /\ SameRecord /\ SameSearch
          /\ pass'.moved = pass.moved
      BY <1>1, <1>8, GoToFields DEF Steps
    <2>2. ASSUME NEW x \in Objects
          PROVE  StepTrue(x)' /\ RetireTrue(x)' /\ RetargetTrue(x)'
      <3>1. StepTrue(x)'
        BY <1>2, <1>8, <2>1 DEF StepTrue, SameRecord, IsLink
      <3> QED
        BY <2>1, <3>1 DEF RetireTrue, RetargetTrue, Retargeting, Staged
    <2> QED
      BY <1>3, <1>8, <2>1, <2>2, StepOnKeeps DEF Resting, Staged
  <1> QED
    BY <1>2, <1>5, <1>6, <1>7, <1>8 DEF InspectMoved

-----------------------------------------------------------------------------
(* Retiring a link.                                                        *)

(* The index is right as long as no link of an object the pass has still   *)
(* to look at moves.                                                       *)
LEMMA IndexFrame ==
    ASSUME NEW o \in Objects, IndexTrue(o), SameSearch, Searching(o)' => Searching(o),
           Searching(o)' => \A r \in Paths : IsLink(r, o)' <=> IsLink(r, o)
    PROVE  IndexTrue(o)'
  BY DEF IndexTrue, SameSearch

(* The entry at p moves to q, and with it perhaps the link of the object.  *)
LEMMA ObjectFollows ==
    ASSUME TypeOK, NEW o \in Objects, ObjectTrue(o), meta' = meta, tracker' = tracker,
           NEW p \in Paths, NEW q \in Paths, p # q, ~Exists(q), Exists(p),
           files' = [files EXCEPT ![q] = files[p], ![p] = Absent],
           meta[o].source # q
    PROVE  ObjectTrue(o)'
  <1>1. files \in [Paths -> Entries] /\ meta[o].source \in Paths
    BY DEF TypeOK, Record
  <1>2. /\ files'[p] = Absent /\ files'[q] = files[p]
        /\ \A r \in Paths : r # p /\ r # q => files'[r] = files[r]
    BY <1>1
  <1>3. \A r \in Paths : IsLink(r, o) => \E u \in Paths : files'[u] = files[r]
    BY <1>2 DEF IsLink, Exists
  <1>4. SourceClear(o)'
    BY <1>1, <1>2, EntryMade DEF ObjectTrue, SourceClear, Exists, IsLink
  <1> QED
    BY <1>3, <1>4, ObjectKept DEF ObjectTrue

(* An entry that is no link of the object is removed.                      *)
LEMMA ObjectSpared ==
    ASSUME TypeOK, NEW o \in Objects, ObjectTrue(o), meta' = meta, tracker' = tracker,
           NEW p \in Paths, ~IsLink(p, o), files' = [files EXCEPT ![p] = Absent]
    PROVE  ObjectTrue(o)' /\ \A r \in Paths : IsLink(r, o)' <=> IsLink(r, o)
  <1>1. files \in [Paths -> Entries] /\ meta[o].source \in Paths
    BY DEF TypeOK, Record
  <1>2. files'[p] = Absent /\ \A r \in Paths : r # p => files'[r] = files[r]
    BY <1>1
  <1>3. \A r \in Paths : IsLink(r, o)' <=> IsLink(r, o)
    BY <1>2, EntryMade DEF IsLink
  <1>4. HasLink(o)' /\ TrackerTrue(o)'
    BY <1>2, <1>3 DEF ObjectTrue, HasLink, TrackerTrue
  <1>5. SourceClear(o)'
    BY <1>1, <1>2, <1>3, EntryMade DEF ObjectTrue, SourceClear, Exists
  <1> QED
    BY <1>3, <1>4, <1>5 DEF ObjectTrue

(* While a link is retired the object the pass is at is not clean.         *)
LEMMA RetiredIsNotClean ==
    ASSUME IInv, pass.step \in {"retire", "retired", "conflict"}
    PROVE  pass.object \in Objects /\ ~Clean(pass.object)
  <1>1. pass.object \in Objects
    BY DEF IInv, PassShape, Resting
  <1> QED
    BY <1>1 DEF IInv, CleanObjects, CleanTrue, PassTrue, StepTrue

LEMMA RetireStageKeeps ==
    ASSUME IInv, RetireStage
    PROVE  IInv'
  <1>1. TypeOK /\ FilesInv /\ PassShape /\ RecoveryPath
    BY DEF IInv
  <1>2. /\ pass.step = "retire" /\ meta' = meta /\ tracker' = tracker
        /\ retry' = retry /\ PassUnchanged
    BY DEF RetireStage
  <1>3. /\ pass.object \in Objects /\ ~Clean(pass.object)
        /\ pass.object \notin pass.todo /\ pass.moved \in Paths
    BY <1>1, <1>2, RetiredIsNotClean DEF PassShape, Resting
  <1>4. CASE GoTo("conflict") /\ UNCHANGED <<files, event>>
    <2>1. pass' \in PassState /\ pass'.step = "conflict" /\ SameRecord /\ SameSearch
      BY <1>1, <1>4, GoToFields DEF Steps
    <2>2. ASSUME NEW x \in Objects, Clean(x)
          PROVE  StepTrue(x)' /\ RetireTrue(x)' /\ RetargetTrue(x)'
      BY <1>3, <2>1, <2>2
         DEF StepTrue, RetireTrue, RetargetTrue, Retargeting, Staged, SameRecord
    <2> QED
      BY <1>2, <1>4, <2>1, <2>2, StepOnKeeps DEF Resting, Staged
  <1>5. ASSUME NEW n \in Staging, NEW staged, staged = <<pass.moved[1], n>>,
               Exists(pass.moved), NewStaging(n),
               files' = [files EXCEPT ![staged] = files[pass.moved],
                                      ![pass.moved] = Absent],
               Notify({pass.moved[1]}),
               pass' = [pass EXCEPT !.step = "retired", !.staged = staged]
        PROVE  IInv'
    <2>1. staged \in Paths /\ staged[1] = pass.moved[1] /\ pass.moved[1] \in dirs
      BY <1>1, <1>3, <1>5 DEF Paths, FilesInv, EntriesInDirs
    <2>9. ~Exists(staged) /\ \A o \in Objects : meta[o].source # staged
      <3>1. pass.moved[1] \in Dirs /\ staged[2] = n
        BY <1>3, <1>5 DEF Paths
      <3> QED
        BY <1>5, <3>1 DEF NewStaging, UnusedName
    <2>2. files \in [Paths -> Entries] /\ pass \in PassState
      BY <1>1 DEF TypeOK
    <2>3. /\ pass' \in PassState /\ pass'.step = "retired" /\ pass'.staged = staged
          /\ pass'.moved = pass.moved /\ SameRecord /\ SameSearch
      BY <1>5, <2>1, <2>2 DEF PassState, Steps, SameRecord, SameSearch
    <2>4. PassShape' /\ StagingInv'
      <3>1. PassShape'
        BY <1>3, <2>1, <2>3 DEF PassShape, SameRecord, Resting, Staged
      <3> QED
        BY <2>3, <3>1, NothingStaged DEF Staged
    <2>5. files' \in [Paths -> Entries] /\ FilesInv'
      <3>1. \A i \in owned' : StillOwned(i) /\ files[staged] # Regular(i)
        BY <1>1, <1>2, <2>9, EntryMade
           DEF PassUnchanged, Quiet, history, Exists, TypeOK, StillOwned
      <3>2. dirs' = dirs /\ pass.moved # staged
        BY <1>2, <1>5, <2>9 DEF PassUnchanged, Quiet
      <3> QED
        BY <1>1, <1>3, <1>5, <2>1, <3>1, <3>2, MoveEntry
    <2>6. /\ files'[staged] = files[pass.moved] /\ files'[pass.moved] = Absent
          /\ \A r \in Paths : r # pass.moved /\ r # staged => files'[r] = files[r]
      BY <1>3, <1>5, <2>1, <2>2, <2>9
    <2>7. ASSUME NEW x \in Objects, Clean(x), CleanTrue(x)
          PROVE  CleanTrue(x)'
      <3>1. x # pass.object /\ meta[x].source # pass.moved
        BY <1>2, <1>3, <2>7 DEF CleanTrue, PassTrue, RetireTrue
      <3>2. ObjectTrue(x)'
        BY <1>1, <1>2, <1>3, <1>5, <2>1, <2>7, <2>9, ObjectFollows DEF CleanTrue
      <3>3. x \in pass.todo => ~IsLink(pass.moved, x)
        BY <1>2, <2>7 DEF CleanTrue, PassTrue, RetireTrue
      <3>4. ASSUME x \in pass.todo, NEW r \in Paths PROVE IsLink(r, x)' <=> IsLink(r, x)
        <4>1. ~IsLink(pass.moved, x) /\ ~IsLink(staged, x)
          BY <2>9, <3>1, <3>3, <3>4 DEF IsLink, Exists
        <4>2. ~IsLink(pass.moved, x)' /\ ~IsLink(staged, x)'
          <5>1. ~(files'[pass.moved].kind = "link") /\ pass'.moved = pass.moved
            BY <2>3, <2>6, EntryMade
          <5>2. ~(files'[staged].kind = "link" /\ files'[staged].obj = x)
            BY <2>6, <4>1 DEF IsLink
          <5> QED
            BY <5>1, <5>2 DEF IsLink
        <4>3. r # pass.moved /\ r # staged => files'[r] = files[r]
          BY <2>6
        <4> QED
          BY <2>3, <4>1, <4>2, <4>3 DEF IsLink
      <3>5. IndexTrue(x)'
        BY <2>3, <2>7, <3>4, IndexFrame
           DEF CleanTrue, PassTrue, Searching, SameRecord
      <3>6. StepTrue(x)'
        BY <2>3, <3>1 DEF StepTrue, SameRecord
      <3>7. RetireTrue(x)'
        BY <1>2, <2>3, <2>6, <3>1, <3>3 DEF RetireTrue, SameRecord, IsLink
      <3>8. RetargetTrue(x)'
        BY <2>3 DEF RetargetTrue, Retargeting, Staged
      <3> QED
        BY <3>2, <3>5, <3>6, <3>7, <3>8 DEF CleanTrue, PassTrue
    <2>8. /\ event' \in BOOLEAN /\ retry' \in BOOLEAN /\ RecoveryPath'
          /\ meta' \in [Objects -> Record] /\ tracker' \in [Objects -> Inodes \cup {Nil}]
      BY <1>1, <1>2, <1>5 DEF TypeOK, Notify, RecoveryPath
    <2> QED
      BY <1>2, <2>3, <2>4, <2>5, <2>7, <2>8, PassStepKeeps
  <1> QED
    BY <1>4, <1>5 DEF RetireStage

LEMMA RetireValidateKeeps ==
    ASSUME IInv, RetireValidate
    PROVE  IInv'
  <1>1. TypeOK /\ FilesInv /\ PassShape /\ RecoveryPath
    BY DEF IInv
  <1>2. /\ pass.step = "retired" /\ meta' = meta /\ tracker' = tracker
        /\ PassUnchanged
    BY DEF RetireValidate
  <1>3. /\ pass.object \in Objects /\ ~Clean(pass.object)
        /\ pass.moved \in Paths /\ pass.staged \in Paths
        /\ pass.staged[1] = pass.moved[1] /\ pass.object \notin pass.todo
    BY <1>1, <1>2, RetiredIsNotClean DEF PassShape, Resting
  <1>4. PICK p \in Paths, q \in Paths : p = pass.staged /\ q = pass.moved
    BY <1>3
  <1>5. files \in [Paths -> Entries] /\ owned \subseteq Inodes
    BY <1>1 DEF TypeOK
  <1>6. owned' = owned /\ dirs' = dirs
    BY <1>2 DEF PassUnchanged, Quiet, history
  <1>7. /\ meta' \in [Objects -> Record] /\ RecoveryPath'
        /\ tracker' \in [Objects -> Inodes \cup {Nil}]
    BY <1>1, <1>2 DEF TypeOK, RecoveryPath
  <1>8. ASSUME NEW x \in Objects, Clean(x), CleanTrue(x)
        PROVE  /\ x # pass.object /\ meta[x].source # q
               /\ x \in pass.todo => ~IsLink(p, x)
    BY <1>2, <1>3, <1>4, <1>8 DEF CleanTrue, PassTrue, RetireTrue
  <1>9. CASE /\ IsLink(p, pass.object) /\ files' = [files EXCEPT ![p] = Absent]
             /\ Notify({p[1]}) /\ GoTo("conflict") /\ retry' = retry
    <2>1. /\ pass' \in PassState /\ pass'.step = "conflict" /\ SameRecord /\ SameSearch
      BY <1>1, <1>9, GoToFields DEF Steps
    <2>2. PassShape' /\ StagingInv'
      <3>1. PassShape'
        BY <1>3, <2>1 DEF PassShape, SameRecord, Resting, Staged
      <3> QED
        BY <2>1, <3>1, NothingStaged DEF Staged
    <2>3. files' \in [Paths -> Entries] /\ FilesInv'
      <3>1. \A i \in owned' :
               \/ Absent = Regular(i)
               \/ StillOwned(i) /\ (files[p] # Regular(i) \/ Regular(i) \in overtaken)
        BY <1>2, <1>5, <1>6, <1>9, EntryMade
           DEF IsLink, StillOwned, PassUnchanged, Quiet, history
      <3>2. Absent \in Entries /\ Absent.kind = "none"
        BY EntryMade
      <3> QED
        BY <1>1, <1>5, <1>6, <1>9, <3>1, <3>2, PutEntry
    <2>4. ASSUME NEW x \in Objects, Clean(x), CleanTrue(x)
          PROVE  CleanTrue(x)'
      <3>1. ~IsLink(p, x) /\ x # pass.object
        BY <1>8, <1>9, <2>4 DEF IsLink
      <3>2. ObjectTrue(x)' /\ \A r \in Paths : IsLink(r, x)' <=> IsLink(r, x)
        BY <1>1, <1>2, <1>9, <2>4, <3>1, ObjectSpared DEF CleanTrue
      <3>3. IndexTrue(x)'
        BY <2>1, <2>4, <3>2, IndexFrame DEF CleanTrue, PassTrue, Searching, SameRecord
      <3>4. StepTrue(x)' /\ RetireTrue(x)' /\ RetargetTrue(x)'
        BY <2>1, <3>1 DEF StepTrue, RetireTrue, RetargetTrue, Retargeting, Staged, SameRecord
      <3> QED
        BY <3>2, <3>3, <3>4 DEF CleanTrue, PassTrue
    <2>5. event' \in BOOLEAN /\ retry' \in BOOLEAN
      BY <1>1, <1>9 DEF TypeOK, Notify
    <2> QED
      BY <1>2, <1>7, <2>1, <2>2, <2>3, <2>4, <2>5, PassStepKeeps
  <1>10. CASE /\ ~Exists(q) /\ Exists(p)
              /\ files' = [files EXCEPT ![q] = files[p], ![p] = Absent]
              /\ Notify({p[1]}) /\ NextRecord(FALSE)
    <2>1. /\ pass' \in PassState /\ pass'.step = "next" /\ pass'.object = Nil
          /\ pass'.moved = Nil /\ pass'.todo = pass.todo /\ SameSearch
          /\ retry' \in BOOLEAN
      BY <1>1, <1>10, NextRecordFields
    <2>2. PassShape' /\ StagingInv'
      BY <2>1, RestShape, NothingStaged DEF Resting, Staged
    <2>3. p # q /\ q[1] \in dirs
      BY <1>1, <1>3, <1>4, <1>10 DEF FilesInv, EntriesInDirs
    <2>4. files' \in [Paths -> Entries] /\ FilesInv'
      <3>1. \A i \in owned' : StillOwned(i) /\ files[q] # Regular(i)
        BY <1>2, <1>5, <1>6, <1>10, EntryMade
           DEF Exists, StillOwned, PassUnchanged, Quiet, history
      <3> QED
        BY <1>1, <1>6, <1>10, <2>3, <3>1, MoveEntry
    <2>5. /\ files'[q] = files[p] /\ files'[p] = Absent
          /\ \A r \in Paths : r # p /\ r # q => files'[r] = files[r]
      BY <1>5, <1>10, <2>3
    <2>6. ASSUME NEW x \in Objects, Clean(x), CleanTrue(x)
          PROVE  CleanTrue(x)'
      <3>2. ObjectTrue(x)'
        BY <1>1, <1>2, <1>8, <1>10, <2>3, <2>6, ObjectFollows DEF CleanTrue
      <3>3. ASSUME x \in pass.todo, NEW r \in Paths PROVE IsLink(r, x)' <=> IsLink(r, x)
        <4>1. ~IsLink(p, x) /\ ~IsLink(q, x)
          BY <1>8, <1>10, <2>6, <3>3 DEF IsLink, Exists
        <4>2. ~IsLink(p, x)' /\ ~IsLink(q, x)'
          BY <2>5, <4>1, EntryMade DEF IsLink
        <4>3. r # p /\ r # q => files'[r] = files[r]
          BY <2>5
        <4> QED
          BY <4>1, <4>2, <4>3 DEF IsLink
      <3>4. PassTrue(x)'
        BY <2>1, <2>6, <3>3, CleanAtNext DEF CleanTrue
      <3> QED
        BY <3>2, <3>4 DEF CleanTrue
    <2>7. event' \in BOOLEAN
      BY <1>1, <1>10 DEF TypeOK, Notify
    <2> QED
      BY <1>2, <1>7, <2>1, <2>2, <2>4, <2>6, <2>7, PassStepKeeps
  <1>11. CASE files' = files /\ event' = event /\ NextRecord(FALSE)
    <2>1. \A x \in Objects : CleanTrue(x) => ObjectTrue(x)'
      BY <1>2, <1>11, ObjectFrame DEF CleanTrue, ObjectTrue
    <2>2. event' \in BOOLEAN
      BY <1>1, <1>11 DEF TypeOK
    <2> QED
      BY <1>2, <1>7, <1>11, <2>1, <2>2, RecordDoneKeeps
  <1> QED
    BY <1>4, <1>9, <1>10, <1>11 DEF RetireValidate

LEMMA RecordConflictKeeps ==
    ASSUME IInv, RecordConflict
    PROVE  IInv'
  <1>1. pass.object \in Objects /\ ~Clean(pass.object)
    BY RetiredIsNotClean DEF RecordConflict
  <1> QED
    BY <1>1, ToRecoveryKeeps DEF RecordConflict

-----------------------------------------------------------------------------
(* Adopting a moved link, and the end of the pass.                         *)

LEMMA AdoptMovedKeeps ==
    ASSUME IInv, AdoptMoved
    PROVE  IInv'
  <1>1. TypeOK /\ FilesInv /\ PassShape /\ RecoveryPath
    BY DEF IInv
  <1>2. PICK o \in Objects : o = pass.object
    BY <1>1 DEF AdoptMoved, PassShape, Resting
  <1>3. PICK p \in Paths : p = pass.moved
    BY <1>1 DEF AdoptMoved, PassShape
  <1> DEFINE moves == pass.moves \cup InferredMove(o, meta[o].source, p)
  <1>4. /\ pass.step = "adopt" /\ SetLinkSource(o, p) /\ PassUnchanged
        /\ pass' = [pass EXCEPT !.step = "retrack", !.moves = moves]
        /\ files' = files /\ tracker' = tracker /\ retry' = retry
    <2>1. pass \in PassState
      BY <1>1 DEF TypeOK
    <2> QED
      BY <1>2, <1>3, <2>1 DEF AdoptMoved, PassState
  <1>5. meta[o].source \in Paths /\ pass \in PassState
    BY <1>1 DEF TypeOK, Record
  <1>6. moves \in SUBSET (Objects \X Dirs \X Dirs)
    BY <1>5 DEF InferredMove, Paths, PassState
  <1> HIDE DEF moves
  <1>7. /\ pass' \in PassState /\ pass'.step = "retrack" /\ pass'.moved = p
        /\ SameRecord /\ SameSearch
    BY <1>3, <1>4, <1>5, <1>6 DEF PassState, Steps, SameRecord, SameSearch
  <1>8. PassShape' /\ StagingInv'
    <2>1. PassShape'
      BY <1>1, <1>4, <1>7 DEF PassShape, SameRecord, Resting, Staged
    <2> QED
      BY <1>7, <2>1, NothingStaged DEF Staged
  <1>9. /\ meta' \in [Objects -> Record] /\ RecoveryPath' /\ event' \in BOOLEAN
        /\ meta'[o].source = p /\ meta'[o].recovery = "none"
        /\ \A x \in Objects : x # o => meta'[x] = meta[x]
    BY <1>1, <1>4, SetLinkSourceFields
  <1>10. FilesInv' /\ files' \in [Paths -> Entries]
    BY <1>1, <1>4, FilesFrame DEF PassUnchanged, Quiet, history, TypeOK
  <1>11. ASSUME NEW x \in Objects, Clean(x), CleanTrue(x)
         PROVE  CleanTrue(x)'
    <2>1. x = o => IsLink(p, o) /\ ~files[p].old
      BY <1>2, <1>3, <1>4, <1>11 DEF CleanTrue, PassTrue, StepTrue
    <2>2. ObjectTrue(x)'
      <3>1. CASE x = o
        <4>1. SourceClear(x)'
          BY <1>4, <1>9, <2>1, <3>1 DEF SourceClear, IsLink
        <4> QED
          BY <1>4, <1>9, <1>11, <3>1, <4>1
             DEF CleanTrue, ObjectTrue, HasLink, TrackerTrue, IsLink
      <3>2. CASE x # o
        BY <1>4, <1>9, <1>11, <3>2, ObjectFrame DEF CleanTrue, ObjectTrue
      <3> QED
        BY <3>1, <3>2
    <2>3. IndexTrue(x)'
      BY <1>4, <1>7, <1>11, IndexFrame
         DEF CleanTrue, PassTrue, Searching, SameRecord, IsLink
    <2>4. StepTrue(x)'
      BY <1>2, <1>4, <1>7, <2>1 DEF StepTrue, SameRecord, IsLink
    <2>5. RetireTrue(x)' /\ RetargetTrue(x)'
      BY <1>7 DEF RetireTrue, RetargetTrue, Retargeting, Staged
    <2> QED
      BY <2>2, <2>3, <2>4, <2>5 DEF CleanTrue, PassTrue
  <1>12. retry' \in BOOLEAN /\ tracker' \in [Objects -> Inodes \cup {Nil}]
    BY <1>1, <1>4 DEF TypeOK
  <1> QED
    BY <1>4, <1>7, <1>8, <1>9, <1>10, <1>11, <1>12, PassStepKeeps

LEMMA RetrackKeeps ==
    ASSUME IInv, Retrack
    PROVE  IInv'
  <1>1. TypeOK /\ PassShape /\ RecoveryPath
    BY DEF IInv
  <1>2. PICK o \in Objects : o = pass.object
    BY <1>1 DEF Retrack, PassShape, Resting
  <1>3. PICK p \in Paths : p = pass.moved
    BY <1>1 DEF Retrack, PassShape
  <1>4. /\ pass.step = "retrack" /\ PassUnchanged
        /\ tracker' = [tracker EXCEPT ![o] = files[p].ino]
        /\ NextRecord(~Exists(p))
        /\ files' = files /\ meta' = meta /\ event' = event
    BY <1>2, <1>3 DEF Retrack
  <1>5. files[p] \in Entries /\ tracker \in [Objects -> Inodes \cup {Nil}]
    BY <1>1 DEF TypeOK
  <1>6. tracker' \in [Objects -> Inodes \cup {Nil}]
    BY <1>4, <1>5, EntryFields
  <1>7. ASSUME NEW x \in Objects, CleanTrue(x) PROVE ObjectTrue(x)'
    <2>1. TrackerTrue(x)'
      <3>1. CASE x = o
        <4>1. IsLink(p, o) /\ ~files[p].old
          BY <1>2, <1>3, <1>4, <1>7, <3>1 DEF CleanTrue, PassTrue, StepTrue
        <4> QED
          BY <1>4, <1>5, <3>1, <4>1 DEF TrackerTrue, IsLink
      <3>2. CASE x # o
        BY <1>4, <1>5, <1>7, <3>2 DEF CleanTrue, ObjectTrue, TrackerTrue, IsLink
      <3> QED
        BY <3>1, <3>2
    <2> QED
      BY <1>4, <1>7, <2>1
         DEF CleanTrue, ObjectTrue, HasLink, SourceClear, IsLink, Exists
  <1>8. meta' \in [Objects -> Record] /\ RecoveryPath' /\ event' \in BOOLEAN
    BY <1>1, <1>4 DEF TypeOK, RecoveryPath
  <1> QED
    BY <1>4, <1>6, <1>7, <1>8, RecordDoneKeeps

(* A record that a confirmed move rebases stays clean only when its new    *)
(* path names the link or nothing.                                         *)
LEMMA EndPassKeeps ==
    ASSUME IInv, EndPass
    PROVE  IInv'
  <1>1. TypeOK /\ FilesInv /\ PassShape /\ RecoveryPath /\ CleanObjects
    BY DEF IInv
  <1>2. /\ pass.step = "next" /\ pass.todo = {}
        /\ files' = files /\ tracker' = tracker /\ watched' = watched
        /\ faults' = faults /\ dirs' = dirs /\ user' = user
        /\ deleted' = deleted /\ raced' = raced /\ owned' = owned
        /\ overtaken' = overtaken
    BY DEF EndPass
  <1>3. PICK s \in {"watch", "idle"} :
          s = IF watched # Nil /\ watched # WatchDirectories THEN "watch" ELSE "idle"
    OBVIOUS
  <1>4. /\ watched' = Nil \/ watched' \subseteq Dirs \cup {Home}
        /\ tracker' \in [Objects -> Inodes \cup {Nil}] /\ faults' \in 0 .. MaxFaults
    BY <1>1, <1>2 DEF TypeOK
  <1>5. CASE /\ pass' = [Off EXCEPT !.step = s]
             /\ UNCHANGED <<meta, event, retry, rebased>>
    <2>1. /\ pass' \in PassState /\ pass'.step = s /\ pass'.todo = {}
          /\ pass'.object = Nil
      <3>1. s \in Steps
        BY DEF Steps
      <3> QED
        BY <1>5, <3>1, OffFields
    <2>2. Quiet
      BY <1>2, <1>5 DEF Quiet, history
    <2>3. \A o \in Objects : CleanTrue(o) => TrackerTrue(o)'
      BY <1>2, TrackerKept
    <2>4. event' \in BOOLEAN /\ retry' \in BOOLEAN
      BY <1>1, <1>5 DEF TypeOK
    <2> QED
      BY <1>2, <1>4, <1>5, <2>1, <2>2, <2>3, <2>4, RestKeeps DEF Resting
  <1>6. ASSUME NEW m \in ConfirmedMoves,
               meta' = [o \in Objects |->
                 IF o \in {x \in Objects : meta[x].source[1] = m[1]}
                 THEN [meta[o] EXCEPT !.source = <<m[2], meta[o].source[2]>>]
                 ELSE meta[o]],
               rebased' = rebased \cup
                 {o \in {x \in Objects : meta[x].source[1] = m[1]} :
                    /\ Exists(<<m[2], meta[o].source[2]>>)
                    /\ ~IsLink(<<m[2], meta[o].source[2]>>, o)},
               NotifyIndex,
               retry' = (retry \/ {x \in Objects : meta[x].source[1] = m[1]} # {}),
               pass' = [pass EXCEPT !.moves = {x \in @ : <<x[2], x[3]>> # m}]
        PROVE  IInv'
    <2> DEFINE Below(o) == <<m[2], meta[o].source[2]>>
               left == {x \in Objects : meta[x].source[1] = m[1]}
    <2>1. m[2] \in Dirs
      BY DEF ConfirmedMoves
    <2>2. pass \in PassState /\ meta \in [Objects -> Record]
      BY <1>1 DEF TypeOK
    <2>3. \A o \in Objects : Below(o) \in Paths
      BY <1>6, <2>1, <2>2 DEF Record, Paths
    <2>4. \A o \in Objects :
            /\ meta'[o] \in Record
            /\ meta'[o].recovery = meta[o].recovery /\ meta'[o].path = meta[o].path
            /\ meta'[o].source = IF o \in left THEN Below(o) ELSE meta[o].source
      BY <1>6, <2>2, <2>3 DEF Record
    <2>5. meta' \in [Objects -> Record]
      <3>1. meta' = [o \in Objects |-> meta'[o]]
        BY <1>6
      <3> QED
        BY <2>4, <3>1
    <2>6. /\ pass' \in PassState /\ pass'.step = "next" /\ pass'.todo = {}
          /\ pass'.moved = pass.moved /\ SameRecord /\ SameSearch
      <3> DEFINE moves == {x \in pass.moves : <<x[2], x[3]>> # m}
      <3>1. pass' = [pass EXCEPT !.moves = moves]
        BY <1>6, <2>2 DEF PassState
      <3>2. moves \in SUBSET (Objects \X Dirs \X Dirs)
        BY <2>2 DEF PassState
      <3> HIDE DEF moves
      <3> QED
        BY <1>2, <2>2, <3>1, <3>2 DEF PassState, SameRecord, SameSearch
    <2>7. event' \in BOOLEAN /\ retry' \in BOOLEAN /\ rebased' \subseteq Objects
      BY <1>1, <1>6 DEF TypeOK, NotifyIndex
    <2>8. TypeOK'
      BY <1>1, <1>2, <1>4, <2>5, <2>6, <2>7 DEF TypeOK
    <2>9. FilesInv'
      BY <1>1, <1>2, FilesFrame
    <2>10. RecoveryPath' /\ PassShape' /\ StagingInv'
      <3>1. pass'.moved = Nil
        BY <1>1, <1>2, <2>6 DEF PassShape
      <3> QED
        BY <1>1, <2>4, <2>6, <3>1, RestShape, NothingStaged
           DEF RecoveryPath, Resting, Staged
    <2>11. ASSUME NEW x \in Objects, Clean(x)' PROVE CleanTrue(x)'
      <3>1. CleanTrue(x) /\ meta'[x].recovery = "none"
        BY <1>1, <1>2, <1>6, <2>4, <2>11
           DEF Clean, CleanObjects, CleanTrue, ObjectTrue
      <3>2. SourceClear(x)'
        <4>1. CASE x \in left
          <5>1. Exists(Below(x)) => IsLink(Below(x), x)
            BY <1>6, <2>11, <4>1 DEF Clean
          <5> QED
            BY <1>2, <2>4, <4>1, <5>1 DEF SourceClear, Exists, IsLink
        <4>2. CASE x \notin left
          BY <1>2, <2>4, <3>1, <4>2
             DEF CleanTrue, ObjectTrue, SourceClear, Exists, IsLink
        <4> QED
          BY <4>1, <4>2
      <3>3. HasLink(x)' /\ TrackerTrue(x)'
        BY <1>2, <3>1
           DEF CleanTrue, ObjectTrue, HasLink, TrackerTrue, IsLink
      <3>4. IndexTrue(x)'
        BY <1>2, <2>6, <3>1, IndexFrame
           DEF CleanTrue, PassTrue, Searching, SameRecord, IsLink
      <3>5. StepTrue(x)' /\ RetireTrue(x)' /\ RetargetTrue(x)'
        BY <2>6 DEF StepTrue, RetireTrue, RetargetTrue, Retargeting, Staged
      <3> QED
        BY <3>1, <3>2, <3>3, <3>4, <3>5 DEF CleanTrue, ObjectTrue, PassTrue
    <2> QED
      BY <2>8, <2>9, <2>10, <2>11 DEF IInv, CleanObjects
  <1> QED
    BY <1>3, <1>5, <1>6 DEF EndPass

-----------------------------------------------------------------------------
(* The invariant holds at first and is kept by every step.                 *)

LEMMA InitIInv ==
    ASSUME Init PROVE IInv
  <1>1. PICK inode \in Injection(Objects, Inodes) :
          files = [p \in Paths |->
            IF p[1] = FirstDir /\ p[2] \in Range(FirstName)
            THEN LET o == CHOOSE x \in Objects : FirstName[x] = p[2]
                 IN Link(o, inode[o], o \in OldLinks)
            ELSE Absent]
    BY LinkSyncAssumption DEF Init
  <1>2. /\ inode \in [Objects -> Inodes]
        /\ \A x, y \in Objects : inode[x] = inode[y] => x = y
    BY <1>1 DEF Injection, IsInjective
  <1>3. /\ FirstName \in [Objects -> Names] /\ FirstDir \in Dirs
        /\ \A x, y \in Objects : FirstName[x] = FirstName[y] => x = y
    BY LinkSyncAssumption DEF IsInjective
  <1> DEFINE Source(o) == <<FirstDir, FirstName[o]>>
  <1>4. /\ dirs = {FirstDir}
        /\ meta = [o \in Objects |-> [source |-> Source(o),
                     orphaned |-> "no", recovery |-> "none", path |-> Nil]]
        /\ tracker = [o \in Objects |-> Nil]
        /\ watched = Nil /\ event = FALSE /\ retry = FALSE /\ pass = Off
        /\ user = 0 /\ faults = 0
        /\ deleted = {} /\ raced = {} /\ rebased = {} /\ owned = {}
        /\ overtaken = {}
    BY DEF Init
  <1>5. \A o \in Objects : Source(o) \in Paths
    BY <1>3 DEF Paths
  <1>6. ASSUME NEW p \in Paths
        PROVE  \/ files[p] = Absent /\ \A o \in Objects : p # Source(o)
               \/ \E o \in Objects : /\ p = Source(o)
                                     /\ files[p] = Link(o, inode[o], o \in OldLinks)
    <2>1. CASE p[1] = FirstDir /\ p[2] \in Range(FirstName)
      <3>1. PICK x \in Objects : FirstName[x] = p[2]
        BY <1>3, <2>1 DEF Range
      <3>2. PICK o : o = CHOOSE y \in Objects : FirstName[y] = p[2]
        OBVIOUS
      <3>3. o \in Objects /\ FirstName[o] = p[2]
        BY <3>1, <3>2
      <3>4. p = Source(o)
        BY <2>1, <3>3 DEF Paths
      <3>5. files[p] = Link(o, inode[o], o \in OldLinks)
        BY <1>1, <2>1, <3>2
      <3> QED
        BY <3>3, <3>4, <3>5
    <2>2. CASE ~(p[1] = FirstDir /\ p[2] \in Range(FirstName))
      <3>1. \A o \in Objects : FirstName[o] \in Range(FirstName)
        BY <1>3 DEF Range
      <3> QED
        BY <1>1, <2>2, <3>1
    <2> QED
      BY <2>1, <2>2
  <1>7. ASSUME NEW p \in Paths, NEW o \in Objects
        PROVE  IsLink(p, o) <=> p = Source(o)
    <2>1. CASE files[p] = Absent /\ \A x \in Objects : p # Source(x)
      BY <2>1, EntryMade DEF IsLink
    <2>2. ASSUME NEW x \in Objects, p = Source(x),
                 files[p] = Link(x, inode[x], x \in OldLinks)
          PROVE  IsLink(p, o) <=> p = Source(o)
      <3>2. files[p].kind = "link" /\ files[p].obj = x
        BY <2>2 DEF Link
      <3> QED
        BY <1>3, <2>2, <3>2 DEF IsLink
    <2> QED
      BY <1>6, <2>1, <2>2
  <1>8. ASSUME NEW p \in Paths
        PROVE  /\ files[p] \in Entries
               /\ Exists(p) => \E o \in Objects : p = Source(o) /\ files[p].ino = inode[o]
               /\ ~Exists(p) => files[p].ino = Nil
    <2>1. CASE files[p] = Absent
      BY <2>1, EntryMade DEF Exists
    <2>2. ASSUME NEW x \in Objects, p = Source(x),
                 files[p] = Link(x, inode[x], x \in OldLinks)
          PROVE  files[p] \in Entries /\ files[p].ino = inode[x] /\ Exists(p)
      <3>1. files[p].ino = inode[x] /\ Exists(p)
        BY <2>2 DEF Link, Exists
      <3>2. (x \in OldLinks) \in BOOLEAN
        OBVIOUS
      <3>3. Link(x, inode[x], x \in OldLinks) \in Entries
        BY <1>2, <3>2, EntryMade
      <3> QED
        BY <2>2, <3>1, <3>3
    <2> QED
      BY <1>6, <2>1, <2>2
  <1>9. files \in [Paths -> Entries]
    <2>1. files = [p \in Paths |-> files[p]]
      BY <1>1
    <2> QED
      BY <1>8, <2>1
  <1>10. TypeOK
    <2>1. meta \in [Objects -> Record]
      BY <1>4, <1>5 DEF Record
    <2>2. tracker \in [Objects -> Inodes \cup {Nil}]
      BY <1>4
    <2>3. pass \in PassState
      BY <1>4, OffFields
    <2>4. user \in 0 .. MaxUser /\ faults \in 0 .. MaxFaults
      BY <1>4, LinkSyncAssumption
    <2> QED
      BY <1>3, <1>4, <1>9, <2>1, <2>2, <2>3, <2>4 DEF TypeOK
  <1>11. FilesInv
    <2>1. EntriesInDirs
      BY <1>4, <1>8 DEF EntriesInDirs
    <2>2. OneNameEach
      BY <1>2, <1>8, LinkSyncAssumption DEF OneNameEach
    <2>3. UserFilesKept
      BY <1>4 DEF UserFilesKept
    <2> QED
      BY <2>1, <2>2, <2>3 DEF FilesInv
  <1>12. RecoveryPath /\ PassShape /\ StagingInv
    BY <1>4, OffFields
       DEF RecoveryPath, PassShape, Resting, Staged, StagingInv, StagedAlone, DiscardSpares
  <1>13. ASSUME NEW o \in Objects PROVE CleanTrue(o)
    <2>1. o # Nil /\ meta[o].source = Source(o) /\ meta[o].recovery = "none"
      BY <1>4, NilIsNobody
    <2>2. ObjectTrue(o)
      BY <1>4, <1>5, <1>7, <2>1
         DEF ObjectTrue, HasLink, SourceClear, TrackerTrue
    <2>3. PassTrue(o)
      BY <1>4, <2>1, OffFields
         DEF PassTrue, IndexTrue, StepTrue, RetireTrue, RetargetTrue, Retargeting, Staged,
             Searching
    <2> QED
      BY <2>2, <2>3 DEF CleanTrue
  <1> QED
    BY <1>10, <1>11, <1>12, <1>13 DEF IInv, CleanObjects

LEMMA StutterKeeps ==
    ASSUME IInv, UNCHANGED vars
    PROVE  IInv'
  <1>1. TypeOK' /\ RecoveryPath' /\ PassShape' /\ StagingInv'
    BY DEF IInv, vars, TypeOK, RecoveryPath, PassShape, Target, StagingInv,
       StagedAlone, DiscardSpares, Exists
  <1>2. FilesInv'
    BY FilesFrame DEF IInv, vars
  <1>3. ASSUME NEW o \in Objects, Clean(o)' PROVE CleanTrue(o)'
    <2>1. CleanTrue(o)
      BY <1>3 DEF IInv, CleanObjects, Clean, vars
    <2>2. PassTrue(o)'
      BY <2>1, PassFrame DEF CleanTrue, vars, Target
    <2>3. ObjectTrue(o)'
      BY <2>1, ObjectFrame DEF CleanTrue, ObjectTrue, vars
    <2> QED
      BY <2>2, <2>3 DEF CleanTrue
  <1> QED
    BY <1>1, <1>2, <1>3 DEF IInv, CleanObjects

LEMMA SynchronizerKeeps ==
    ASSUME IInv, Synchronizer
    PROVE  IInv'
  <1>1. CASE Reconcile
    BY <1>1, ReconcileKeeps
  <1>2. CASE Wake
    BY <1>2, WakeKeeps
  <1>3. CASE Inspect
    BY <1>3, InspectKeeps
  <1>4. CASE RetargetExchange \/ RetargetValidate \/ RetargetRollback \/ RetargetDiscard
    BY <1>4, RetargetExchangeKeeps, RetargetValidateKeeps, RetargetRollbackKeeps,
       RetargetDiscardKeeps
  <1>5. CASE EnsureLink
    BY <1>5, EnsureLinkKeeps
  <1>6. CASE TrackState
    BY <1>6, TrackStateKeeps
  <1>7. CASE SearchScan
    BY <1>7, SearchScanKeeps
  <1>8. CASE SearchEnds
    BY <1>8, SearchEndsKeeps
  <1>9. CASE InspectMoved
    BY <1>9, InspectMovedKeeps
  <1>10. CASE RetireStage
    BY <1>10, RetireStageKeeps
  <1>11. CASE RetireValidate
    BY <1>11, RetireValidateKeeps
  <1>12. CASE RecordConflict
    BY <1>12, RecordConflictKeeps
  <1>13. CASE AdoptMoved
    BY <1>13, AdoptMovedKeeps
  <1>14. CASE Retrack
    BY <1>14, RetrackKeeps
  <1>15. CASE EndPass
    BY <1>15, EndPassKeeps
  <1> QED
    BY <1>1, <1>2, <1>3, <1>4, <1>5, <1>6, <1>7, <1>8, <1>9, <1>10, <1>11, <1>12,
       <1>13, <1>14, <1>15 DEF Synchronizer

LEMMA NextIInv ==
    ASSUME IInv, [Next]_vars
    PROVE  IInv'
  <1>1. CASE User
    BY <1>1, UserStepKeeps
  <1>2. CASE Prepare
    BY <1>2, PrepareKeeps
  <1>3. CASE Synchronizer
    BY <1>3, SynchronizerKeeps
  <1>4. ASSUME NEW o \in Objects, RestoreRecoveryLink(o) \/ GracePasses(o)
        PROVE  IInv'
    BY <1>4, RestoreRecoveryLinkKeeps, GracePassesKeeps
  <1>5. CASE Stop
    BY <1>5, StopKeeps
  <1>6. CASE ReconcileUnwatched
    BY <1>6, ReconcileKeeps
  <1>7. CASE WatcherError \/ SafetyTimer
    BY <1>7, WakeKeeps
  <1>8. CASE UNCHANGED vars
    BY <1>8, StutterKeeps
  <1> QED
    BY <1>1, <1>2, <1>3, <1>4, <1>5, <1>6, <1>7, <1>8 DEF Next

LEMMA AlwaysIInv == Spec => []IInv
  <1>1. Init => IInv
    BY InitIInv
  <1>2. IInv /\ [Next]_vars => IInv'
    BY NextIInv
  <1> QED
    BY <1>1, <1>2, PTL DEF Spec

-----------------------------------------------------------------------------
(* What the reader should know of.                                         *)

(* The state of the synchronizer is always what its types say: a record    *)
(* names a path, a reference an inode, a pass only objects and directories *)
(* there are (synchronizeOpaqueLinksOnce, linkTracker).                    *)
THEOREM TypeCorrect == Spec => []TypeOK
  <1>1. IInv => TypeOK
    BY DEF IInv
  <1> QED
    BY <1>1, AlwaysIInv, PTL

(* However the user, the passes, restarts and failures interleave, a file  *)
(* the user created is still there or preserved in a private directory,    *)
(* unless a replacement had begun when it was put at its path and found    *)
(* something else than the link it expected: neither retireProtectedLink   *)
(* nor the validation of exchangePathWithSymlink loses one.                *)
THEOREM UserFilesSafe == Spec => []UserFilesKept
  <1>1. IInv => UserFilesKept
    BY DEF IInv, FilesInv
  <1> QED
    BY <1>1, AlwaysIInv, PTL

(* No object goes to recovery without a cause: a link that is only moved,  *)
(* and not while the pass looks for it or exchanges the entry of its path, *)
(* is found by its kernel reference or by a complete search                *)
(* (synchronizeOpaqueLinksOnce, linkTracker.state, opaqueLinkSearch.find). *)
THEOREM RecoveryJustified == Spec => []RecoveryHasCause
  <1>1. IInv => RecoveryHasCause
    BY DEF IInv, CleanObjects, CleanTrue, ObjectTrue, Clean, RecoveryHasCause
  <1> QED
    BY <1>1, AlwaysIInv, PTL
=============================================================================
