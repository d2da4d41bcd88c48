-------------------------- MODULE VaultFilesProofs --------------------------
(***************************************************************************)
(* Proofs about the files of a vault (VaultFiles): a restore publishes a   *)
(* whole vault and replaces none, a verified backup is a consistent vault, *)
(* and the settings name the place of the home directory, for every number *)
(* of processes, objects, crashes, failing writes and decayed files.       *)
(***************************************************************************)
EXTENDS VaultFiles, TLAPS

-----------------------------------------------------------------------------
(* The types of the state.                                                 *)

Files == Internal \cup Objects \cup {"lock"}
Secrets == Passphrases \cup {Nil}

Tree == [present : SUBSET Files, bad : SUBSET Files, index : SUBSET Objects,
         pass : Secrets, version : [Objects -> Nat]]

Steps == {"idle", "config", "identity", "index", "settings", "unlocked", "rename",
          "save", "list", "copy", "publish", "sums", "vault"}

(* A manifest is a function on some of the files.                          *)
IsManifest(m) ==
    /\ DOMAIN m \subseteq Files
    /\ m = [f \in DOMAIN m |-> m[f]]

(* A record of a command's progress.                                       *)
IsProgress(r) ==
    /\ r = [op |-> r.op, step |-> r.step, todo |-> r.todo, tree |-> r.tree,
            manifest |-> r.manifest, pass |-> r.pass]
    /\ r.op \in Operations /\ r.step \in Steps /\ r.todo \in SUBSET Files
    /\ r.tree \in Tree /\ r.pass \in Secrets
    /\ IsManifest(r.manifest)

(* A copy of a vault that may be published.                                *)
IsCopy(c) ==
    /\ c = [shown |-> c.shown, tree |-> c.tree, manifest |-> c.manifest]
    /\ c.shown \in BOOLEAN /\ c.tree \in Tree
    /\ IsManifest(c.manifest)

VaultType ==
    /\ vault \in Tree /\ vault.bad \subseteq Objects
    /\ writer \in {<<>>} \cup ({"put", "remove"} \X Objects)
    /\ "identity" \in vault.present => vault.pass # Nil

PlaceType ==
    /\ home \in {"legacy", "current"} /\ named \in {"legacy", "current"}
    /\ torn \in BOOLEAN /\ unsynced \in BOOLEAN /\ settings \in BOOLEAN

-----------------------------------------------------------------------------
(* The parts of the inductive invariant.                                   *)

(* The digests a manifest holds are those of the files of a tree.          *)
Describes(m, t) ==
    /\ t.present = DOMAIN m
    /\ \A f \in DOMAIN m : Digest(t, f) = m[f]
    /\ "identity" \in t.present => t.pass # Nil

(* A published backup still holds the contents its manifest names; it may  *)
(* have decayed, and verifying it adds the lock file.                      *)
Made(b) ==
    /\ DOMAIN b.manifest \subseteq b.tree.present
    /\ b.tree.present \subseteq DOMAIN b.manifest \cup {"lock"}
    /\ \A f \in DOMAIN b.manifest :
        /\ b.manifest[f].value = Digest(b.tree, f).value
        /\ b.manifest[f].bad => f \in b.tree.bad
    /\ "identity" \in b.tree.present => b.tree.pass # Nil

(* A manifest that names a whole vault, as the one a restore verified.     *)
Intact(m) ==
    /\ Internal \subseteq DOMAIN m
    /\ \A f \in DOMAIN m \cap (Internal \cup Objects) : ~m[f].bad
    /\ m["index"].value = DOMAIN m \cap Objects
    /\ m["identity"].value # Nil

(* What a restore has copied has the digests of the manifest.              *)
Copied(r) ==
    /\ Intact(r.manifest)
    /\ r.todo \subseteq DOMAIN r.manifest
    /\ r.tree.present = DOMAIN r.manifest \ r.todo
    /\ \A f \in r.tree.present : Digest(r.tree, f) = r.manifest[f]

(* How far each command has come.                                          *)
ProgressOK(r) ==
    /\ IsProgress(r)
    /\ r.op = "create" /\ r.step \in {"list", "copy", "publish"} =>
            Describes(r.manifest, r.tree)
    /\ r.step \in {"sums", "vault"} => r.tree = Empty
    /\ r.op = "restore" /\ r.step \in {"copy", "publish"} => Copied(r)
    /\ r.op = "restore" /\ r.step = "publish" => r.todo = {}
    /\ r.op = "init" /\ r.step # "idle" => r.pass # Nil
    /\ r.op = "passwd" /\ r.step # "idle" => r.pass # Nil

Commands == \A p \in Processes : ProgressOK(proc[p])

ProcessesType == proc = [p \in Processes |-> proc[p]]

(* The backup is in place before anyone looks at it.                       *)
BackupOK ==
    /\ IsCopy(backup)
    /\ backup.shown => Made(backup)
    /\ accepted => backup.shown
    /\ \A p \in Processes : proc[p].step = "vault" => backup.shown
    /\ VerifiedIsConsistent

RestoredOK == IsCopy(restored) /\ RestoredWhole

(* Only one process moves the home directory.                              *)
Moving(p) == proc[p].op = "migrate" /\ proc[p].step # "idle"

MigrateOK ==
    /\ PlaceType
    /\ \A p, q \in Processes : Moving(p) /\ Moving(q) => p = q
    /\ \A p \in Processes :
        /\ Moving(p) => proc[p].step \in {"rename", "save"}
        /\ At(p, "migrate", "rename") => home = "legacy"
        /\ At(p, "migrate", "save") => home = "current"
    /\ SettingsFollowHome

IInv == VaultType /\ ProcessesType /\ Commands /\ BackupOK /\ RestoredOK /\ MigrateOK

-----------------------------------------------------------------------------
(* Files of the vault's own have other names than objects.                 *)
LEMMA Names ==
    /\ "config" \notin Objects /\ "identity" \notin Objects
    /\ "index" \notin Objects /\ "lock" \notin Objects
    /\ Nil \notin Passphrases
  BY VaultFilesAssumption

(* The empty directory is a tree, and a command starts with it.            *)
LEMMA EmptyTree ==
    /\ Empty \in Tree /\ Empty.present = {} /\ Empty.bad = {} /\ Empty.pass = Nil
    /\ IsManifest(<<>>) /\ DOMAIN <<>> = {}
  <1>1. [o \in Objects |-> 0] \in [Objects -> Nat]
    OBVIOUS
  <1>2. /\ Empty \in Tree /\ Empty.present = {} /\ Empty.bad = {} /\ Empty.pass = Nil
    BY <1>1 DEF Empty, Tree, Secrets
  <1>3. /\ <<>> = [f \in DOMAIN <<>> |-> <<>>[f]] /\ DOMAIN <<>> = {}
    OBVIOUS
  <1> QED
    BY <1>2, <1>3 DEF IsManifest

(* A command that has ended, or just begun, is in order.                   *)
LEMMA IdleOK ==
    /\ ProgressOK(Idle) /\ IsProgress(Idle)
    /\ Idle.op = "init" /\ Idle.step = "idle" /\ Idle.tree = Empty
    /\ Idle.manifest = <<>> /\ Idle.todo = {} /\ Idle.pass = Nil
  <1>1. /\ Idle.op = "init" /\ Idle.step = "idle" /\ Idle.tree = Empty
        /\ Idle.manifest = <<>> /\ Idle.todo = {} /\ Idle.pass = Nil
        /\ Idle = [op |-> Idle.op, step |-> Idle.step, todo |-> Idle.todo,
                   tree |-> Idle.tree, manifest |-> Idle.manifest, pass |-> Idle.pass]
    BY DEF Idle
  <1>2. IsProgress(Idle)
    BY <1>1, EmptyTree DEF IsProgress, Operations, Steps, Secrets
  <1> QED
    BY <1>1, <1>2 DEF ProgressOK

(* What begins describes the empty tree by the empty manifest.             *)
LEMMA EmptyDescribed == Describes(<<>>, Empty)
  BY EmptyTree DEF Describes

(* A copied file has the digest of its source and no other file changes.   *)
LEMMA CopyDigest ==
    ASSUME NEW from \in Tree, NEW to \in Tree, NEW f \in Files
    PROVE  /\ CopyFile(f, from, to) \in Tree
           /\ Digest(CopyFile(f, from, to), f) = Digest(from, f)
           /\ \A g \in Files : g # f =>
                Digest(CopyFile(f, from, to), g) = Digest(to, g)
           /\ f = "identity" => CopyFile(f, from, to).pass = from.pass
           /\ f # "identity" => CopyFile(f, from, to).pass = to.pass
  <1>1. PICK t : t = CopyFile(f, from, to)
    OBVIOUS
  <1>2. /\ t.present = to.present \cup {f}
        /\ t.bad = (IF f \in from.bad THEN to.bad \cup {f} ELSE to.bad \ {f})
        /\ t.index = (IF f = "index" THEN from.index ELSE to.index)
        /\ t.pass = (IF f = "identity" THEN from.pass ELSE to.pass)
        /\ t.version = (IF f \in Objects
                        THEN [to.version EXCEPT ![f] = from.version[f]] ELSE to.version)
        /\ t = [present |-> t.present, bad |-> t.bad, index |-> t.index,
                pass |-> t.pass, version |-> t.version]
    BY <1>1 DEF CopyFile
  <1>3. /\ from.version \in [Objects -> Nat] /\ to.version \in [Objects -> Nat]
        /\ to.present \subseteq Files /\ to.bad \subseteq Files
        /\ to.index \in SUBSET Objects /\ from.index \in SUBSET Objects
        /\ to.pass \in Secrets /\ from.pass \in Secrets
    BY DEF Tree
  <1>4. t.version \in [Objects -> Nat]
    BY <1>2, <1>3
  <1>5. t \in Tree
    <2>1. t.present \in SUBSET Files /\ t.bad \in SUBSET Files
      BY <1>2, <1>3
    <2>2. t.index \in SUBSET Objects /\ t.pass \in Secrets
      BY <1>2, <1>3
    <2> QED
      BY <1>2, <1>4, <2>1, <2>2 DEF Tree
  <1>6. Digest(t, f) = Digest(from, f)
    BY <1>2, <1>3, Names DEF Digest
  <1>7. \A g \in Files : g # f => Digest(t, g) = Digest(to, g)
    BY <1>2, <1>3, Names DEF Digest
  <1> QED
    BY <1>1, <1>2, <1>5, <1>6, <1>7

-----------------------------------------------------------------------------
(* Frames: what a step of one command leaves as it was.                    *)

(* One process is updated and its progress stays in order.                 *)
LEMMA ProgressFrame ==
    ASSUME ProcessesType, Commands, NEW p \in Processes, NEW r,
           proc' = [proc EXCEPT ![p] = r], ProgressOK(r)
    PROVE  /\ ProcessesType' /\ Commands'
           /\ \A q \in Processes : proc'[q] = IF q = p THEN r ELSE proc[q]
  <1>1. \A q \in Processes : proc'[q] = IF q = p THEN r ELSE proc[q]
    BY DEF ProcessesType
  <1>2. proc' = [q \in Processes |-> proc'[q]]
    BY <1>1 DEF ProcessesType
  <1> QED
    BY <1>1, <1>2 DEF ProcessesType, Commands

(* The backup and what is said of it do not change, and the process does   *)
(* not begin to read the vault in it.                                      *)
LEMMA BackupFrame ==
    ASSUME BackupOK, NEW p \in Processes, NEW r,
           \A q \in Processes : proc'[q] = IF q = p THEN r ELSE proc[q],
           r.step # "vault",
           UNCHANGED <<backup, accepted, decayed>>
    PROVE  BackupOK'
  BY DEF BackupOK, VerifiedIsConsistent

(* Nothing moves.                                                          *)
LEMMA MigrateFrame ==
    ASSUME MigrateOK, NEW p \in Processes, NEW r,
           \A q \in Processes : proc'[q] = IF q = p THEN r ELSE proc[q],
           ~Moving(p), ~(r.op = "migrate" /\ r.step # "idle"),
           UNCHANGED Place
    PROVE  MigrateOK'
  <1>1. \A q \in Processes : q = p \/ proc'[q] = proc[q]
    OBVIOUS
  <1>2. ~Moving(p)' /\ \A q \in Processes : Moving(q)' => Moving(q) /\ proc'[q] = proc[q]
    BY DEF Moving
  <1>3. \A q \in Processes : At(q, "migrate", "save") => At(q, "migrate", "save")'
    BY DEF At, Moving
  <1>4. \A q \in Processes : At(q, "migrate", "save")' \/ At(q, "migrate", "rename")'
            => Moving(q)'
    BY DEF At, Moving
  <1>5. PlaceType'
    BY DEF MigrateOK, PlaceType, Place
  <1>6. UNCHANGED <<home, named, torn, unsynced>>
    BY DEF Place
  <1>7. SettingsFollowHome'
    BY <1>3, <1>6 DEF MigrateOK, SettingsFollowHome
  <1>8. \A q \in Processes :
          /\ Moving(q)' => proc'[q].step \in {"rename", "save"}
          /\ At(q, "migrate", "rename")' => home' = "legacy"
          /\ At(q, "migrate", "save")' => home' = "current"
    BY <1>2, <1>4, <1>6 DEF MigrateOK, At
  <1> QED
    BY <1>2, <1>5, <1>6, <1>7, <1>8 DEF MigrateOK

(* Nothing of the commands changes.                                        *)
LEMMA StillFrame ==
    ASSUME IInv, UNCHANGED proc
    PROVE  /\ ProcessesType' /\ Commands'
           /\ UNCHANGED Place => MigrateOK'
           /\ UNCHANGED Copies => BackupOK' /\ RestoredOK'
  <1>1. ProcessesType' /\ Commands'
    BY DEF IInv, ProcessesType, Commands
  <1>2. ASSUME UNCHANGED Place
        PROVE  MigrateOK'
    BY <1>2 DEF IInv, MigrateOK, PlaceType, Place, Moving, At, SettingsFollowHome
  <1>3. ASSUME UNCHANGED Copies
        PROVE  BackupOK' /\ RestoredOK'
    BY <1>3 DEF IInv, BackupOK, RestoredOK, VerifiedIsConsistent, RestoredWhole, Copies
  <1> QED
    BY <1>1, <1>2, <1>3

(* A command ends; a migration at its second step ends otherwise.          *)
LEMMA EndKeeps ==
    ASSUME IInv, NEW p \in Processes, Ends(p)
    PROVE  /\ ProcessesType' /\ Commands'
           /\ \A q \in Processes : proc'[q] = IF q = p THEN Idle ELSE proc[q]
           /\ UNCHANGED <<backup, accepted, decayed>> => BackupOK'
           /\ UNCHANGED Place /\ ~At(p, "migrate", "save") => MigrateOK'
  <1>1. /\ ProcessesType' /\ Commands'
        /\ \A q \in Processes : proc'[q] = IF q = p THEN Idle ELSE proc[q]
    BY ProgressFrame, IdleOK DEF IInv, Ends, Goes
  <1>2. ASSUME UNCHANGED <<backup, accepted, decayed>>
        PROVE  BackupOK'
    BY <1>1, <1>2, BackupFrame, IdleOK DEF IInv
  <1>3. ASSUME UNCHANGED Place, ~At(p, "migrate", "save")
        PROVE  MigrateOK'
    <2>1. CASE ~Moving(p)
      BY <1>1, <1>3, <2>1, MigrateFrame, IdleOK DEF IInv
    <2>2. CASE Moving(p)
      <3>1. home = "legacy" /\ UNCHANGED <<home, named, torn, unsynced, settings>>
        BY <1>3, <2>2 DEF IInv, MigrateOK, Moving, At, Place
      <3>2. \A q \in Processes : ~Moving(q)'
        BY <1>1, <2>2, IdleOK DEF IInv, MigrateOK, Moving
      <3>3. PlaceType'
        BY <3>1 DEF IInv, MigrateOK, PlaceType
      <3>4. \A q \in Processes : ~At(q, "migrate", "rename")' /\ ~At(q, "migrate", "save")'
        BY <3>2 DEF At, Moving
      <3>5. SettingsFollowHome'
        BY <3>1 DEF IInv, MigrateOK, SettingsFollowHome
      <3> QED
        BY <3>1, <3>2, <3>3, <3>4, <3>5 DEF MigrateOK
    <2> QED
      BY <2>1, <2>2
  <1> QED
    BY <1>1, <1>2, <1>3

-----------------------------------------------------------------------------
(* The service and the media.                                              *)

(* A write of the service changes the vault and nothing else.              *)
LEMMA ServiceBeginsKeeps ==
    ASSUME IInv, NEW kind \in {"put", "remove"}, NEW o \in Objects,
           ServiceBegins(kind, o)
    PROVE  IInv'
  <1>1. UNCHANGED <<Place, Copies, proc>> /\ writer' = <<kind, o>>
    BY DEF ServiceBegins
  <1>2. vault \in Tree /\ vault.version \in [Objects -> Nat]
    BY DEF IInv, VaultType, Tree
  <1>3. o \in Files
    BY DEF Files
  <1>4. CASE kind = "put"
    <2>1. vault' = [vault EXCEPT !.present = @ \cup {o}, !.bad = @ \ {o},
                                 !.version[o] = @ + 1]
      BY <1>4 DEF ServiceBegins
    <2>2. [vault.version EXCEPT ![o] = @ + 1] \in [Objects -> Nat]
      BY <1>2
    <2>3. vault' \in Tree /\ vault'.bad \subseteq vault.bad
      BY <1>2, <1>3, <2>1, <2>2 DEF Tree
    <2>4. vault'.present = vault.present \cup {o} /\ vault'.pass = vault.pass
      BY <1>2, <2>1 DEF Tree
    <2> QED
      BY <1>1, <2>3, <2>4, StillFrame, Names DEF IInv, VaultType
  <1>5. CASE kind = "remove"
    <2>1. vault' = [vault EXCEPT !.present = @ \ {o}]
      BY <1>5 DEF ServiceBegins
    <2>2. vault' \in Tree /\ vault'.bad = vault.bad
      BY <1>2, <2>1 DEF Tree
    <2>3. vault'.present = vault.present \ {o} /\ vault'.pass = vault.pass
      BY <1>2, <2>1 DEF Tree
    <2> QED
      BY <1>1, <2>2, <2>3, StillFrame DEF IInv, VaultType
  <1> QED
    BY <1>4, <1>5

(* The index lists objects only.                                           *)
LEMMA ServiceEndsKeeps ==
    ASSUME IInv, ServiceEnds
    PROVE  IInv'
  <1>1. UNCHANGED <<Place, Copies, proc>> /\ writer' = <<>> /\ writer # <<>>
    BY DEF ServiceEnds
  <1>2. writer[2] \in Objects /\ vault \in Tree
    BY <1>1 DEF IInv, VaultType
  <1>3. PICK index : index = IF writer[1] = "put" THEN vault.index \cup {writer[2]}
                             ELSE vault.index \ {writer[2]}
    OBVIOUS
  <1>4. index \in SUBSET Objects
    BY <1>2, <1>3 DEF Tree
  <1>5. vault' = [vault EXCEPT !.present = @ \cup {"lock"}, !.index = index]
    BY <1>3 DEF ServiceEnds
  <1>6. /\ vault' \in Tree /\ vault'.bad = vault.bad /\ vault'.pass = vault.pass
        /\ vault'.present = vault.present \cup {"lock"}
    BY <1>2, <1>4, <1>5 DEF Tree, Files
  <1>7. VaultType'
    BY <1>1, <1>6 DEF IInv, VaultType
  <1> QED
    BY <1>1, <1>7, StillFrame DEF IInv

(* Decay of the backup is remembered; in the vault it hits an object.      *)
LEMMA DecayKeeps ==
    ASSUME IInv, Decay
    PROVE  IInv'
  <1>1. UNCHANGED <<Place, writer, restored, proc, accepted>>
    BY DEF Decay
  <1>2. RestoredOK'
    BY <1>1 DEF IInv, RestoredOK, RestoredWhole
  <1>3. ASSUME NEW f \in backup.tree.present,
               backup' = [backup EXCEPT !.tree.bad = @ \cup {f}],
               decayed' = TRUE, UNCHANGED vault
        PROVE  IInv'
    <2>1. IsCopy(backup) /\ backup.tree \in Tree
      BY DEF IInv, BackupOK, IsCopy
    <2>2. PICK t : t = [backup.tree EXCEPT !.bad = @ \cup {f}]
      OBVIOUS
    <2>3. /\ backup' = [shown |-> backup.shown, tree |-> t, manifest |-> backup.manifest]
          /\ backup'.tree = t /\ backup'.shown = backup.shown
          /\ backup'.manifest = backup.manifest
      BY <1>3, <2>1, <2>2 DEF IsCopy
    <2>4. /\ t \in Tree /\ t.present = backup.tree.present /\ t.pass = backup.tree.pass
          /\ t.bad = backup.tree.bad \cup {f} /\ t.index = backup.tree.index
          /\ t.version = backup.tree.version
      BY <2>1, <2>2 DEF Tree
    <2>5. \A g : Digest(t, g).value = Digest(backup.tree, g).value
      BY <2>4 DEF Digest
    <2>6. IsCopy(backup')
      BY <2>1, <2>3, <2>4 DEF IsCopy
    <2>7. backup.shown => Made(backup')
      <3> SUFFICES ASSUME Made(backup)
                   PROVE  Made(backup')
        BY DEF IInv, BackupOK
      <3> QED
        BY <2>3, <2>4, <2>5 DEF Made
    <2>8. BackupOK'
      BY <1>1, <1>3, <2>3, <2>6, <2>7 DEF IInv, BackupOK, VerifiedIsConsistent
    <2> QED
      BY <1>1, <1>2, <1>3, <2>8, StillFrame DEF IInv, VaultType
  <1>4. ASSUME NEW o \in vault.present \cap Objects,
               vault' = [vault EXCEPT !.bad = @ \cup {o}],
               UNCHANGED <<backup, decayed>>
        PROVE  IInv'
    <2>1. /\ vault' \in Tree /\ vault'.bad = vault.bad \cup {o}
          /\ vault'.present = vault.present /\ vault'.pass = vault.pass
      BY <1>4 DEF IInv, VaultType, Tree
    <2>2. VaultType'
      BY <1>1, <2>1 DEF IInv, VaultType
    <2> QED
      BY <1>1, <1>4, <2>2, StillFrame DEF IInv, Copies
  <1> QED
    BY <1>3, <1>4 DEF Decay

(* What is restored is used: it gets another passphrase and a lock file.   *)
LEMMA UseRestoredKeeps ==
    ASSUME IInv, UseRestored
    PROVE  IInv'
  <1>1. PICK pass \in Passphrases :
          restored' = [restored EXCEPT !.tree.pass = pass,
                                       !.tree.present = @ \cup {"lock"}]
    BY DEF UseRestored
  <1>2. restored.shown /\ UNCHANGED <<vault, Place, writer, backup, proc, accepted, decayed>>
    BY DEF UseRestored
  <1>3. IsCopy(restored) /\ Whole(restored.tree) /\ restored.tree \in Tree
    BY <1>2 DEF IInv, RestoredOK, RestoredWhole, IsCopy
  <1>4. PICK t : t = [restored.tree EXCEPT !.pass = pass, !.present = @ \cup {"lock"}]
    OBVIOUS
  <1>5. /\ restored' = [shown |-> restored.shown, tree |-> t,
                        manifest |-> restored.manifest]
        /\ restored'.tree = t /\ restored'.shown = restored.shown
        /\ restored'.manifest = restored.manifest
    BY <1>1, <1>3, <1>4 DEF IsCopy
  <1>6. /\ t \in Tree /\ t.present = restored.tree.present \cup {"lock"}
        /\ t.bad = restored.tree.bad /\ t.index = restored.tree.index /\ t.pass = pass
    BY <1>3, <1>4 DEF Tree, Files, Secrets
  <1>7. IsCopy(restored')
    BY <1>3, <1>5, <1>6 DEF IsCopy
  <1>8. Whole(t)
    BY <1>3, <1>6, Names DEF Whole, VaultIndex, Decrypts
  <1>9. RestoredOK'
    BY <1>5, <1>7, <1>8 DEF RestoredOK, RestoredWhole
  <1>10. VaultType'
    BY <1>2 DEF IInv, VaultType
  <1>11. BackupOK'
    BY <1>2 DEF IInv, BackupOK, VerifiedIsConsistent
  <1> QED
    BY <1>2, <1>9, <1>10, <1>11, StillFrame DEF IInv

-----------------------------------------------------------------------------
(* A process dies, and commands begin.                                     *)

(* A death between the two steps of a migration tears it; no other death   *)
(* moves anything.                                                         *)
LEMMA CrashKeeps ==
    ASSUME IInv, NEW p \in Processes, Crash(p)
    PROVE  IInv'
  <1>1. /\ Ends(p) /\ torn' = (torn \/ At(p, "migrate", "save"))
        /\ UNCHANGED <<vault, settings, home, named, unsynced, writer, Copies>>
    BY DEF Crash
  <1>2. VaultType' /\ RestoredOK'
    BY <1>1 DEF IInv, VaultType, RestoredOK, RestoredWhole, Copies
  <1>3. /\ ProcessesType' /\ Commands' /\ BackupOK'
        /\ \A q \in Processes : proc'[q] = IF q = p THEN Idle ELSE proc[q]
    BY <1>1, EndKeeps DEF Copies
  <1>4. CASE ~At(p, "migrate", "save")
    <2>1. UNCHANGED Place
      BY <1>1, <1>4 DEF Place, IInv, MigrateOK, PlaceType
    <2> QED
      BY <1>1, <1>2, <1>3, <1>4, <2>1, EndKeeps DEF IInv
  <1>5. CASE At(p, "migrate", "save")
    <2>1. torn' = TRUE /\ home' = home /\ named' = named /\ settings' = settings
          /\ unsynced' = unsynced /\ home = "current"
      BY <1>1, <1>5 DEF IInv, MigrateOK
    <2>2. \A q \in Processes : ~Moving(q)'
      BY <1>3, <1>5, IdleOK DEF IInv, MigrateOK, Moving, At
    <2>3. \A q \in Processes : ~At(q, "migrate", "rename")' /\ ~At(q, "migrate", "save")'
      BY <2>2 DEF At, Moving
    <2>4. PlaceType'
      BY <2>1 DEF IInv, MigrateOK, PlaceType
    <2>5. MigrateOK'
      BY <2>1, <2>2, <2>3, <2>4 DEF IInv, MigrateOK, SettingsFollowHome
    <2> QED
      BY <1>2, <1>3, <2>5 DEF IInv
  <1> QED
    BY <1>4, <1>5

(* The record a command begins with.                                       *)
LEMMA Begins ==
    ASSUME NEW op \in Operations, NEW step \in Steps, NEW pass \in Secrets,
           step \notin {"vault", "copy", "publish"},
           op \in {"init", "passwd"} => pass # Nil,
           NEW r,
           r = [op |-> op, step |-> step, todo |-> {}, tree |-> Empty,
                manifest |-> <<>>, pass |-> pass]
    PROVE  /\ ProgressOK(r) /\ r.op = op /\ r.step = step
  <1>1. /\ r.op = op /\ r.step = step /\ r.tree = Empty /\ r.manifest = <<>>
        /\ r.todo = {} /\ r.pass = pass
    OBVIOUS
  <1>2. IsProgress(r)
    BY <1>1, EmptyTree DEF IsProgress
  <1>3. Describes(r.manifest, r.tree)
    BY <1>1, EmptyDescribed
  <1> QED
    BY <1>1, <1>2, <1>3 DEF ProgressOK

(* A command begins; only one of them moves the home directory.            *)
LEMMA BeginKeeps ==
    ASSUME IInv, NEW p \in Processes, NEW op \in Operations, Begin(p, op)
    PROVE  IInv'
  <1>1. /\ proc[p].step = "idle" /\ UNCHANGED <<vault, Place, writer, Copies>>
    BY DEF Begin
  <1>2. VaultType' /\ RestoredOK'
    BY <1>1 DEF IInv, VaultType, RestoredOK, RestoredWhole, Copies
  <1>3. ~Moving(p)
    BY <1>1 DEF Moving
  <1>4. ASSUME NEW r, Goes(p, r), ProgressOK(r), r.op = op, r.step # "vault",
               op # "migrate"
        PROVE  IInv'
    <2>1. /\ ProcessesType' /\ Commands'
          /\ \A q \in Processes : proc'[q] = IF q = p THEN r ELSE proc[q]
      BY <1>4, ProgressFrame DEF IInv, Goes
    <2>2. BackupOK' /\ MigrateOK'
      BY <1>1, <1>3, <1>4, <2>1, BackupFrame, MigrateFrame DEF IInv, Copies
    <2> QED
      BY <1>2, <2>1, <2>2 DEF IInv
  <1>5. CASE op = "init"
    <2>1. PICK pass \in Passphrases :
            Goes(p, [[Idle EXCEPT !.op = op] EXCEPT !.step = "config", !.pass = pass])
      BY <1>5 DEF Begin
    <2>2. PICK r : r = [[Idle EXCEPT !.op = op] EXCEPT !.step = "config", !.pass = pass]
      OBVIOUS
    <2>3. ProgressOK(r) /\ r.op = op /\ r.step = "config"
      <3>1. r = [op |-> op, step |-> "config", todo |-> {}, tree |-> Empty,
                 manifest |-> <<>>, pass |-> pass]
        BY <2>2 DEF Idle
      <3>2. "config" \in Steps /\ pass \in Secrets
        BY DEF Steps, Secrets
      <3> QED
        BY <1>5, <3>1, <3>2, Begins, Names
    <2> QED
      BY <1>4, <1>5, <2>1, <2>2, <2>3
  <1>6. CASE op = "passwd"
    <2>1. PICK pass \in Passphrases :
            Goes(p, [[Idle EXCEPT !.op = op] EXCEPT !.step = "unlocked", !.pass = pass])
      BY <1>6 DEF Begin
    <2>2. PICK r : r = [[Idle EXCEPT !.op = op] EXCEPT !.step = "unlocked", !.pass = pass]
      OBVIOUS
    <2>3. ProgressOK(r) /\ r.op = op /\ r.step = "unlocked"
      <3>1. r = [op |-> op, step |-> "unlocked", todo |-> {}, tree |-> Empty,
                 manifest |-> <<>>, pass |-> pass]
        BY <2>2 DEF Idle
      <3>2. "unlocked" \in Steps /\ pass \in Secrets
        BY DEF Steps, Secrets
      <3> QED
        BY <1>6, <3>1, <3>2, Begins, Names
    <2> QED
      BY <1>4, <1>6, <2>1, <2>2, <2>3
  <1>7. CASE op = "create"
    <2>1. /\ Goes(p, [[Idle EXCEPT !.op = op] EXCEPT !.step = "list"])
          /\ Passphrases # {}
      BY <1>7 DEF Begin
    <2>2. PICK r : r = [[Idle EXCEPT !.op = op] EXCEPT !.step = "list"]
      OBVIOUS
    <2>3. ProgressOK(r) /\ r.op = op /\ r.step = "list"
      <3>1. r = [op |-> op, step |-> "list", todo |-> {}, tree |-> Empty,
                 manifest |-> <<>>, pass |-> Nil]
        BY <2>2 DEF Idle
      <3>2. "list" \in Steps /\ Nil \in Secrets
        BY DEF Steps, Secrets
      <3> QED
        BY <1>7, <3>1, <3>2, Begins, Names
    <2> QED
      BY <1>4, <1>7, <2>1, <2>2, <2>3
  <1>8. CASE op \in {"verify", "restore"}
    <2>1. /\ Goes(p, [[Idle EXCEPT !.op = op] EXCEPT !.step = "sums"])
          /\ Passphrases # {}
      BY <1>8 DEF Begin
    <2>2. PICK r : r = [[Idle EXCEPT !.op = op] EXCEPT !.step = "sums"]
      OBVIOUS
    <2>3. ProgressOK(r) /\ r.op = op /\ r.step = "sums"
      <3>1. r = [op |-> op, step |-> "sums", todo |-> {}, tree |-> Empty,
                 manifest |-> <<>>, pass |-> Nil]
        BY <2>2 DEF Idle
      <3>2. "sums" \in Steps /\ Nil \in Secrets
        BY DEF Steps, Secrets
      <3> QED
        BY <1>8, <3>1, <3>2, Begins, Names
    <2> QED
      BY <1>4, <1>8, <2>1, <2>2, <2>3
  <1>9. CASE op = "migrate"
    <2>1. /\ Goes(p, [[Idle EXCEPT !.op = op] EXCEPT !.step = "rename"])
          /\ Passphrases # {} /\ home = "legacy"
          /\ \A q \in Processes : proc[q].op = "migrate" => proc[q].step = "idle"
      BY <1>9 DEF Begin
    <2>2. PICK r : r = [[Idle EXCEPT !.op = op] EXCEPT !.step = "rename"]
      OBVIOUS
    <2>3. ProgressOK(r) /\ r.op = "migrate" /\ r.step = "rename"
      <3>1. r = [op |-> op, step |-> "rename", todo |-> {}, tree |-> Empty,
                 manifest |-> <<>>, pass |-> Nil]
        BY <2>2 DEF Idle
      <3>2. "rename" \in Steps /\ Nil \in Secrets
        BY DEF Steps, Secrets
      <3> QED
        BY <1>9, <3>1, <3>2, Begins, Names
    <2>4. /\ ProcessesType' /\ Commands'
          /\ \A q \in Processes : proc'[q] = IF q = p THEN r ELSE proc[q]
      <3>1. Goes(p, r)
        BY <2>1, <2>2
      <3> QED
        BY <2>3, <3>1, ProgressFrame DEF IInv, Goes
    <2>5. BackupOK'
      BY <1>1, <2>3, <2>4, BackupFrame DEF IInv, Copies
    <2>6. \A q \in Processes : Moving(q)' => q = p
      BY <2>1, <2>4 DEF Moving
    <2>7. UNCHANGED <<home, named, torn, unsynced, settings>> /\ home = "legacy"
      BY <1>1, <2>1 DEF Place, IInv, MigrateOK
    <2>8. PlaceType'
      BY <2>7 DEF IInv, MigrateOK, PlaceType
    <2>9. \A q \in Processes :
            /\ Moving(q)' => proc'[q].step \in {"rename", "save"}
            /\ At(q, "migrate", "rename")' => home' = "legacy"
            /\ At(q, "migrate", "save")' => home' = "current"
      BY <2>3, <2>4, <2>6, <2>7 DEF Moving, At
    <2>10. SettingsFollowHome'
      BY <2>7 DEF IInv, MigrateOK, SettingsFollowHome
    <2>11. MigrateOK'
      BY <2>6, <2>7, <2>8, <2>9, <2>10 DEF MigrateOK
    <2> QED
      BY <1>2, <2>4, <2>5, <2>11 DEF IInv
  <1> QED
    BY <1>5, <1>6, <1>7, <1>8, <1>9 DEF Operations

-----------------------------------------------------------------------------
(* A command goes one step further with what it has.                       *)
LEMMA StepOK ==
    ASSUME NEW r, IsProgress(r), NEW step \in Steps, NEW q,
           q = [r EXCEPT !.step = step]
    PROVE  /\ IsProgress(q) /\ q.op = r.op /\ q.step = step /\ q.todo = r.todo
           /\ q.tree = r.tree /\ q.manifest = r.manifest /\ q.pass = r.pass
  <1>1. /\ q.op = r.op /\ q.step = step /\ q.todo = r.todo
        /\ q.tree = r.tree /\ q.manifest = r.manifest /\ q.pass = r.pass
        /\ q = [op |-> q.op, step |-> q.step, todo |-> q.todo,
                tree |-> q.tree, manifest |-> q.manifest, pass |-> q.pass]
    BY DEF IsProgress
  <1> QED
    BY <1>1 DEF IsProgress

(* One step of the creation: the file is written, or all is removed.       *)
LEMMA InitWriteKeeps ==
    ASSUME IInv, NEW p \in Processes,
           NEW f \in {"config", "identity", "index"},
           NEW next \in {"identity", "index", "settings"}, NEW tree,
           InitWrite(p, f, next, tree),
           tree \in Tree, tree.bad \subseteq Objects,
           "identity" \in tree.present => tree.pass # Nil
    PROVE  IInv'
  <1>1. At(p, "init", f) /\ UNCHANGED <<Place, writer, Copies>>
    BY DEF InitWrite
  <1>2. ~Moving(p) /\ ProgressOK(proc[p]) /\ ~At(p, "migrate", "save")
    BY <1>1 DEF At, Moving, IInv, Commands
  <1>3. RestoredOK'
    BY <1>1 DEF IInv, RestoredOK, RestoredWhole, Copies
  <1>4. CASE vault' = tree /\ Step(p, next)
    <2>1. PICK q : q = [proc[p] EXCEPT !.step = next]
      OBVIOUS
    <2>2. /\ IsProgress(q) /\ q.op = "init" /\ q.step = next /\ q.pass = proc[p].pass
      BY <1>1, <1>2, <2>1, StepOK DEF At, ProgressOK, Steps
    <2>3. ProgressOK(q)
      BY <1>1, <1>2, <2>2 DEF At, ProgressOK
    <2>4. /\ ProcessesType' /\ Commands'
          /\ \A x \in Processes : proc'[x] = IF x = p THEN q ELSE proc[x]
      BY <1>4, <2>1, <2>3, ProgressFrame DEF IInv, Step, Goes
    <2>5. BackupOK' /\ MigrateOK'
      BY <1>1, <1>2, <2>2, <2>4, BackupFrame, MigrateFrame DEF IInv, Copies
    <2>6. VaultType'
      BY <1>1, <1>4 DEF IInv, VaultType
    <2> QED
      BY <1>3, <2>4, <2>5, <2>6 DEF IInv
  <1>5. CASE vault' = Empty /\ Ends(p)
    <2>1. VaultType'
      BY <1>1, <1>5, EmptyTree DEF IInv, VaultType
    <2> QED
      BY <1>1, <1>2, <1>3, <1>5, <2>1, EndKeeps DEF IInv, Copies
  <1> QED
    BY <1>4, <1>5 DEF InitWrite

(* The three writes of initVolume keep the vault's files in order.         *)
LEMMA InitWritesKeep ==
    ASSUME IInv, NEW p \in Processes,
           WritePublicConfig(p) \/ WriteIdentity(p) \/ WriteMetadata(p)
    PROVE  IInv'
  <1>1. vault \in Tree /\ vault.bad \subseteq Objects
        /\ ("identity" \in vault.present => vault.pass # Nil)
    BY DEF IInv, VaultType
  <1>2. CASE WritePublicConfig(p)
    <2>1. PICK t : t = [vault EXCEPT !.present = @ \cup {"config"}]
      OBVIOUS
    <2>2. /\ t \in Tree /\ t.bad = vault.bad /\ t.pass = vault.pass
          /\ t.present = vault.present \cup {"config"}
      BY <1>1, <2>1 DEF Tree, Files, Internal
    <2> QED
      BY <1>1, <1>2, <2>1, <2>2, InitWriteKeeps DEF WritePublicConfig
  <1>3. CASE WriteIdentity(p)
    <2>1. PICK t : t = [vault EXCEPT !.present = @ \cup {"identity"},
                                     !.pass = proc[p].pass]
      OBVIOUS
    <2>2. proc[p].pass \in Secrets /\ proc[p].pass # Nil
      BY <1>3 DEF WriteIdentity, InitWrite, At, IInv, Commands, ProgressOK, IsProgress
    <2>3. /\ t \in Tree /\ t.bad = vault.bad /\ t.pass # Nil
      BY <1>1, <2>1, <2>2 DEF Tree, Files, Internal
    <2> QED
      BY <1>1, <1>3, <2>1, <2>3, InitWriteKeeps DEF WriteIdentity
  <1>4. CASE WriteMetadata(p)
    <2>1. PICK t : t = [vault EXCEPT !.present = @ \cup {"index"}]
      OBVIOUS
    <2>2. /\ t \in Tree /\ t.bad = vault.bad /\ t.pass = vault.pass
          /\ t.present = vault.present \cup {"index"}
      BY <1>1, <2>1 DEF Tree, Files, Internal
    <2> QED
      BY <1>1, <1>4, <2>1, <2>2, InitWriteKeeps DEF WriteMetadata
  <1> QED
    BY <1>2, <1>3, <1>4

(* The settings are saved, or not; the command ends.                       *)
LEMMA SaveFirstSettingsKeeps ==
    ASSUME IInv, NEW p \in Processes, SaveFirstSettings(p)
    PROVE  IInv'
  <1>1. /\ At(p, "init", "settings") /\ Ends(p) /\ settings' \in BOOLEAN
        /\ UNCHANGED <<vault, home, named, torn, unsynced, writer, Copies>>
    BY DEF SaveFirstSettings, IInv, MigrateOK, PlaceType
  <1>2. VaultType' /\ RestoredOK'
    BY <1>1 DEF IInv, VaultType, RestoredOK, RestoredWhole, Copies
  <1>3. /\ ProcessesType' /\ Commands' /\ BackupOK'
        /\ \A q \in Processes : proc'[q] = IF q = p THEN Idle ELSE proc[q]
    BY <1>1, EndKeeps DEF Copies
  <1>4. \A q \in Processes :
          /\ Moving(q)' = Moving(q) /\ (Moving(q)' => proc'[q] = proc[q])
          /\ At(q, "migrate", "save")' = At(q, "migrate", "save")
          /\ At(q, "migrate", "rename")' = At(q, "migrate", "rename")
    BY <1>1, <1>3, IdleOK DEF At, Moving
  <1>5. PlaceType'
    BY <1>1 DEF IInv, MigrateOK, PlaceType
  <1>6. MigrateOK'
    BY <1>1, <1>4, <1>5 DEF IInv, MigrateOK, SettingsFollowHome
  <1> QED
    BY <1>2, <1>3, <1>6 DEF IInv

(* The identity is replaced by one sealed with a passphrase.               *)
LEMMA ReplaceIdentityKeeps ==
    ASSUME IInv, NEW p \in Processes, ReplaceIdentity(p)
    PROVE  IInv'
  <1>1. At(p, "passwd", "unlocked") /\ Ends(p) /\ UNCHANGED <<Place, writer, Copies>>
    BY DEF ReplaceIdentity
  <1>2. RestoredOK'
    BY <1>1 DEF IInv, RestoredOK, RestoredWhole, Copies
  <1>3. ProcessesType' /\ Commands' /\ BackupOK' /\ MigrateOK'
    BY <1>1, EndKeeps DEF Copies, At
  <1>4. VaultType'
    <2>1. CASE vault' = [vault EXCEPT !.pass = proc[p].pass]
      <3>1. proc[p].pass \in Secrets /\ proc[p].pass # Nil
        BY <1>1 DEF At, IInv, Commands, ProgressOK, IsProgress
      <3>2. /\ vault' \in Tree /\ vault'.bad = vault.bad /\ vault'.pass = proc[p].pass
        BY <2>1, <3>1 DEF IInv, VaultType, Tree
      <3> QED
        BY <1>1, <3>1, <3>2 DEF IInv, VaultType
    <2>2. CASE UNCHANGED vault
      BY <1>1, <2>2 DEF IInv, VaultType
    <2> QED
      BY <2>1, <2>2 DEF ReplaceIdentity
  <1> QED
    BY <1>2, <1>3, <1>4 DEF IInv

(* The process that moved the home directory ends: nobody moves it now.    *)
LEMMA NobodyMoves ==
    ASSUME IInv, NEW p \in Processes, Moving(p),
           \A q \in Processes : proc'[q] = IF q = p THEN Idle ELSE proc[q],
           PlaceType', SettingsFollowHome'
    PROVE  MigrateOK'
  <1>1. \A q \in Processes : ~Moving(q)'
    BY IdleOK DEF IInv, MigrateOK, Moving
  <1>2. \A q \in Processes : ~At(q, "migrate", "rename")' /\ ~At(q, "migrate", "save")'
    BY <1>1 DEF At, Moving
  <1> QED
    BY <1>1, <1>2 DEF MigrateOK

(* A failing migration ends: the directory is back in the old place, or    *)
(* the migration is torn.  The settings may already name the new place.    *)
LEMMA MovedBack ==
    ASSUME IInv, NEW p \in Processes, Moving(p), MoveBack,
           \A q \in Processes : proc'[q] = IF q = p THEN Idle ELSE proc[q],
           UNCHANGED settings,
           \/ UNCHANGED <<named, unsynced>> /\ home = "legacy"
           \/ named' \in {named, "current"} /\ unsynced' = (unsynced \/ named' = "current")
    PROVE  MigrateOK'
  <1>1. PlaceType'
    BY DEF IInv, MigrateOK, PlaceType, MoveBack
  <1>2. SettingsFollowHome'
    <2>1. PlaceType /\ SettingsFollowHome
      BY DEF IInv, MigrateOK
    <2>2. CASE home' = "current"
      BY <2>1, <2>2 DEF MoveBack, SettingsFollowHome
    <2>3. CASE home' = "legacy"
      BY <1>1, <2>1, <2>3 DEF PlaceType, SettingsFollowHome
    <2> QED
      BY <2>2, <2>3 DEF MoveBack
  <1> QED
    BY <1>1, <1>2, NobodyMoves

(* The home directory is renamed: until the settings are saved, the one    *)
(* process that moves it accounts for the difference.                      *)
LEMMA RenameHomeKeeps ==
    ASSUME IInv, NEW p \in Processes, RenameHome(p)
    PROVE  IInv'
  <1>1. At(p, "migrate", "rename") /\ UNCHANGED <<vault, settings, named, unsynced, writer, Copies>>
    BY DEF RenameHome
  <1>2. VaultType' /\ RestoredOK'
    BY <1>1 DEF IInv, VaultType, RestoredOK, RestoredWhole, Copies
  <1>3. Moving(p) /\ home = "legacy" /\ \A q \in Processes : Moving(q) => q = p
    BY <1>1 DEF At, Moving, IInv, MigrateOK
  <1>4. CASE home' = "current" /\ Step(p, "save") /\ UNCHANGED torn
    <2>1. PICK r : r = [proc[p] EXCEPT !.step = "save"]
      OBVIOUS
    <2>2. ProgressOK(proc[p]) /\ proc[p].op = "migrate"
      BY <1>1 DEF IInv, Commands, At
    <2>3. /\ IsProgress(r) /\ r.op = "migrate" /\ r.step = "save"
      BY <2>1, <2>2, StepOK DEF ProgressOK, Steps
    <2>4. ProgressOK(r)
      BY <2>3 DEF ProgressOK
    <2>5. /\ ProcessesType' /\ Commands'
          /\ \A q \in Processes : proc'[q] = IF q = p THEN r ELSE proc[q]
      <3>1. Goes(p, r)
        BY <1>4, <2>1 DEF Step
      <3> QED
        BY <2>4, <3>1, ProgressFrame DEF IInv, Goes
    <2>6. BackupOK'
      BY <1>1, <2>3, <2>5, BackupFrame DEF IInv, Copies
    <2>7. /\ At(p, "migrate", "save")' /\ Moving(p)'
          /\ \A q \in Processes : Moving(q)' => q = p
      BY <1>3, <2>3, <2>5 DEF At, Moving
    <2>8. PlaceType'
      BY <1>1, <1>4 DEF IInv, MigrateOK, PlaceType
    <2>9. \A q \in Processes :
            /\ Moving(q)' => proc'[q].step \in {"rename", "save"}
            /\ At(q, "migrate", "rename")' => home' = "legacy"
            /\ At(q, "migrate", "save")' => home' = "current"
      BY <1>1, <1>3, <1>4, <2>3, <2>5, <2>7 DEF At, Moving
    <2>10. MigrateOK'
      BY <1>4, <2>7, <2>8, <2>9 DEF MigrateOK, PlaceType, SettingsFollowHome
    <2> QED
      BY <1>2, <2>5, <2>6, <2>10 DEF IInv
  <1>5. CASE MoveBack /\ Ends(p)
    <2>1. /\ ProcessesType' /\ Commands' /\ BackupOK'
          /\ \A q \in Processes : proc'[q] = IF q = p THEN Idle ELSE proc[q]
      BY <1>1, <1>5, EndKeeps DEF Copies
    <2>2. MigrateOK'
      BY <1>1, <1>3, <1>5, <2>1, MovedBack
    <2> QED
      BY <1>2, <2>1, <2>2 DEF IInv
  <1> QED
    BY <1>4, <1>5 DEF RenameHome

(* The settings follow the home directory, or it goes back if it can.      *)
LEMMA SaveMigratedKeeps ==
    ASSUME IInv, NEW p \in Processes, SaveMigrated(p)
    PROVE  IInv'
  <1>1. At(p, "migrate", "save") /\ Ends(p) /\ UNCHANGED <<vault, settings, writer, Copies>>
    BY DEF SaveMigrated
  <1>2. VaultType' /\ RestoredOK'
    BY <1>1 DEF IInv, VaultType, RestoredOK, RestoredWhole, Copies
  <1>3. /\ ProcessesType' /\ Commands' /\ BackupOK'
        /\ \A q \in Processes : proc'[q] = IF q = p THEN Idle ELSE proc[q]
    BY <1>1, EndKeeps DEF Copies
  <1>4. home = "current" /\ Moving(p)
    BY <1>1 DEF IInv, MigrateOK, At, Moving
  <1>5. CASE /\ named' = "current" /\ unsynced' = FALSE
             /\ UNCHANGED <<home, torn>>
    <2>1. PlaceType' /\ SettingsFollowHome'
      BY <1>1, <1>4, <1>5 DEF IInv, MigrateOK, PlaceType, SettingsFollowHome
    <2> QED
      BY <1>2, <1>3, <1>4, <2>1, NobodyMoves DEF IInv
  <1>6. CASE FailingSave /\ MoveBack
    <2>1. MigrateOK'
      BY <1>1, <1>3, <1>4, <1>6, MovedBack DEF FailingSave
    <2> QED
      BY <1>2, <1>3, <2>1 DEF IInv
  <1> QED
    BY <1>5, <1>6 DEF SaveMigrated

-----------------------------------------------------------------------------
(* CreateBackup.                                                           *)

(* The files to copy are files.                                            *)
LEMMA ListVaultKeeps ==
    ASSUME IInv, NEW p \in Processes, ListVault(p)
    PROVE  IInv'
  <1>1. At(p, "create", "list") /\ UNCHANGED <<Place, writer, Copies>>
    BY DEF ListVault
  <1>2. RestoredOK' /\ ~Moving(p) /\ ~At(p, "migrate", "save") /\ ProgressOK(proc[p])
    BY <1>1 DEF IInv, RestoredOK, RestoredWhole, Copies, Moving, At, Commands
  <1>3. CASE /\ vault' = [vault EXCEPT !.present = @ \cup {"lock"}]
             /\ Goes(p, [proc[p] EXCEPT !.step = "copy",
                          !.todo = Internal \cup (vault.present \cap Objects)])
    <2>1. PICK r : r = [proc[p] EXCEPT !.step = "copy",
                          !.todo = Internal \cup (vault.present \cap Objects)]
      OBVIOUS
    <2>2. /\ r.op = "create" /\ r.step = "copy" /\ r.tree = proc[p].tree
          /\ r.manifest = proc[p].manifest /\ r.pass = proc[p].pass
          /\ r.todo = Internal \cup (vault.present \cap Objects)
          /\ r = [op |-> r.op, step |-> r.step, todo |-> r.todo,
                  tree |-> r.tree, manifest |-> r.manifest, pass |-> r.pass]
      BY <1>1, <1>2, <2>1 DEF ProgressOK, IsProgress, At
    <2>3. IsProgress(r)
      BY <1>2, <2>2 DEF ProgressOK, IsProgress, Files, Operations, Steps
    <2>4. ProgressOK(r)
      BY <1>1, <1>2, <2>2, <2>3 DEF ProgressOK, At
    <2>5. /\ ProcessesType' /\ Commands'
          /\ \A q \in Processes : proc'[q] = IF q = p THEN r ELSE proc[q]
      <3>1. Goes(p, r)
        BY <1>3, <2>1
      <3> QED
        BY <2>4, <3>1, ProgressFrame DEF IInv, Goes
    <2>6. BackupOK' /\ MigrateOK'
      BY <1>1, <1>2, <2>2, <2>5, BackupFrame, MigrateFrame DEF IInv, Copies
    <2>7. /\ vault' \in Tree /\ vault'.bad = vault.bad /\ vault'.pass = vault.pass
          /\ vault'.present = vault.present \cup {"lock"}
      BY <1>3 DEF IInv, VaultType, Tree, Files
    <2>8. VaultType'
      BY <1>1, <2>7 DEF IInv, VaultType
    <2> QED
      BY <1>2, <2>5, <2>6, <2>8 DEF IInv
  <1>4. CASE UNCHANGED vault /\ Ends(p)
    <2>1. VaultType'
      BY <1>1, <1>4 DEF IInv, VaultType
    <2> QED
      BY <1>1, <1>2, <1>4, <2>1, EndKeeps DEF IInv, Copies
  <1> QED
    BY <1>3, <1>4 DEF ListVault

(* A file goes into the staged tree and its digest into the manifest: the  *)
(* one goes on describing the other, whatever the service does meanwhile.  *)
LEMMA CopyToBackupKeeps ==
    ASSUME IInv, NEW p \in Processes, CopyToBackup(p)
    PROVE  IInv'
  <1>1. At(p, "create", "copy") /\ UNCHANGED <<vault, Place, writer, Copies>>
    BY DEF CopyToBackup
  <1>2. /\ RestoredOK' /\ VaultType' /\ ~Moving(p) /\ ~At(p, "migrate", "save")
        /\ ProgressOK(proc[p])
    BY <1>1 DEF IInv, RestoredOK, RestoredWhole, VaultType, Copies, Moving, At, Commands
  <1>3. ASSUME NEW f \in Earliest(proc[p].todo), f \in vault.present,
               Goes(p, [proc[p] EXCEPT
                !.todo = @ \ {f},
                !.tree = CopyFile(f, vault, proc[p].tree),
                !.manifest = AddDigest(@, f, Digest(vault, f)),
                !.step = IF proc[p].todo = {f} THEN "publish" ELSE "copy"])
        PROVE  IInv'
    <2>1. PICK r : r = [proc[p] EXCEPT
                !.todo = @ \ {f},
                !.tree = CopyFile(f, vault, proc[p].tree),
                !.manifest = AddDigest(@, f, Digest(vault, f)),
                !.step = IF proc[p].todo = {f} THEN "publish" ELSE "copy"]
      OBVIOUS
    <2>2. /\ r.op = "create" /\ r.step \in {"copy", "publish"}
          /\ r.tree = CopyFile(f, vault, proc[p].tree)
          /\ r.manifest = AddDigest(proc[p].manifest, f, Digest(vault, f))
          /\ r.pass = proc[p].pass /\ r.todo = proc[p].todo \ {f}
          /\ r = [op |-> r.op, step |-> r.step, todo |-> r.todo,
                  tree |-> r.tree, manifest |-> r.manifest, pass |-> r.pass]
      BY <1>1, <1>2, <2>1 DEF ProgressOK, IsProgress, At
    <2>3. /\ vault \in Tree /\ proc[p].tree \in Tree /\ f \in Files
          /\ "identity" \in vault.present => vault.pass # Nil
      BY <1>2, <1>3 DEF IInv, VaultType, ProgressOK, IsProgress, Tree
    <2>4. /\ r.tree \in Tree /\ r.tree.present = proc[p].tree.present \cup {f}
          /\ Digest(r.tree, f) = Digest(vault, f)
          /\ \A g \in Files : g # f => Digest(r.tree, g) = Digest(proc[p].tree, g)
          /\ r.tree.pass = IF f = "identity" THEN vault.pass ELSE proc[p].tree.pass
      <3>1. PICK from, to : from = vault /\ to = proc[p].tree
        OBVIOUS
      <3>2. from \in Tree /\ to \in Tree
        BY <2>3, <3>1
      <3>3. r.tree = CopyFile(f, from, to)
        BY <2>2, <3>1
      <3>4. /\ r.tree \in Tree /\ r.tree.present = to.present \cup {f}
            /\ Digest(r.tree, f) = Digest(from, f)
            /\ \A g \in Files : g # f => Digest(r.tree, g) = Digest(to, g)
            /\ r.tree.pass = IF f = "identity" THEN from.pass ELSE to.pass
        <4>1. f \in Files
          BY <2>3
        <4>2. CopyFile(f, from, to) \in Tree
          BY <3>2, <4>1, CopyDigest
        <4>3. CopyFile(f, from, to).present = to.present \cup {f}
          BY DEF CopyFile
        <4>4. Digest(CopyFile(f, from, to), f) = Digest(from, f)
          BY <3>2, <4>1, CopyDigest
        <4>5. \A g \in Files : g # f => Digest(CopyFile(f, from, to), g) = Digest(to, g)
          BY <3>2, <4>1, CopyDigest
        <4>6. f = "identity" => CopyFile(f, from, to).pass = from.pass
          BY <3>2, <4>1, CopyDigest
        <4>7. f # "identity" => CopyFile(f, from, to).pass = to.pass
          BY <3>2, <4>1, CopyDigest
        <4> QED
          BY <3>3, <4>2, <4>3, <4>4, <4>5, <4>6, <4>7
      <3> QED
        BY <3>1, <3>4
    <2>5. /\ DOMAIN proc[p].manifest \subseteq Files
          /\ Describes(proc[p].manifest, proc[p].tree)
      BY <1>1, <1>2 DEF ProgressOK, IsProgress, IsManifest, At
    <2>6. /\ DOMAIN r.manifest = DOMAIN proc[p].manifest \cup {f}
          /\ r.manifest = [g \in DOMAIN r.manifest |-> r.manifest[g]]
          /\ r.manifest[f] = Digest(vault, f)
          /\ \A g \in DOMAIN proc[p].manifest : g # f => r.manifest[g] = proc[p].manifest[g]
      BY <2>2 DEF AddDigest
    <2>7. IsProgress(r)
      BY <1>2, <2>2, <2>3, <2>4, <2>5, <2>6
         DEF ProgressOK, IsProgress, IsManifest, Operations, Steps
    <2>8. Describes(r.manifest, r.tree)
      <3>1. r.tree.present = DOMAIN r.manifest
        BY <2>4, <2>5, <2>6 DEF Describes
      <3>2. ASSUME NEW g \in DOMAIN r.manifest
            PROVE  Digest(r.tree, g) = r.manifest[g]
        BY <2>3, <2>4, <2>5, <2>6, <3>2 DEF Describes
      <3>3. "identity" \in r.tree.present => r.tree.pass # Nil
        BY <1>3, <2>3, <2>4, <2>5 DEF Describes
      <3> QED
        BY <3>1, <3>2, <3>3 DEF Describes
    <2>9. ProgressOK(r)
      BY <2>2, <2>7, <2>8 DEF ProgressOK
    <2>10. /\ ProcessesType' /\ Commands'
           /\ \A q \in Processes : proc'[q] = IF q = p THEN r ELSE proc[q]
      <3>1. Goes(p, r)
        BY <1>3, <2>1
      <3> QED
        BY <2>9, <3>1, ProgressFrame DEF IInv, Goes
    <2>11. BackupOK' /\ MigrateOK'
      BY <1>1, <1>2, <2>2, <2>10, BackupFrame, MigrateFrame DEF IInv, Copies
    <2> QED
      BY <1>2, <2>10, <2>11 DEF IInv
  <1>4. CASE Ends(p)
    BY <1>1, <1>2, <1>4, EndKeeps DEF IInv, Copies
  <1> QED
    BY <1>3, <1>4 DEF CopyToBackup

(* The rename publishes a tree and the manifest that describes it.         *)
LEMMA PublishBackupKeeps ==
    ASSUME IInv, NEW p \in Processes, PublishBackup(p)
    PROVE  IInv'
  <1>1. /\ At(p, "create", "publish")
        /\ UNCHANGED <<vault, Place, writer, restored, accepted, decayed>>
    BY DEF PublishBackup
  <1>2. /\ RestoredOK' /\ VaultType' /\ ~Moving(p) /\ ~At(p, "migrate", "save")
        /\ ProgressOK(proc[p])
    BY <1>1 DEF IInv, RestoredOK, RestoredWhole, VaultType, Moving, At, Commands
  <1>3. CASE backup.shown
    <2>1. Ends(p) /\ UNCHANGED backup
      BY <1>3 DEF PublishBackup
    <2> QED
      BY <1>1, <1>2, <2>1, EndKeeps DEF IInv
  <1>4. CASE ~backup.shown
    <2>1. /\ backup' = [shown |-> TRUE, tree |-> proc[p].tree,
                        manifest |-> proc[p].manifest]
          /\ Goes(p, [Idle EXCEPT !.op = "create", !.step = "sums"])
      BY <1>4 DEF PublishBackup
    <2>2. PICK r : r = [Idle EXCEPT !.op = "create", !.step = "sums"]
      OBVIOUS
    <2>3. ProgressOK(r) /\ r.op = "create" /\ r.step = "sums"
      <3>1. r = [op |-> "create", step |-> "sums", todo |-> {}, tree |-> Empty,
                 manifest |-> <<>>, pass |-> Nil]
        BY <2>2 DEF Idle
      <3>2. "sums" \in Steps /\ Nil \in Secrets /\ "create" \in Operations
        BY DEF Steps, Secrets, Operations
      <3> QED
        BY <3>1, <3>2, Begins
    <2>4. /\ ProcessesType' /\ Commands'
          /\ \A q \in Processes : proc'[q] = IF q = p THEN r ELSE proc[q]
      <3>1. Goes(p, r)
        BY <2>1, <2>2
      <3> QED
        BY <2>3, <3>1, ProgressFrame DEF IInv, Goes
    <2>5. MigrateOK'
      BY <1>1, <1>2, <2>3, <2>4, MigrateFrame DEF IInv
    <2>6. /\ Describes(proc[p].manifest, proc[p].tree) /\ proc[p].tree \in Tree
          /\ IsManifest(proc[p].manifest)
      BY <1>1, <1>2 DEF ProgressOK, IsProgress, At
    <2>7. /\ backup'.shown = TRUE /\ backup'.tree = proc[p].tree
          /\ backup'.manifest = proc[p].manifest
      BY <2>1
    <2>8. IsCopy(backup')
      BY <2>1, <2>6, <2>7 DEF IsCopy
    <2>9. \A f \in DOMAIN proc[p].manifest :
            /\ proc[p].manifest[f].value = Digest(proc[p].tree, f).value
            /\ proc[p].manifest[f].bad => f \in proc[p].tree.bad
      <3> SUFFICES ASSUME NEW f \in DOMAIN proc[p].manifest
                   PROVE  /\ proc[p].manifest[f].value = Digest(proc[p].tree, f).value
                          /\ proc[p].manifest[f].bad => f \in proc[p].tree.bad
        OBVIOUS
      <3>1. Digest(proc[p].tree, f) = proc[p].manifest[f]
        BY <2>6 DEF Describes
      <3>2. Digest(proc[p].tree, f).bad = (f \in proc[p].tree.bad)
        BY DEF Digest
      <3> QED
        BY <3>1, <3>2
    <2>10. Made(backup')
      BY <2>6, <2>7, <2>9 DEF Made, Describes
    <2>11. ~accepted'
      BY <1>1, <1>4 DEF IInv, BackupOK
    <2>12. BackupOK'
      BY <2>7, <2>8, <2>10, <2>11 DEF BackupOK, VerifiedIsConsistent
    <2> QED
      BY <1>2, <2>4, <2>5, <2>12 DEF IInv
  <1> QED
    BY <1>3, <1>4

-----------------------------------------------------------------------------
(* VerifyBackup.                                                           *)

(* The checksums of a backup match only when there is one.                 *)
LEMMA VerifySumsKeeps ==
    ASSUME IInv, NEW p \in Processes, VerifySums(p)
    PROVE  IInv'
  <1>1. proc[p].step = "sums" /\ UNCHANGED <<vault, Place, writer, Copies>>
    BY DEF VerifySums
  <1>2. /\ RestoredOK' /\ VaultType' /\ ProgressOK(proc[p])
        /\ ~At(p, "migrate", "save")
    BY <1>1 DEF IInv, RestoredOK, RestoredWhole, VaultType, Copies, At, Commands
  <1>3. ~Moving(p)
    BY <1>1 DEF IInv, MigrateOK, Moving
  <1>4. CASE ~SumsMatch(backup)
    <2>1. Ends(p)
      BY <1>4 DEF VerifySums
    <2> QED
      BY <1>1, <1>2, <2>1, EndKeeps DEF IInv, Copies
  <1>5. CASE SumsMatch(backup)
    <2>1. PICK r : r = [proc[p] EXCEPT !.step = "vault"]
      OBVIOUS
    <2>2. Goes(p, r) /\ backup.shown
      BY <1>5, <2>1 DEF VerifySums, Step, SumsMatch
    <2>3. /\ IsProgress(r) /\ r.op = proc[p].op /\ r.step = "vault"
          /\ r.tree = proc[p].tree /\ r.pass = proc[p].pass
      BY <1>2, <2>1, StepOK DEF ProgressOK, Steps
    <2>4. ProgressOK(r)
      BY <1>1, <1>2, <2>3 DEF ProgressOK
    <2>5. /\ ProcessesType' /\ Commands'
          /\ \A q \in Processes : proc'[q] = IF q = p THEN r ELSE proc[q]
      BY <2>2, <2>4, ProgressFrame DEF IInv, Goes
    <2>6. MigrateOK'
      <3>1. ~(r.op = "migrate" /\ r.step # "idle")
        BY <1>1, <1>3, <2>3 DEF Moving
      <3> QED
        BY <1>1, <1>3, <2>5, <3>1, MigrateFrame DEF IInv
    <2>7. BackupOK'
      BY <1>1, <2>2, <2>5 DEF IInv, BackupOK, VerifiedIsConsistent, Copies
    <2> QED
      BY <1>2, <2>5, <2>6, <2>7 DEF IInv
  <1> QED
    BY <1>4, <1>5

(* The manifest of a backup whose vault verifies names a whole vault: what *)
(* decayed since the checksums were compared would not decrypt.            *)
LEMMA VerifiedManifest ==
    ASSUME IsCopy(backup), Made(backup), VaultIndex(backup.tree), Decrypts(backup.tree)
    PROVE  Intact(backup.manifest)
  <1>1. PICK m, t : m = backup.manifest /\ t = backup.tree
    OBVIOUS
  <1>2. /\ DOMAIN m \subseteq t.present /\ t.present \subseteq DOMAIN m \cup {"lock"}
        /\ \A f \in DOMAIN m : /\ m[f].value = Digest(t, f).value
                               /\ m[f].bad => f \in t.bad
        /\ "identity" \in t.present => t.pass # Nil
    BY <1>1 DEF Made
  <1>3. /\ "index" \in t.present \ t.bad /\ t.index = t.present \cap Objects
        /\ "config" \in t.present \ t.bad /\ "identity" \in t.present \ t.bad
        /\ t.index \subseteq t.present \ t.bad
    BY <1>1 DEF VaultIndex, Decrypts
  <1>4. Internal \subseteq DOMAIN m
    BY <1>2, <1>3 DEF Internal
  <1>5. Digest(t, "index").value = t.index /\ Digest(t, "identity").value = t.pass
    BY Names DEF Digest
  <1>6. DOMAIN m \cap Objects = t.index
    BY <1>2, <1>3, Names
  <1>7. \A f \in DOMAIN m \cap (Internal \cup Objects) : f \notin t.bad
    BY <1>2, <1>3 DEF Internal
  <1>8. "index" \in DOMAIN m /\ "identity" \in DOMAIN m
    BY <1>4 DEF Internal
  <1>9. m["index"].value = DOMAIN m \cap Objects
    BY <1>2, <1>5, <1>6, <1>8
  <1>10. m["identity"].value # Nil
    BY <1>2, <1>3, <1>5, <1>8
  <1> QED
    BY <1>1, <1>2, <1>4, <1>7, <1>9, <1>10 DEF Intact

(* Verification accepts a consistent vault only, adds the lock file to it, *)
(* and hands a restore the manifest of a whole vault.                      *)
LEMMA VerifyBackupVaultKeeps ==
    ASSUME IInv, NEW p \in Processes, VerifyBackupVault(p)
    PROVE  IInv'
  <1>1. /\ proc[p].step = "vault" /\ UNCHANGED <<vault, Place, writer, restored, decayed>>
        /\ backup' = [backup EXCEPT !.tree.present = @ \cup {"lock"}]
    BY DEF VerifyBackupVault
  <1>2. /\ RestoredOK' /\ VaultType' /\ ProgressOK(proc[p])
        /\ ~At(p, "migrate", "save")
    BY <1>1 DEF IInv, RestoredOK, RestoredWhole, VaultType, At, Commands
  <1>3. ~Moving(p)
    BY <1>1 DEF IInv, MigrateOK, Moving
  <1>4. /\ IsCopy(backup) /\ backup.tree \in Tree /\ Made(backup) /\ backup.shown
    BY <1>1 DEF IInv, BackupOK, IsCopy
  <1>5. PICK t : t = [backup.tree EXCEPT !.present = @ \cup {"lock"}]
    OBVIOUS
  <1>6. /\ backup' = [shown |-> backup.shown, tree |-> t, manifest |-> backup.manifest]
        /\ backup'.tree = t /\ backup'.shown = backup.shown
        /\ backup'.manifest = backup.manifest
    BY <1>1, <1>4, <1>5 DEF IsCopy
  <1>7. /\ t \in Tree /\ t.present = backup.tree.present \cup {"lock"}
        /\ t.pass = backup.tree.pass /\ t.bad = backup.tree.bad
        /\ t.index = backup.tree.index /\ t.version = backup.tree.version
    BY <1>4, <1>5 DEF Tree, Files
  <1>8. \A f : Digest(t, f) = Digest(backup.tree, f)
    BY <1>7 DEF Digest
  <1>9. IsCopy(backup') /\ Made(backup')
    <2>1. IsCopy(backup')
      BY <1>4, <1>6, <1>7 DEF IsCopy
    <2>2. Made(backup')
      BY <1>4, <1>6, <1>7, <1>8 DEF Made
    <2> QED
      BY <2>1, <2>2
  <1>10. ASSUME \/ accepted' = accepted
                \/ VaultIndex(backup.tree) /\ Decrypts(backup.tree)
         PROVE  VerifiedIsConsistent'
    <2> SUFFICES ASSUME accepted', ~decayed'
                 PROVE  /\ {o \in Objects : o \in t.present} = t.index
                        /\ Decrypts(t)
      BY <1>6 DEF VerifiedIsConsistent
    <2>1. /\ {o \in Objects : o \in backup.tree.present} = backup.tree.index
          /\ Decrypts(backup.tree)
      BY <1>1, <1>10 DEF IInv, BackupOK, VerifiedIsConsistent, VaultIndex
    <2>2. {o \in Objects : o \in t.present} = {o \in Objects : o \in backup.tree.present}
      BY <1>7, Names
    <2>3. Decrypts(t)
      BY <1>7, <2>1 DEF Decrypts
    <2> QED
      BY <1>7, <2>1, <2>2, <2>3
  <1>11. ASSUME Ends(p), VerifiedIsConsistent'
         PROVE  IInv'
    <2>1. /\ ProcessesType' /\ Commands' /\ MigrateOK'
          /\ \A q \in Processes : proc'[q] = IF q = p THEN Idle ELSE proc[q]
      BY <1>1, <1>2, <1>11, EndKeeps
    <2>2. BackupOK'
      BY <1>4, <1>6, <1>9, <1>11 DEF BackupOK
    <2> QED
      BY <1>2, <2>1, <2>2 DEF IInv
  <1>12. ASSUME VaultIndex(backup.tree), Decrypts(backup.tree), accepted' = TRUE,
                proc[p].op = "restore",
                Goes(p, [proc[p] EXCEPT !.step = "copy", !.manifest = backup.manifest,
                                        !.todo = DOMAIN backup.manifest])
         PROVE  IInv'
    <2>1. PICK r : r = [proc[p] EXCEPT !.step = "copy", !.manifest = backup.manifest,
                                       !.todo = DOMAIN backup.manifest]
      OBVIOUS
    <2>2. /\ r.op = "restore" /\ r.step = "copy" /\ r.tree = proc[p].tree
          /\ r.manifest = backup.manifest /\ r.pass = proc[p].pass
          /\ r.todo = DOMAIN backup.manifest
          /\ r = [op |-> r.op, step |-> r.step, todo |-> r.todo,
                  tree |-> r.tree, manifest |-> r.manifest, pass |-> r.pass]
      BY <1>2, <1>12, <2>1 DEF ProgressOK, IsProgress
    <2>3. IsProgress(r)
      BY <1>2, <1>4, <2>2 DEF ProgressOK, IsProgress, IsCopy, IsManifest, Operations, Steps
    <2>4. r.tree.present = {}
      BY <1>1, <1>2, <2>2, EmptyTree DEF ProgressOK
    <2>5. Copied(r)
      BY <1>4, <1>12, <2>2, <2>4, VerifiedManifest DEF Copied
    <2>6. ProgressOK(r)
      BY <2>2, <2>3, <2>5 DEF ProgressOK
    <2>7. /\ ProcessesType' /\ Commands'
          /\ \A q \in Processes : proc'[q] = IF q = p THEN r ELSE proc[q]
      <3>1. Goes(p, r)
        BY <1>12, <2>1
      <3> QED
        BY <2>6, <3>1, ProgressFrame DEF IInv, Goes
    <2>8. MigrateOK'
      BY <1>1, <1>3, <2>2, <2>7, MigrateFrame DEF IInv
    <2>9. BackupOK'
      BY <1>4, <1>6, <1>9, <1>10, <1>12 DEF BackupOK
    <2> QED
      BY <1>2, <2>7, <2>8, <2>9 DEF IInv
  <1> QED
    BY <1>10, <1>11, <1>12 DEF VerifyBackupVault

-----------------------------------------------------------------------------
(* RestoreBackup.                                                          *)

(* Only a file with the digest of the manifest is kept.                    *)
LEMMA CopyRestoredKeeps ==
    ASSUME IInv, NEW p \in Processes, CopyRestored(p)
    PROVE  IInv'
  <1>1. At(p, "restore", "copy") /\ UNCHANGED <<vault, Place, writer, Copies>>
    BY DEF CopyRestored
  <1>2. /\ RestoredOK' /\ VaultType' /\ ~Moving(p) /\ ~At(p, "migrate", "save")
        /\ ProgressOK(proc[p])
    BY <1>1 DEF IInv, RestoredOK, RestoredWhole, VaultType, Copies, Moving, At, Commands
  <1>3. ASSUME NEW f \in Earliest(proc[p].todo),
               Digest(backup.tree, f) = proc[p].manifest[f],
               Goes(p, [proc[p] EXCEPT
                  !.todo = @ \ {f},
                  !.tree = CopyFile(f, backup.tree, proc[p].tree),
                  !.step = IF proc[p].todo = {f} THEN "publish" ELSE "copy"])
        PROVE  IInv'
    <2>1. PICK r : r = [proc[p] EXCEPT
                !.todo = @ \ {f},
                !.tree = CopyFile(f, backup.tree, proc[p].tree),
                !.step = IF proc[p].todo = {f} THEN "publish" ELSE "copy"]
      OBVIOUS
    <2>2. /\ r.op = "restore" /\ r.step \in {"copy", "publish"}
          /\ r.step = "publish" => proc[p].todo = {f}
          /\ r.tree = CopyFile(f, backup.tree, proc[p].tree)
          /\ r.manifest = proc[p].manifest
          /\ r.pass = proc[p].pass /\ r.todo = proc[p].todo \ {f}
          /\ r = [op |-> r.op, step |-> r.step, todo |-> r.todo,
                  tree |-> r.tree, manifest |-> r.manifest, pass |-> r.pass]
      BY <1>1, <1>2, <2>1 DEF ProgressOK, IsProgress, At
    <2>3. /\ backup.tree \in Tree /\ proc[p].tree \in Tree /\ proc[p].todo \subseteq Files
          /\ f \in proc[p].todo /\ f \in Files
      BY <1>2 DEF IInv, BackupOK, IsCopy, ProgressOK, IsProgress, Earliest
    <2>4. Copied(proc[p])
      BY <1>1, <1>2 DEF ProgressOK, At
    <2>5. PICK from, to : from = backup.tree /\ to = proc[p].tree
      OBVIOUS
    <2>6. from \in Tree /\ to \in Tree /\ r.tree = CopyFile(f, from, to)
      BY <2>2, <2>3, <2>5
    <2>7. r.tree \in Tree
      BY <2>3, <2>6, CopyDigest
    <2>8. r.tree.present = to.present \cup {f}
      BY <2>6 DEF CopyFile
    <2>9. Digest(r.tree, f) = Digest(from, f)
      BY <2>3, <2>6, CopyDigest
    <2>10. \A g \in Files : g # f => Digest(r.tree, g) = Digest(to, g)
      BY <2>3, <2>6, CopyDigest
    <2>11. IsProgress(r)
      BY <1>2, <2>2, <2>3, <2>7 DEF ProgressOK, IsProgress, Operations, Steps
    <2>12. Copied(r)
      <3>1. Intact(r.manifest) /\ r.todo \subseteq DOMAIN r.manifest
        BY <2>2, <2>4 DEF Copied
      <3>2. r.tree.present = DOMAIN r.manifest \ r.todo
        BY <2>2, <2>3, <2>4, <2>5, <2>8 DEF Copied
      <3>3. ASSUME NEW g \in r.tree.present
            PROVE  Digest(r.tree, g) = r.manifest[g]
        <4>1. CASE g = f
          BY <1>3, <2>2, <2>5, <2>9, <4>1
        <4>2. CASE g # f
          <5>1. g \in to.present /\ g \in Files
            BY <2>6, <2>8, <3>3, <4>2 DEF Tree
          <5> QED
            BY <2>2, <2>4, <2>5, <2>10, <4>2, <5>1 DEF Copied
        <4> QED
          BY <4>1, <4>2
      <3> QED
        BY <3>1, <3>2, <3>3 DEF Copied
    <2>13. r.step = "publish" => r.todo = {}
      BY <2>2
    <2>14. ProgressOK(r)
      BY <2>2, <2>11, <2>12, <2>13 DEF ProgressOK
    <2>15. /\ ProcessesType' /\ Commands'
           /\ \A q \in Processes : proc'[q] = IF q = p THEN r ELSE proc[q]
      <3>1. Goes(p, r)
        BY <1>3, <2>1
      <3> QED
        BY <2>14, <3>1, ProgressFrame DEF IInv, Goes
    <2>16. BackupOK' /\ MigrateOK'
      BY <1>1, <1>2, <2>2, <2>15, BackupFrame, MigrateFrame DEF IInv, Copies
    <2> QED
      BY <1>2, <2>15, <2>16 DEF IInv
  <1>4. CASE Ends(p)
    BY <1>1, <1>2, <1>4, EndKeeps DEF IInv, Copies
  <1> QED
    BY <1>3, <1>4 DEF CopyRestored

(* A tree with all the files of an intact manifest is a whole vault.       *)
LEMMA CompleteIsWhole ==
    ASSUME NEW r, Copied(r), r.todo = {}
    PROVE  Whole(r.tree)
  <1>1. PICK m, t : m = r.manifest /\ t = r.tree
    OBVIOUS
  <1>2. /\ Internal \subseteq DOMAIN m /\ t.present = DOMAIN m
        /\ \A f \in DOMAIN m \cap (Internal \cup Objects) : ~m[f].bad
        /\ m["index"].value = DOMAIN m \cap Objects
        /\ m["identity"].value # Nil
        /\ \A f \in DOMAIN m : Digest(t, f) = m[f]
    BY <1>1 DEF Copied, Intact
  <1>3. /\ "index" \in DOMAIN m /\ "identity" \in DOMAIN m /\ "config" \in DOMAIN m
    BY <1>2 DEF Internal
  <1>4. Digest(t, "index").value = t.index /\ Digest(t, "identity").value = t.pass
    BY Names DEF Digest
  <1>5. \A f : Digest(t, f).bad = (f \in t.bad)
    BY DEF Digest
  <1>6. \A f \in DOMAIN m \cap (Internal \cup Objects) : f \notin t.bad
    BY <1>2, <1>5
  <1>7. t.index = DOMAIN m \cap Objects /\ t.pass # Nil
    BY <1>2, <1>3, <1>4
  <1>8. VaultIndex(t)
    BY <1>2, <1>3, <1>6, <1>7 DEF VaultIndex, Internal
  <1>9. Decrypts(t)
    BY <1>2, <1>3, <1>6, <1>7 DEF Decrypts, Internal
  <1> QED
    BY <1>1, <1>7, <1>8, <1>9 DEF Whole

(* A restore publishes what is complete, where nothing is.                 *)
LEMMA PublishRestoredKeeps ==
    ASSUME IInv, NEW p \in Processes, PublishRestored(p)
    PROVE  IInv'
  <1>1. /\ At(p, "restore", "publish") /\ Ends(p)
        /\ UNCHANGED <<vault, Place, writer, backup, accepted, decayed>>
    BY DEF PublishRestored
  <1>2. /\ VaultType' /\ ProgressOK(proc[p]) /\ ~At(p, "migrate", "save")
    BY <1>1 DEF IInv, VaultType, At, Commands
  <1>3. ProcessesType' /\ Commands' /\ MigrateOK' /\ BackupOK'
    BY <1>1, <1>2, EndKeeps
  <1>4. RestoredOK'
    <2>1. CASE restored.shown
      BY <2>1 DEF PublishRestored, IInv, RestoredOK, RestoredWhole
    <2>2. CASE ~restored.shown
      <3>1. restored' = [shown |-> TRUE, tree |-> proc[p].tree, manifest |-> <<>>]
        BY <2>2 DEF PublishRestored
      <3>2. Whole(proc[p].tree)
        BY <1>1, <1>2, CompleteIsWhole DEF ProgressOK, At
      <3>3. restored'.tree = proc[p].tree /\ restored'.shown = TRUE /\ restored'.manifest = <<>>
        BY <3>1
      <3>4. IsCopy(restored')
        BY <1>2, <3>1, <3>3, EmptyTree DEF IsCopy, ProgressOK, IsProgress
      <3> QED
        BY <3>2, <3>3, <3>4 DEF RestoredOK, RestoredWhole
    <2> QED
      BY <2>1, <2>2
  <1> QED
    BY <1>2, <1>3, <1>4 DEF IInv

-----------------------------------------------------------------------------
(* The invariant holds at the start.                                       *)
LEMMA InitIInv ==
    ASSUME Init
    PROVE  IInv
  <1>1. IsCopy(Absent) /\ Absent.shown = FALSE
    BY EmptyTree DEF Absent, IsCopy
  <1>2. /\ VaultType /\ vault.bad = {}
    <2>1. CASE ~settings
      BY <2>1, EmptyTree DEF Init, VaultType
    <2>2. CASE settings
      <3>1. PICK objects \in SUBSET Objects, pass \in Passphrases :
              vault = [present |-> Internal \cup objects, bad |-> {},
                       index |-> objects, pass |-> pass,
                       version |-> [o \in Objects |-> 0]]
        BY <2>2 DEF Init
      <3>2. vault \in Tree /\ vault.bad = {} /\ vault.pass # Nil
        BY <3>1, Names DEF Tree, Files, Secrets
      <3> QED
        BY <3>2 DEF Init, VaultType
    <2> QED
      BY <2>1, <2>2
  <1>3. \A p \in Processes : proc[p] = Idle
    BY DEF Init
  <1>4. ProcessesType /\ Commands
    BY <1>3, IdleOK DEF Init, ProcessesType, Commands
  <1>5. RestoredOK
    BY <1>1 DEF Init, RestoredOK, RestoredWhole
  <1>6. BackupOK
    <2>1. accepted = FALSE /\ \A p \in Processes : proc[p].step # "vault"
      BY <1>3, IdleOK DEF Init
    <2>2. CASE backup = Absent
      BY <1>1, <2>1, <2>2 DEF BackupOK, VerifiedIsConsistent
    <2>3. CASE backup = [shown |-> TRUE, tree |-> vault,
                         manifest |-> [f \in vault.present |-> Digest(vault, f)]]
      <3>1. /\ backup.shown = TRUE /\ backup.tree = vault /\ vault \in Tree
            /\ backup.manifest = [f \in vault.present |-> Digest(vault, f)]
            /\ vault.present \subseteq Files
        BY <1>2, <2>3 DEF VaultType, Tree
      <3>2. IsCopy(backup)
        BY <2>3, <3>1 DEF IsCopy, IsManifest
      <3>3. \A f \in vault.present : Digest(vault, f).bad = (f \in vault.bad)
        BY DEF Digest
      <3>4. Made(backup)
        BY <1>2, <3>1, <3>3 DEF Made, VaultType
      <3> QED
        BY <2>1, <3>1, <3>2, <3>4 DEF BackupOK, VerifiedIsConsistent
    <2> QED
      BY <2>2, <2>3 DEF Init
  <1>7. MigrateOK
    <2>1. /\ home \in {"legacy", "current"} /\ named = home /\ torn = FALSE
          /\ unsynced = FALSE /\ settings \in BOOLEAN
      BY DEF Init
    <2>2. \A p \in Processes : ~Moving(p) /\ ~At(p, "migrate", "rename")
                               /\ ~At(p, "migrate", "save")
      BY <1>3, IdleOK DEF Moving, At
    <2> QED
      BY <2>1, <2>2 DEF MigrateOK, PlaceType, SettingsFollowHome
  <1> QED
    BY <1>2, <1>4, <1>5, <1>6, <1>7 DEF IInv

(* Every step keeps the invariant.                                         *)
LEMMA NextIInv ==
    ASSUME IInv, [Next]_vars
    PROVE  IInv'
  <1>1. CASE UNCHANGED vars
    <2>1. /\ UNCHANGED proc /\ UNCHANGED Place /\ UNCHANGED Copies
          /\ UNCHANGED <<vault, writer>>
      BY <1>1 DEF vars, Place, Copies
    <2> QED
      BY <2>1, StillFrame DEF IInv, VaultType
  <1>2. CASE \E kind \in {"put", "remove"}, o \in Objects : ServiceBegins(kind, o)
    BY <1>2, ServiceBeginsKeeps
  <1>3. CASE ServiceEnds \/ Decay \/ UseRestored
    BY <1>3, ServiceEndsKeeps, DecayKeeps, UseRestoredKeeps
  <1>4. ASSUME NEW p \in Processes, \E op \in Operations : Begin(p, op)
        PROVE  IInv'
    BY <1>4, BeginKeeps
  <1>5. ASSUME NEW p \in Processes,
               \/ Crash(p)
               \/ WritePublicConfig(p) \/ WriteIdentity(p) \/ WriteMetadata(p)
               \/ SaveFirstSettings(p) \/ ReplaceIdentity(p)
               \/ RenameHome(p) \/ SaveMigrated(p)
        PROVE  IInv'
    BY <1>5, CrashKeeps, InitWritesKeep, SaveFirstSettingsKeeps, ReplaceIdentityKeeps,
       RenameHomeKeeps, SaveMigratedKeeps
  <1>6. ASSUME NEW p \in Processes,
               \/ ListVault(p) \/ CopyToBackup(p) \/ PublishBackup(p)
               \/ VerifySums(p) \/ VerifyBackupVault(p)
               \/ CopyRestored(p) \/ PublishRestored(p)
        PROVE  IInv'
    BY <1>6, ListVaultKeeps, CopyToBackupKeeps, PublishBackupKeeps, VerifySumsKeeps,
       VerifyBackupVaultKeeps, CopyRestoredKeeps, PublishRestoredKeeps
  <1> QED
    BY <1>1, <1>2, <1>3, <1>4, <1>5, <1>6 DEF Next

(* The invariant holds in every state of every behaviour.                  *)
LEMMA Inductive == Spec => []IInv
  <1>1. Init => IInv
    BY InitIInv
  <1>2. IInv /\ [Next]_vars => IInv'
    BY NextIInv
  <1> QED
    BY <1>1, <1>2, PTL DEF Spec

(* RestoreBackup never publishes a partial or damaged vault, whatever      *)
(* decays while it copies and whichever processes die.                     *)
THEOREM RestoresWholeVaults == Spec => []RestoredWhole
  <1>1. IInv => RestoredWhole
    BY DEF IInv, RestoredOK
  <1> QED
    BY <1>1, Inductive, PTL

(* A backup that VerifyBackup accepted and that has not decayed since is a *)
(* consistent vault, also when a service wrote while it was copied.        *)
THEOREM AcceptsConsistentBackups == Spec => []VerifiedIsConsistent
  <1>1. IInv => VerifiedIsConsistent
    BY DEF IInv, BackupOK
  <1> QED
    BY <1>1, Inductive, PTL

(* The settings name the place of the home directory, unless a migration  *)
(* is at work, died between its rename and its save or could not move the  *)
(* directory back, or saved them before it failed and moved it back.       *)
THEOREM SettingsNameTheHome == Spec => []SettingsFollowHome
  <1>1. IInv => SettingsFollowHome
    BY DEF IInv, MigrateOK
  <1> QED
    BY <1>1, Inductive, PTL

(* No step but the use of it changes a restored vault: a second restore    *)
(* finds the destination taken (renameNoReplace in RestoreBackup).         *)
THEOREM NothingOverwritten == Spec => NeverOverwritten
  <1>1. [Next]_vars => [restored.shown => UseRestored \/ restored' = restored]_vars
    <2> SUFFICES ASSUME Next, restored.shown
                 PROVE  UseRestored \/ restored' = restored
      BY DEF vars
    <2>1. CASE \E kind \in {"put", "remove"}, o \in Objects : ServiceBegins(kind, o)
      BY <2>1 DEF ServiceBegins, Copies
    <2>2. CASE ServiceEnds \/ Decay \/ UseRestored
      BY <2>2 DEF ServiceEnds, Decay, Copies
    <2>3. ASSUME NEW p \in Processes, \E op \in Operations : Begin(p, op)
          PROVE  restored' = restored
      BY <2>3 DEF Begin, Copies
    <2>4. ASSUME NEW p \in Processes,
                 \/ Crash(p)
                 \/ WritePublicConfig(p) \/ WriteIdentity(p) \/ WriteMetadata(p)
                 \/ SaveFirstSettings(p) \/ ReplaceIdentity(p)
                 \/ RenameHome(p) \/ SaveMigrated(p)
          PROVE  restored' = restored
      BY <2>4 DEF Crash, WritePublicConfig, WriteIdentity, WriteMetadata, InitWrite,
         SaveFirstSettings, ReplaceIdentity, RenameHome, SaveMigrated, Copies
    <2>5. ASSUME NEW p \in Processes,
                 \/ ListVault(p) \/ CopyToBackup(p) \/ PublishBackup(p)
                 \/ VerifySums(p) \/ VerifyBackupVault(p)
                 \/ CopyRestored(p) \/ PublishRestored(p)
          PROVE  restored' = restored
      BY <2>5 DEF ListVault, CopyToBackup, PublishBackup, VerifySums,
         VerifyBackupVault, CopyRestored, PublishRestored, Copies
    <2> QED
      BY <2>1, <2>2, <2>3, <2>4, <2>5 DEF Next
  <1> QED
    BY <1>1, PTL DEF Spec, NeverOverwritten
=============================================================================
