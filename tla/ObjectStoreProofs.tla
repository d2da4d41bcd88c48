-------------------------- MODULE ObjectStoreProofs --------------------------
(* Proofs about ObjectStore, for every set of objects, contents and        *)
(* processes and every bound on faults: its types, that it implements      *)
(* VaultContract, and what its metadata index guarantees.  Where a theorem *)
(* leaves `recovery purge' out, by the hypothesis "purge" \notin Roles, it *)
(* is because a purge takes no lock that keeps the server from running     *)
(* beside it.                                                              *)
EXTENDS ObjectStore, TLAPS

-----------------------------------------------------------------------------
(* The updates of the metadata value are well-typed.                       *)

(* Every update function of the code maps metadata to metadata.            *)
LEMMA UpdatesTyped ==
    ASSUME NEW m \in Metadata, NEW o \in Objects, NEW size \in Sizes,
           NEW old \in Metadata
    PROVE  /\ SetFileMeta(m, o, size) \in Metadata
           /\ DeleteFileMetadata(m, o) \in Metadata
           /\ SetLinkSource(m, o) \in Metadata
           /\ MarkLinkRecovery(m, o) \in Metadata
           /\ MarkLinkOrphan(m, o) \in Metadata
           /\ ClearLinkOrphan(m, o) \in Metadata
           /\ RestoreUnprotect(m, old, o) \in Metadata
<1> USE DEF Metadata, Sizes
<1>1. SetFileMeta(m, o, size) \in Metadata
  BY DEF SetFileMeta
<1>2. DeleteFileMetadata(m, o) \in Metadata
  BY DEF DeleteFileMetadata
<1>3. SetLinkSource(m, o) \in Metadata
  BY DEF SetLinkSource
<1>4. MarkLinkRecovery(m, o) \in Metadata
  BY DEF MarkLinkRecovery
<1>5. RestoreUnprotect(m, old, o) \in Metadata
  BY DEF RestoreUnprotect
<1>6. MarkLinkOrphan(m, o) \in Metadata /\ ClearLinkOrphan(m, o) \in Metadata
  BY DEF MarkLinkOrphan, ClearLinkOrphan
<1> QED
  BY <1>1, <1>2, <1>3, <1>4, <1>5, <1>6

(* Reconciliation at load time maps metadata to metadata.                  *)
LEMMA ReconcileTyped ==
    ASSUME NEW m \in Metadata
    PROVE  Reconcile(m) \in Metadata
BY ConstantsAssumption DEF Reconcile, Metadata, Sizes, Indexed

(* The empty index is metadata.                                            *)
LEMMA NoMetadataTyped == NoMetadata \in Metadata
BY DEF NoMetadata, Metadata, Sizes

(* What an operation finds in memory or on disk is a size.                 *)
LEMMA FileMetaTyped ==
    ASSUME TypeOK, NEW p \in Procs, NEW o \in Objects
    PROVE  FileMeta(p, o) \in Sizes
BY ConstantsAssumption DEF FileMeta, TypeOK, Metadata, Sizes

(* A day of ageing keeps every file a file.                                *)
LEMMA AgedTyped ==
    ASSUME NEW f \in File \cup {NoFile}
    PROVE  Aged(f) \in File \cup {NoFile}
BY DEF Aged, File

(* The contents under an object's name.                                    *)
LEMMA HoldsTyped ==
    ASSUME TypeOK, NEW o \in Objects
    PROVE  Holds(o) \in Sizes
BY DEF TypeOK, Holds, File, Sizes

-----------------------------------------------------------------------------
(* Type correctness, one step per group of actions.                        *)

(* The variables a metadata update changes keep their types, saved or not. *)
IndexTyped ==
    /\ meta \in Metadata
    /\ mem \in [Procs -> Metadata]
    /\ faults \in 0 .. MaxFaults

(* A save of the index, whole, refused or interrupted, leaves it well      *)
(* typed.                                                                  *)
LEMMA SaveTyped ==
    ASSUME TypeOK, NEW p \in Procs, NEW m \in Metadata,
           \/ Saved(p, m) \/ SaveFails(p, m)
           \/ Fault("io") /\ (Saves(p, m) \/ FailsToSave(p, m))
    PROVE  IndexTyped'
<1>1. CASE Saved(p, m)
  BY <1>1 DEF Saved, Saves, TypeOK, IndexTyped
<1>2. CASE Fault("io") /\ Saves(p, m)
  BY <1>2, ConstantsAssumption DEF Fault, Saves, TypeOK, IndexTyped
<1>3. CASE Fault("io") /\ FailsToSave(p, m)
  BY <1>3, ConstantsAssumption DEF Fault, FailsToSave, TypeOK, IndexTyped
<1> QED
  BY <1>1, <1>2, <1>3 DEF SaveFails

(* Loading, refreshing, exiting and dying preserve the types.              *)
LEMMA ProcessTyped ==
    ASSUME TypeOK, NEW p \in Procs, Process(p)
    PROVE  TypeOK'
<1> USE DEF TypeOK
<1>0. Down \in ProcState
  BY DEF Down, ProcState
<1>1. ASSUME NEW role \in Roles, LoadCleanup(p, role)
      PROVE  TypeOK'
  <2>1. [role |-> role, phase |-> "cleaned"] \in ProcState
    BY ConstantsAssumption DEF ProcState
  <2> QED
    BY <1>1, <2>1 DEF LoadCleanup, opVars
<1>2. CASE LoadMetadata(p)
  <2>1. Reconcile(meta) \in Metadata
    BY ReconcileTyped
  <2>2. IndexTyped'
    BY <1>2, <2>1, SaveTyped DEF LoadMetadata
  <2>3. [role |-> proc[p].role, phase |-> "up"] \in ProcState
    BY DEF ProcState
  <2>4. proc' \in [Procs -> ProcState]
    BY <1>0, <1>2, <2>3 DEF LoadMetadata
  <2> QED
    BY <1>2, <2>2, <2>4 DEF LoadMetadata, opVars, IndexTyped
<1>3. CASE RefreshMetadata(p)
  BY <1>3 DEF RefreshMetadata, diskVars, opVars
<1>4. CASE Exit(p)
  BY <1>0, <1>4, NoMetadataTyped DEF Exit, ForgetProcess, diskVars
<1>5. CASE Crash(p)
  <2>1. Abandoned(p) \in SUBSET BOOLEAN
    BY DEF Abandoned, File
  <2>2. litter' \in SUBSET BOOLEAN
    BY <1>5, <2>1 DEF Crash
  <2>3. faults' \in 0 .. MaxFaults
    BY <1>5, ConstantsAssumption DEF Crash, Fault
  <2> QED
    BY <1>0, <1>5, <2>2, <2>3, NoMetadataTyped
    DEF Crash, ForgetProcess, Steps, Results, Sizes
<1> QED
  BY <1>1, <1>2, <1>3, <1>4, <1>5 DEF Process

(* The local state of the operations and the files of the vault.           *)
OpTyped ==
    /\ pc \in [Procs -> [Objects -> Steps]]
    /\ val \in [Procs -> [Objects -> Sizes]]
    /\ was \in [Procs -> [Objects -> Sizes]]
    /\ result \in [Objects -> Results]

FilesTyped ==
    /\ cipher \in [Objects -> File \cup {NoFile}]
    /\ temp \in [Procs -> [Objects -> File \cup {NoFile}]]
    /\ litter \in SUBSET BOOLEAN

SavedTyped == saved \in [Procs -> [Objects -> Metadata]]

(* TypeOK is the conjunction of the parts, before and after a step.        *)
LEMMA TypeParts ==
    /\ TypeOK => IndexTyped /\ OpTyped /\ FilesTyped /\ SavedTyped
                 /\ proc \in [Procs -> ProcState]
    /\ IndexTyped' /\ OpTyped' /\ FilesTyped' /\ SavedTyped'
          /\ proc' \in [Procs -> ProcState] => TypeOK'
BY DEF TypeOK, IndexTyped, OpTyped, FilesTyped, SavedTyped

(* Beginning, advancing and returning keep the operation state typed.      *)
LEMMA StepsTyped ==
    ASSUME TypeOK, NEW p \in Procs, NEW o \in Objects,
           NEW step \in Steps, NEW v \in Sizes, NEW r \in Results
    PROVE  /\ Begin(p, o, step, v) => OpTyped'
           /\ Advance(p, o, step) => OpTyped'
           /\ Return(p, o, r) => OpTyped' /\ SavedTyped'
<1> Holds(o) \in Sizes
  BY HoldsTyped
<1>1. Begin(p, o, step, v) => OpTyped'
  BY DEF TypeOK, Begin, OpTyped, Results
<1>2. Advance(p, o, step) => OpTyped'
  BY DEF TypeOK, Advance, OpTyped
<1>3. Return(p, o, r) => OpTyped' /\ SavedTyped'
  BY NoMetadataTyped DEF TypeOK, Return, OpTyped, SavedTyped, Steps, Sizes
<1> QED
  BY <1>1, <1>2, <1>3

(* So do the moves of ciphertext and transaction files.                    *)
LEMMA MovesTyped ==
    ASSUME TypeOK, NEW p \in Procs, NEW o \in Objects,
           NEW f \in File \cup {NoFile}
    PROVE  /\ SetTemp(p, o, f) => temp' \in [Procs -> [Objects -> File \cup {NoFile}]]
           /\ SetCipher(o, f) => cipher' \in [Objects -> File \cup {NoFile}]
           /\ DropTemp(p, o, f) =>
                 /\ temp' \in [Procs -> [Objects -> File \cup {NoFile}]]
                 /\ litter' \in SUBSET BOOLEAN
<1>1. SetTemp(p, o, f) => temp' \in [Procs -> [Objects -> File \cup {NoFile}]]
  BY DEF TypeOK, SetTemp
<1>2. SetCipher(o, f) => cipher' \in [Objects -> File \cup {NoFile}]
  BY DEF TypeOK, SetCipher
<1>3. SetTemp(p, o, NoFile) => temp' \in [Procs -> [Objects -> File \cup {NoFile}]]
  BY DEF TypeOK, SetTemp
<1>4. DropTemp(p, o, f) => litter' \in SUBSET BOOLEAN
  BY DEF TypeOK, DropTemp, File
<1> QED
  BY <1>1, <1>2, <1>3, <1>4 DEF DropTemp

(* Every step of persistFile preserves the types.                          *)
LEMMA PersistTyped ==
    ASSUME TypeOK, NEW p \in Procs, NEW o \in Objects, Persist(p, o)
    PROVE  TypeOK'
<1> /\ "staged" \in Steps /\ "swapped" \in Steps /\ "indexed" \in Steps
    /\ "rollback" \in Steps /\ "error" \in Results /\ "written" \in Results
  BY DEF Steps, Results
<1> /\ IndexTyped /\ OpTyped /\ FilesTyped /\ SavedTyped
    /\ proc \in [Procs -> ProcState]
  BY TypeParts
<1> /\ cipher[o] \in File \cup {NoFile} /\ temp[p][o] \in File \cup {NoFile}
    /\ NoFile \in File \cup {NoFile}
    /\ val[p][o] \in Sizes /\ meta \in Metadata
  BY DEF TypeOK
<1> SetFileMeta(meta, o, val[p][o]) \in Metadata
  BY UpdatesTyped
<1>1. ASSUME NEW c \in Contents, PersistStage(p, o, c)
      PROVE  TypeOK'
  <2>1. c \in Sizes /\ [data |-> c, old |-> FALSE] \in File \cup {NoFile}
    BY DEF Sizes, File
  <2>2. OpTyped' /\ temp' \in [Procs -> [Objects -> File \cup {NoFile}]]
    BY <1>1, <2>1, StepsTyped, MovesTyped DEF PersistStage
  <2> QED
    BY <1>1, <2>2, TypeParts
    DEF PersistStage, IndexTyped, FilesTyped, SavedTyped
<1>2. CASE PersistAbort(p, o)
  <2>1. OpTyped' /\ SavedTyped'
    BY <1>2, StepsTyped DEF PersistAbort
  <2>2. FilesTyped'
    BY <1>2, MovesTyped DEF PersistAbort, FilesTyped
  <2>3. IndexTyped' /\ proc' \in [Procs -> ProcState]
    BY <1>2, ConstantsAssumption DEF PersistAbort, IndexTyped, Fault
  <2> QED
    BY <2>1, <2>2, <2>3, TypeParts
<1>3. CASE PersistSwap(p, o)
  <2>1. OpTyped'
    BY <1>3, HoldsTyped DEF PersistSwap, OpTyped
  <2>2. FilesTyped'
    BY <1>3, MovesTyped DEF PersistSwap, FilesTyped
  <2> QED
    BY <1>3, <2>1, <2>2, TypeParts DEF PersistSwap, IndexTyped, SavedTyped
<1>4. CASE PersistIndex(p, o) \/ PersistIndexFails(p, o)
  <2>1. OpTyped' /\ IndexTyped'
    BY <1>4, StepsTyped, SaveTyped DEF PersistIndex, PersistIndexFails
  <2> QED
    BY <1>4, <2>1, TypeParts
    DEF PersistIndex, PersistIndexFails, FilesTyped, SavedTyped
<1>5. CASE PersistRollback(p, o)
  <2>1. OpTyped' /\ SavedTyped'
    BY <1>5, StepsTyped DEF PersistRollback
  <2>2. FilesTyped'
    BY <1>5, MovesTyped DEF PersistRollback, FilesTyped
  <2> QED
    BY <1>5, <2>1, <2>2, TypeParts DEF PersistRollback, IndexTyped
<1>6. CASE PersistRollbackFails(p, o)
  <2>1. OpTyped' /\ SavedTyped'
    BY <1>6, StepsTyped DEF PersistRollbackFails
  <2>2. FilesTyped'
    BY <1>6, MovesTyped DEF PersistRollbackFails, FilesTyped
  <2>3. IndexTyped' /\ proc' \in [Procs -> ProcState]
    BY <1>6, ConstantsAssumption DEF PersistRollbackFails, IndexTyped, Fault
  <2> QED
    BY <2>1, <2>2, <2>3, TypeParts
<1>7. CASE PersistFinish(p, o)
  <2>1. OpTyped' /\ SavedTyped'
    BY <1>7, StepsTyped DEF PersistFinish
  <2>2. FilesTyped'
    BY <1>7, MovesTyped DEF PersistFinish, FilesTyped
  <2>3. IndexTyped' /\ proc' \in [Procs -> ProcState]
    BY <1>7, ConstantsAssumption DEF PersistFinish, IndexTyped, Fault
  <2> QED
    BY <2>1, <2>2, <2>3, TypeParts
<1> QED
  BY <1>1, <1>2, <1>3, <1>4, <1>5, <1>6, <1>7 DEF Persist

(* Every step of removeProtectedFileLocked preserves the types.            *)
LEMMA RemoveTyped ==
    ASSUME TypeOK, NEW p \in Procs, NEW o \in Objects, Remove(p, o)
    PROVE  TypeOK'
<1> /\ "parked" \in Steps /\ "unindexed" \in Steps /\ "restore" \in Steps
    /\ "error" \in Results /\ "unlinked" \in Results /\ None \in Sizes
  BY DEF Steps, Results, Sizes
<1> /\ IndexTyped /\ OpTyped /\ FilesTyped /\ SavedTyped
    /\ proc \in [Procs -> ProcState]
  BY TypeParts
<1> /\ cipher[o] \in File \cup {NoFile} /\ temp[p][o] \in File \cup {NoFile}
    /\ NoFile \in File \cup {NoFile} /\ meta \in Metadata
  BY DEF TypeOK
<1> DeleteFileMetadata(meta, o) \in Metadata
  BY UpdatesTyped DEF Sizes
<1>1. CASE RemovePark(p, o)
  <2>1. FileMeta(p, o) \in Sizes /\ None \in Sizes
    BY FileMetaTyped DEF Sizes
  <2>2. SetFileMeta(NoMetadata, o, FileMeta(p, o)) \in Metadata
    BY <2>1, NoMetadataTyped, UpdatesTyped
  <2>3. OpTyped'
    BY <1>1, <2>1, StepsTyped DEF RemovePark
  <2>4. SavedTyped'
    BY <1>1, <2>2 DEF RemovePark, SetSaved, SavedTyped
  <2>5. FilesTyped'
    BY <1>1, MovesTyped DEF RemovePark, FilesTyped
  <2>6. IndexTyped' /\ proc' \in [Procs -> ProcState]
    BY <1>1 DEF RemovePark, Refreshed, IndexTyped
  <2> QED
    BY <2>3, <2>4, <2>5, <2>6, TypeParts
<1>2. CASE RemoveUnindex(p, o) \/ RemoveUnindexFails(p, o)
  <2>1. OpTyped' /\ IndexTyped'
    BY <1>2, StepsTyped, SaveTyped DEF RemoveUnindex, RemoveUnindexFails
  <2> QED
    BY <1>2, <2>1, TypeParts
    DEF RemoveUnindex, RemoveUnindexFails, FilesTyped, SavedTyped
<1>3. CASE RemoveFinish(p, o)
  <2>1. OpTyped' /\ SavedTyped'
    BY <1>3, StepsTyped DEF RemoveFinish
  <2>2. FilesTyped'
    BY <1>3, MovesTyped DEF RemoveFinish, FilesTyped
  <2>3. IndexTyped' /\ proc' \in [Procs -> ProcState]
    BY <1>3, ConstantsAssumption DEF RemoveFinish, IndexTyped, Fault
  <2> QED
    BY <2>1, <2>2, <2>3, TypeParts
<1>4. CASE RemoveFinishFails(p, o)
  <2>1. saved[p][o].files[o] \in Sizes
    BY DEF TypeOK, Metadata
  <2>2. SetFileMeta(meta, o, saved[p][o].files[o]) \in Metadata
    BY <2>1, UpdatesTyped
  <2>3. OpTyped' /\ IndexTyped'
    BY <1>4, <2>2, StepsTyped, SaveTyped DEF RemoveFinishFails
  <2> QED
    BY <1>4, <2>3, TypeParts DEF RemoveFinishFails, FilesTyped, SavedTyped
<1>5. CASE RemoveRestore(p, o)
  <2>1. OpTyped' /\ SavedTyped'
    BY <1>5, StepsTyped DEF RemoveRestore
  <2>2. FilesTyped'
    BY <1>5, MovesTyped DEF RemoveRestore, FilesTyped
  <2> QED
    BY <1>5, <2>1, <2>2, TypeParts DEF RemoveRestore, IndexTyped
<1>6. CASE RemoveRestoreFails(p, o)
  <2>1. OpTyped' /\ SavedTyped'
    BY <1>6, StepsTyped DEF RemoveRestoreFails
  <2>2. litter' \in SUBSET BOOLEAN
    BY <1>6 DEF RemoveRestoreFails, FilesTyped, File
  <2>3. FilesTyped'
    BY <1>6, <2>2, MovesTyped DEF RemoveRestoreFails, FilesTyped
  <2>4. IndexTyped' /\ proc' \in [Procs -> ProcState]
    BY <1>6, ConstantsAssumption DEF RemoveRestoreFails, IndexTyped, Fault
  <2> QED
    BY <2>1, <2>3, <2>4, TypeParts
<1> QED
  BY <1>1, <1>2, <1>3, <1>4, <1>5, <1>6 DEF Remove

(* Every step of removeMaterializedCiphertext preserves the types.         *)
LEMMA UnprotectTyped ==
    ASSUME TypeOK, NEW p \in Procs, NEW o \in Objects, Unprotect(p, o)
    PROVE  TypeOK'
<1> /\ "forgotten" \in Steps /\ "error" \in Results /\ "erased" \in Results
    /\ None \in Sizes
  BY DEF Steps, Results, Sizes
<1> /\ IndexTyped /\ OpTyped /\ FilesTyped /\ SavedTyped
    /\ proc \in [Procs -> ProcState]
  BY TypeParts
<1> /\ NoFile \in File \cup {NoFile} /\ meta \in Metadata
    /\ mem[p] \in Metadata /\ saved[p][o] \in Metadata
  BY DEF TypeOK
<1> /\ DeleteFileMetadata(meta, o) \in Metadata
    /\ RestoreUnprotect(meta, saved[p][o], o) \in Metadata
  BY UpdatesTyped
<1>1. CASE UnprotectUnindex(p, o)
  <2>1. OpTyped' /\ IndexTyped'
    BY <1>1, StepsTyped, SaveTyped DEF UnprotectUnindex
  <2>2. SavedTyped'
    BY <1>1 DEF UnprotectUnindex, SetSaved, SavedTyped
  <2> QED
    BY <1>1, <2>1, <2>2, TypeParts DEF UnprotectUnindex, FilesTyped
<1>2. CASE UnprotectUnindexFails(p, o)
  <2>1. IndexTyped'
    BY <1>2, SaveTyped DEF UnprotectUnindexFails
  <2>2. OpTyped'
    BY <1>2 DEF UnprotectUnindexFails, OpTyped
  <2> QED
    BY <1>2, <2>1, <2>2, TypeParts
    DEF UnprotectUnindexFails, FilesTyped, SavedTyped
<1>3. CASE UnprotectErase(p, o)
  <2>1. OpTyped' /\ SavedTyped'
    BY <1>3, StepsTyped DEF UnprotectErase
  <2>2. FilesTyped'
    BY <1>3, MovesTyped DEF UnprotectErase, FilesTyped
  <2> QED
    BY <1>3, <2>1, <2>2, TypeParts DEF UnprotectErase, IndexTyped
<1>4. CASE UnprotectEraseFails(p, o)
  <2>1. OpTyped' /\ SavedTyped'
    BY <1>4, StepsTyped DEF UnprotectEraseFails
  <2>2. IndexTyped'
    BY <1>4, SaveTyped DEF UnprotectEraseFails
  <2> QED
    BY <1>4, <2>1, <2>2, TypeParts DEF UnprotectEraseFails, FilesTyped
<1> QED
  BY <1>1, <1>2, <1>3, <1>4 DEF Unprotect

(* The metadata-only operations and the passing of a day preserve the      *)
(* types.                                                                  *)
LEMMA OthersTyped ==
    ASSUME TypeOK,
           \/ DayPasses
           \/ \E p \in Procs, o \in Objects : Chmod(p, o)
           \/ \E p \in Procs, o \in Synced : SyncLink(p, o)
           \/ \E o \in Objects : RegisterLink(o)
    PROVE  TypeOK'
<1> /\ IndexTyped /\ OpTyped /\ FilesTyped /\ SavedTyped
    /\ proc \in [Procs -> ProcState] /\ meta \in Metadata
  BY TypeParts DEF TypeOK
<1>1. CASE DayPasses
  <2>1. FilesTyped'
    BY <1>1, AgedTyped DEF DayPasses, FilesTyped
  <2> QED
    BY <1>1, <2>1, TypeParts
    DEF DayPasses, opVars, IndexTyped, OpTyped, SavedTyped
<1>2. ASSUME NEW p \in Procs, NEW o \in Objects, Chmod(p, o)
      PROVE  TypeOK'
  <2>1. SetFileMeta(meta, o, FileMeta(p, o)) \in Metadata
    BY FileMetaTyped, UpdatesTyped
  <2>2. CASE Saved(p, SetFileMeta(meta, o, FileMeta(p, o)))
    BY <1>2, <2>1, <2>2, SaveTyped, TypeParts
    DEF Chmod, opVars, OpTyped, FilesTyped, SavedTyped
  <2>3. CASE Fault("io") /\ mem' = Refreshed(p, o)
             /\ meta' \in {meta, SetFileMeta(meta, o, FileMeta(p, o))}
    <3>1. IndexTyped'
      BY <2>1, <2>3, ConstantsAssumption
      DEF Fault, Refreshed, TypeOK, IndexTyped
    <3> QED
      BY <1>2, <3>1, TypeParts
      DEF Chmod, opVars, OpTyped, FilesTyped, SavedTyped
  <2> QED
    BY <1>2, <2>2, <2>3 DEF Chmod
<1>3. ASSUME NEW p \in Procs, NEW o \in Synced, SyncLink(p, o)
      PROVE  TypeOK'
  <2>1. PICK m \in Metadata : UpdateLink(p, m)
    BY <1>3, UpdatesTyped, ConstantsAssumption
    DEF SyncLink, MoveLink, MarkOrphan, ClearOrphan, MarkRecovery, Sizes
  <2>2. IndexTyped'
    BY <2>1, SaveTyped DEF UpdateLink
  <2> QED
    BY <2>1, <2>2, TypeParts
    DEF UpdateLink, opVars, OpTyped, FilesTyped, SavedTyped
<1>4. ASSUME NEW o \in Objects, RegisterLink(o)
      PROVE  TypeOK'
  <2>1. SetLinkSource(meta, o) \in Metadata
    BY UpdatesTyped DEF Sizes
  <2> QED
    BY <1>4, <2>1, TypeParts
    DEF RegisterLink, opVars, IndexTyped, OpTyped, FilesTyped, SavedTyped
<1> QED
  BY <1>1, <1>2, <1>3, <1>4

(* The variables of the object store always have their types: whatever     *)
(* fails or dies, every file, index entry and step of an operation is one  *)
(* the code knows.                                                         *)
THEOREM TypeCorrect == Spec => []TypeOK
<1>1. Init => TypeOK
  <2> SUFFICES ASSUME Init PROVE TypeOK
    OBVIOUS
  <2>1. Down \in ProcState
    BY DEF Down, ProcState
  <2> QED
    BY <2>1, NoMetadataTyped, ConstantsAssumption
    DEF Init, TypeOK, Steps, Results, Sizes
<1>2. TypeOK /\ [Next]_vars => TypeOK'
  <2> SUFFICES ASSUME TypeOK, [Next]_vars PROVE TypeOK'
    OBVIOUS
  <2>1. CASE UNCHANGED vars
    BY <2>1 DEF vars, TypeOK
  <2>2. CASE Next
    BY <2>2, ProcessTyped, PersistTyped, RemoveTyped, UnprotectTyped,
       OthersTyped DEF Next
  <2> QED
    BY <2>1, <2>2
<1> QED
  BY <1>1, <1>2, PTL DEF Spec

-----------------------------------------------------------------------------
(* The inductive invariant.                                                *)

Active(p, o) == pc[p][o] # "idle"

(* The instance lock: at most one process operates on objects.             *)
Coordination ==
    /\ \A p \in Procs : proc[p].role \in Roles \cup {"none"}
    /\ \A p \in Procs : proc[p].phase # "down" <=> proc[p].role # "none"
    /\ \A p, q \in Procs : HoldsInstanceLock(p) /\ HoldsInstanceLock(q) => p = q
    /\ \A p \in Procs, o \in Objects : Active(p, o) =>
          /\ proc[p].phase = "up"
          /\ proc[p].role = IF pc[p][o] = "forgotten" THEN "unprotect"
                            ELSE "serve"

Data(f) == IF f = NoFile THEN None ELSE f.data

(* What the files of an operation hold at each of its steps.               *)
StepFacts(p, o) ==
    /\ pc[p][o] = "idle" => temp[p][o] = NoFile
    /\ pc[p][o] = "staged" =>
          /\ temp[p][o] # NoFile
          /\ temp[p][o].data = val[p][o] /\ ~temp[p][o].old
          /\ was[p][o] = Holds(o)
    /\ pc[p][o] \in {"swapped", "indexed", "rollback"} =>
          /\ cipher[o] # NoFile
          /\ cipher[o].data = val[p][o]
          /\ temp[p][o] # NoFile => temp[p][o].data = was[p][o]
          /\ was[p][o] = None => temp[p][o] = NoFile
    /\ pc[p][o] \in {"parked", "unindexed", "restore"} =>
          /\ cipher[o] = NoFile /\ val[p][o] = None
          /\ temp[p][o] # NoFile => temp[p][o].data = was[p][o]
    /\ pc[p][o] = "forgotten" =>
          /\ temp[p][o] = NoFile /\ val[p][o] = None
          /\ was[p][o] = Holds(o)

OperationFacts == \A p \in Procs, o \in Objects : StepFacts(p, o)

IInv == TypeOK /\ Coordination /\ OperationFacts

(* Initially nothing runs and there is no file.                            *)
LEMMA InitIInv == Init => IInv
<1> SUFFICES ASSUME Init PROVE IInv
  OBVIOUS
<1>1. TypeOK
  <2>1. Down \in ProcState
    BY DEF Down, ProcState
  <2> QED
    BY <2>1, NoMetadataTyped, ConstantsAssumption
    DEF Init, TypeOK, Steps, Results, Sizes
<1>2. Coordination
  BY DEF Init, Coordination, Down, Active, HoldsInstanceLock
<1>3. OperationFacts
  BY DEF Init, OperationFacts, StepFacts
<1> QED
  BY <1>1, <1>2, <1>3 DEF IInv

(* Only one process is active on an object.                                *)
LEMMA Exclusive ==
    ASSUME IInv, NEW p \in Procs, NEW q \in Procs, NEW o \in Objects,
           Active(p, o), q # p
    PROVE  pc[q][o] = "idle"
BY DEF IInv, Coordination, Active, HoldsInstanceLock

(* A process that may begin an operation is alone in operating.            *)
LEMMA Alone ==
    ASSUME IInv, NEW p \in Procs, NEW q \in Procs, NEW o \in Objects,
           HoldsInstanceLock(p), q # p
    PROVE  pc[q][o] = "idle"
BY DEF IInv, Coordination, Active, HoldsInstanceLock

-----------------------------------------------------------------------------
(* Loading, exiting and dying keep the instance lock exclusive.            *)

(* A process that loads, exits or dies leaves at most one with the lock.   *)
LEMMA ProcessCoordination ==
    ASSUME IInv, "purge" \notin Roles, NEW p \in Procs, Process(p)
    PROVE  Coordination'
<1> USE DEF Coordination, Active, HoldsInstanceLock
<1> /\ TypeOK /\ Coordination
    /\ proc \in [Procs -> ProcState]
    /\ pc \in [Procs -> [Objects -> Steps]]
  BY DEF IInv, TypeOK
<1>1. ASSUME NEW role \in Roles, LoadCleanup(p, role)
      PROVE  Coordination'
  <2>1. pc' = pc /\ proc[p] = Down
        /\ proc' = [proc EXCEPT ![p] = [role |-> role, phase |-> "cleaned"]]
    BY <1>1 DEF LoadCleanup, opVars
  <2>2. role \in {"serve", "unprotect"} =>
           \A q \in Procs : proc[q].role \notin {"serve", "unprotect"}
    BY <1>1 DEF LoadCleanup
  <2>3. role # "none"
    BY ConstantsAssumption DEF AllRoles
  <2> QED
    BY <2>1, <2>2, <2>3 DEF Down
<1>2. CASE LoadMetadata(p)
  <2>1. pc' = pc /\ proc[p].phase = "cleaned"
    BY <1>2 DEF LoadMetadata, opVars
  <2>2. \/ proc' = [proc EXCEPT ![p] = [role |-> proc[p].role, phase |-> "up"]]
        \/ proc' = [proc EXCEPT ![p] = Down]
    BY <1>2, Zenon DEF LoadMetadata
  <2>3. /\ \A q \in Procs : q # p => proc'[q] = proc[q]
        /\ \/ proc'[p].role = proc[p].role /\ proc'[p].phase = "up"
           \/ proc'[p].role = "none" /\ proc'[p].phase = "down"
    BY <2>2 DEF Down
  <2>4. \A o \in Objects : pc[p][o] = "idle"
    BY <2>1
  <2>5. \A q \in Procs : proc'[q].role \in {proc[q].role, "none"}
    BY <2>3
  <2>6. \A q \in Procs : proc'[q].role \in Roles \cup {"none"}
    BY <2>5
  <2>7. \A q \in Procs : proc'[q].phase # "down" <=> proc'[q].role # "none"
    BY <2>1, <2>3
  <2>8. \A q, r \in Procs : HoldsInstanceLock(q)' /\ HoldsInstanceLock(r)'
                               => q = r
    BY <2>5
  <2>9. \A q \in Procs, o \in Objects : Active(q, o)' =>
           /\ proc'[q].phase = "up"
           /\ proc'[q].role = IF pc[q][o] = "forgotten" THEN "unprotect"
                              ELSE "serve"
    BY <2>1, <2>3, <2>4
  <2> QED
    BY <2>1, <2>6, <2>7, <2>8, <2>9
<1>3. CASE RefreshMetadata(p)
  BY <1>3 DEF RefreshMetadata, opVars
<1>4. CASE Exit(p)
  <2>1. pc' = pc /\ Idle(p) /\ proc' = [proc EXCEPT ![p] = Down]
    BY <1>4 DEF Exit, ForgetProcess
  <2> QED
    BY <2>1 DEF Down, Idle
<1>5. CASE Crash(p)
  <2>1. /\ pc' = [pc EXCEPT ![p] = [o \in Objects |-> "idle"]]
        /\ proc' = [proc EXCEPT ![p] = Down]
    BY <1>5 DEF Crash, ForgetProcess
  <2> QED
    BY <2>1 DEF Down
<1> QED
  BY <1>1, <1>2, <1>3, <1>4, <1>5 DEF Process

(* The step an operation moves to belongs to the role of its process.      *)
OperationMove(p, o) ==
    /\ proc' = proc
    /\ \E step \in Steps :
          /\ pc' = [pc EXCEPT ![p] = [pc[p] EXCEPT ![o] = step]]
          /\ step # "idle" =>
                /\ proc[p].phase = "up"
                /\ proc[p].role = IF step = "forgotten" THEN "unprotect"
                                  ELSE "serve"

(* Every step of an operation is taken by a process of the right role.     *)
LEMMA OperationMoves ==
    ASSUME IInv, "purge" \notin Roles, NEW p \in Procs, NEW o \in Objects,
           Persist(p, o) \/ Remove(p, o) \/ Unprotect(p, o)
    PROVE  OperationMove(p, o)
<1> USE DEF OperationMove
<1> TypeOK /\ Coordination
  BY DEF IInv
<1>a. pc[p][o] # "idle" =>
        /\ proc[p].phase = "up"
        /\ proc[p].role = IF pc[p][o] = "forgotten" THEN "unprotect" ELSE "serve"
  BY DEF Coordination, Active
<1>b. proc[p].role # "purge"
  BY DEF Coordination, AllRoles
<1>1. ASSUME NEW c \in Contents, PersistStage(p, o, c)
      PROVE  OperationMove(p, o)
  BY <1>1 DEF PersistStage, Begin, Running, Steps
<1>2. CASE PersistAbort(p, o) \/ PersistRollback(p, o)
           \/ PersistRollbackFails(p, o) \/ PersistFinish(p, o)
  BY <1>2 DEF PersistAbort, PersistRollback, PersistRollbackFails,
              PersistFinish, Return, Steps
<1>3. CASE PersistSwap(p, o) \/ PersistIndex(p, o) \/ PersistIndexFails(p, o)
  BY <1>a, <1>3 DEF PersistSwap, PersistIndex, PersistIndexFails, Advance, Steps
<1>4. CASE RemovePark(p, o)
  BY <1>b, <1>4 DEF RemovePark, Begin, Running, Steps
<1>5. CASE RemoveUnindex(p, o) \/ RemoveUnindexFails(p, o)
           \/ RemoveFinishFails(p, o)
  BY <1>a, <1>5 DEF RemoveUnindex, RemoveUnindexFails, RemoveFinishFails,
                    Advance, Steps
<1>6. CASE RemoveFinish(p, o) \/ RemoveRestore(p, o) \/ RemoveRestoreFails(p, o)
  BY <1>6 DEF RemoveFinish, RemoveRestore, RemoveRestoreFails, Return, Steps
<1>7. CASE UnprotectUnindex(p, o)
  BY <1>7 DEF UnprotectUnindex, Begin, Running, Steps
<1>8. CASE UnprotectUnindexFails(p, o)
  <2>1. pc' = pc /\ proc' = proc /\ pc[p][o] = "idle" /\ "idle" \in Steps
    BY <1>8 DEF UnprotectUnindexFails, Idle, Steps
  <2>2. pc' = [pc EXCEPT ![p] = [pc[p] EXCEPT ![o] = "idle"]]
    BY <2>1 DEF TypeOK
  <2> QED
    BY <2>1, <2>2
<1>9. CASE UnprotectErase(p, o) \/ UnprotectEraseFails(p, o)
  BY <1>9 DEF UnprotectErase, UnprotectEraseFails, Return, Steps
<1> QED
  BY <1>1, <1>2, <1>3, <1>4, <1>5, <1>6, <1>7, <1>8, <1>9
  DEF Persist, Remove, Unprotect

(* Hence no operation disturbs the coordination of the processes.          *)
LEMMA OperationCoordination ==
    ASSUME IInv, NEW p \in Procs, NEW o \in Objects, OperationMove(p, o)
    PROVE  Coordination'
BY DEF IInv, TypeOK, Coordination, OperationMove, Active, HoldsInstanceLock

-----------------------------------------------------------------------------
(* The files of the operations.                                            *)

(* A step of p's operation on o leaves every other operation and every     *)
(* other object alone.                                                     *)
LocalStep(p, o) ==
    /\ \A q \in Procs, x \in Objects : q # p \/ x # o =>
          /\ pc'[q][x] = pc[q][x] /\ temp'[q][x] = temp[q][x]
          /\ val'[q][x] = val[q][x] /\ was'[q][x] = was[q][x]
    /\ \A x \in Objects : x # o =>
          cipher'[x] = cipher[x] /\ result'[x] = result[x]

(* A step on one object leaves the file and the result of the others       *)
(* alone.                                                                  *)
LEMMA OperationLocal ==
    ASSUME TypeOK, NEW p \in Procs, NEW o \in Objects,
           Persist(p, o) \/ Remove(p, o) \/ Unprotect(p, o)
    PROVE  LocalStep(p, o)
<1> USE DEF TypeOK, LocalStep, SetTemp, SetCipher, DropTemp, Return, Advance
<1>1. ASSUME NEW c \in Contents, PersistStage(p, o, c)
      PROVE  LocalStep(p, o)
  BY <1>1 DEF PersistStage, Begin
<1>2. CASE PersistAbort(p, o)
  BY <1>2 DEF PersistAbort
<1>3. CASE PersistSwap(p, o)
  BY <1>3 DEF PersistSwap
<1>4. CASE PersistIndex(p, o) \/ PersistIndexFails(p, o)
  BY <1>4 DEF PersistIndex, PersistIndexFails
<1>5. CASE PersistRollback(p, o)
  BY <1>5 DEF PersistRollback
<1>6. CASE PersistRollbackFails(p, o)
  BY <1>6 DEF PersistRollbackFails
<1>7. CASE PersistFinish(p, o)
  BY <1>7 DEF PersistFinish
<1>8. CASE RemovePark(p, o)
  BY <1>8 DEF RemovePark, Begin
<1>9. CASE RemoveUnindex(p, o) \/ RemoveUnindexFails(p, o)
           \/ RemoveFinishFails(p, o)
  BY <1>9 DEF RemoveUnindex, RemoveUnindexFails, RemoveFinishFails
<1>10. CASE RemoveFinish(p, o)
  BY <1>10 DEF RemoveFinish
<1>11. CASE RemoveRestore(p, o) \/ RemoveRestoreFails(p, o)
  BY <1>11 DEF RemoveRestore, RemoveRestoreFails
<1>12. CASE UnprotectUnindex(p, o)
  BY <1>12 DEF UnprotectUnindex, Begin
<1>13. CASE UnprotectUnindexFails(p, o)
  BY <1>13 DEF UnprotectUnindexFails
<1>14. CASE UnprotectErase(p, o) \/ UnprotectEraseFails(p, o)
  BY <1>14 DEF UnprotectErase, UnprotectEraseFails
<1> QED
  BY <1>1, <1>2, <1>3, <1>4, <1>5, <1>6, <1>7, <1>8, <1>9, <1>10, <1>11,
     <1>12, <1>13, <1>14 DEF Persist, Remove, Unprotect

(* The process of an operation is the only one that operates, before and   *)
(* after the step.                                                         *)
LEMMA OperationAlone ==
    ASSUME IInv, "purge" \notin Roles, NEW p \in Procs, NEW o \in Objects,
           Persist(p, o) \/ Remove(p, o) \/ Unprotect(p, o)
    PROVE  \A q \in Procs : q # p => pc[q][o] = "idle" /\ pc'[q][o] = "idle"
<1>1. HoldsInstanceLock(p)
  <2>1. Active(p, o) => HoldsInstanceLock(p)
    BY DEF IInv, Coordination, HoldsInstanceLock
  <2>2. CASE pc[p][o] = "idle"
    <3>1. \/ \E c \in Contents : PersistStage(p, o, c)
          \/ RemovePark(p, o) \/ UnprotectUnindex(p, o)
          \/ UnprotectUnindexFails(p, o)
      BY <2>2 DEF Persist, Remove, Unprotect, PersistAbort, PersistSwap,
         PersistIndex, PersistIndexFails, PersistRollback,
         PersistRollbackFails, PersistFinish, RemoveUnindex,
         RemoveUnindexFails, RemoveFinish, RemoveFinishFails, RemoveRestore,
         RemoveRestoreFails, UnprotectErase, UnprotectEraseFails
    <3>2. proc[p].role # "purge"
      BY DEF IInv, Coordination
    <3> QED
      BY <3>1, <3>2 DEF PersistStage, RemovePark, UnprotectUnindex,
         UnprotectUnindexFails, HoldsInstanceLock
  <2> QED
    BY <2>1, <2>2 DEF Active
<1>2. LocalStep(p, o)
  BY OperationLocal DEF IInv
<1> QED
  BY <1>1, <1>2, Alone DEF LocalStep

(* So the facts of every operation survive if those of this one do.        *)
LEMMA FactsFrame ==
    ASSUME IInv, NEW p \in Procs, NEW o \in Objects, LocalStep(p, o),
           \A q \in Procs : q # p => pc[q][o] = "idle" /\ pc'[q][o] = "idle",
           StepFacts(p, o)'
    PROVE  OperationFacts'
<1> SUFFICES ASSUME NEW q \in Procs, NEW x \in Objects
             PROVE  StepFacts(q, x)'
  BY DEF OperationFacts
<1>0. StepFacts(q, x)
  BY DEF IInv, OperationFacts
<1>1. CASE x # o
  BY <1>0, <1>1 DEF StepFacts, LocalStep, Holds
<1>2. CASE x = o /\ q # p
  BY <1>0, <1>2 DEF StepFacts, LocalStep
<1> QED
  BY <1>1, <1>2

(* A staged ciphertext is a file.                                          *)
LEMMA StagedFile ==
    ASSUME NEW c \in Contents
    PROVE  [data |-> c, old |-> FALSE] # NoFile
<1>1. [data |-> c, old |-> FALSE] \in File
  BY DEF File
<1> QED
  BY <1>1, ConstantsAssumption

(* What this one leaves behind, step by step.                              *)
LEMMA PersistFacts ==
    ASSUME TypeOK, NEW p \in Procs, NEW o \in Objects, StepFacts(p, o),
           Persist(p, o)
    PROVE  StepFacts(p, o)'
<1> USE DEF TypeOK, StepFacts, SetTemp, SetCipher, DropTemp, Return, Advance,
            Holds, File
<1> cipher[o] \in File \cup {NoFile} /\ temp[p][o] \in File \cup {NoFile}
  OBVIOUS
<1> NoFile \notin File /\ None \notin Contents
  BY ConstantsAssumption
<1>1. ASSUME NEW c \in Contents, PersistStage(p, o, c)
      PROVE  StepFacts(p, o)'
  <2>1. [data |-> c, old |-> FALSE] # NoFile
    BY StagedFile
  <2> QED
    BY <1>1, <2>1 DEF PersistStage, Begin
<1>2. CASE PersistAbort(p, o)
  BY <1>2 DEF PersistAbort
<1>3. CASE PersistSwap(p, o)
  BY <1>3 DEF PersistSwap
<1>4. CASE PersistIndex(p, o) \/ PersistIndexFails(p, o)
  BY <1>4 DEF PersistIndex, PersistIndexFails
<1>5. CASE PersistRollback(p, o)
  BY <1>5 DEF PersistRollback, PreviousExists
<1>6. CASE PersistRollbackFails(p, o)
  BY <1>6 DEF PersistRollbackFails
<1>7. CASE PersistFinish(p, o)
  BY <1>7 DEF PersistFinish
<1> QED
  BY <1>1, <1>2, <1>3, <1>4, <1>5, <1>6, <1>7 DEF Persist

(* The steps of an unlink keep what is known at each of them.              *)
LEMMA RemoveFacts ==
    ASSUME TypeOK, NEW p \in Procs, NEW o \in Objects, StepFacts(p, o),
           Remove(p, o)
    PROVE  StepFacts(p, o)'
<1> USE DEF TypeOK, StepFacts, SetTemp, SetCipher, Return, Advance, Holds
<1> NoFile \notin File
  BY ConstantsAssumption
<1>1. CASE RemovePark(p, o)
  BY <1>1 DEF RemovePark, Begin
<1>2. CASE RemoveUnindex(p, o) \/ RemoveUnindexFails(p, o)
           \/ RemoveFinishFails(p, o)
  BY <1>2 DEF RemoveUnindex, RemoveUnindexFails, RemoveFinishFails
<1>3. CASE RemoveFinish(p, o)
  BY <1>3 DEF RemoveFinish
<1>4. CASE RemoveRestore(p, o) \/ RemoveRestoreFails(p, o)
  BY <1>4 DEF RemoveRestore, RemoveRestoreFails
<1> QED
  BY <1>1, <1>2, <1>3, <1>4 DEF Remove

(* The same for the steps of an unprotect.                                 *)
LEMMA UnprotectFacts ==
    ASSUME TypeOK, NEW p \in Procs, NEW o \in Objects, StepFacts(p, o),
           Unprotect(p, o)
    PROVE  StepFacts(p, o)'
<1> USE DEF TypeOK, StepFacts, SetCipher, Return, Holds
<1>1. CASE UnprotectUnindex(p, o)
  BY <1>1 DEF UnprotectUnindex, Begin, Idle
<1>2. CASE UnprotectUnindexFails(p, o)
  BY <1>2 DEF UnprotectUnindexFails
<1>3. CASE UnprotectErase(p, o) \/ UnprotectEraseFails(p, o)
  BY <1>3 DEF UnprotectErase, UnprotectEraseFails
<1> QED
  BY <1>1, <1>2, <1>3 DEF Unprotect

(* A load removes only stale transaction files, and a staged one is new;   *)
(* an exit finds no operation, a crash ends all of the process.            *)
LEMMA ProcessFacts ==
    ASSUME IInv, NEW p \in Procs, Process(p)
    PROVE  OperationFacts'
<1> SUFFICES ASSUME NEW q \in Procs, NEW o \in Objects
             PROVE  StepFacts(q, o)'
  BY DEF OperationFacts
<1> TypeOK /\ StepFacts(q, o)
  BY DEF IInv, OperationFacts
<1> USE DEF TypeOK, StepFacts, Holds
<1>1. ASSUME NEW role \in Roles, LoadCleanup(p, role)
      PROVE  StepFacts(q, o)'
  <2>1. /\ pc' = pc /\ val' = val /\ was' = was /\ cipher' = cipher
        /\ temp'[q][o] = IF StaleTemp(temp[q][o]) THEN NoFile ELSE temp[q][o]
    BY <1>1 DEF LoadCleanup, opVars
  <2> QED
    BY <2>1 DEF StaleTemp
<1>2. CASE LoadMetadata(p)
  BY <1>2 DEF LoadMetadata, opVars
<1>3. CASE RefreshMetadata(p)
  BY <1>3 DEF RefreshMetadata, diskVars, opVars
<1>4. CASE Exit(p)
  BY <1>4 DEF Exit, diskVars
<1>5. CASE Crash(p)
  BY <1>5 DEF Crash
<1> QED
  BY <1>1, <1>2, <1>3, <1>4, <1>5 DEF Process

(* The metadata-only operations touch no file, and no day passes while an  *)
(* operation runs.                                                         *)
Aside == \/ DayPasses
         \/ \E p \in Procs, o \in Objects : Chmod(p, o)
         \/ \E p \in Procs, o \in Synced : SyncLink(p, o)
         \/ \E o \in Objects : RegisterLink(o)

(* The steps beside the operations disturb none that is under way.         *)
LEMMA AsideKeeps ==
    ASSUME IInv, Aside
    PROVE  Coordination' /\ OperationFacts'
<1>1. CASE DayPasses
  <2>1. /\ pc' = pc /\ proc' = proc /\ temp' = temp
        /\ \A p \in Procs, o \in Objects : pc[p][o] = "idle"
    BY <1>1 DEF DayPasses, opVars, Idle
  <2>2. Coordination'
    BY <2>1 DEF IInv, Coordination, HoldsInstanceLock, Active
  <2>3. OperationFacts'
    BY <2>1 DEF IInv, OperationFacts, StepFacts
  <2> QED
    BY <2>2, <2>3
<1>2. CASE ~DayPasses
  <2>1. pc' = pc /\ proc' = proc /\ temp' = temp /\ cipher' = cipher
        /\ val' = val /\ was' = was
    BY <1>2 DEF Aside, Chmod, SyncLink, MoveLink, MarkOrphan, ClearOrphan,
       MarkRecovery, UpdateLink, RegisterLink, opVars
  <2>2. Coordination'
    BY <2>1 DEF IInv, Coordination, HoldsInstanceLock, Active
  <2>3. OperationFacts'
    BY <2>1 DEF IInv, OperationFacts, StepFacts, Holds
  <2> QED
    BY <2>2, <2>3
<1> QED
  BY <1>1, <1>2

(* The invariant is inductive.                                             *)
LEMMA NextIInv ==
    ASSUME IInv, "purge" \notin Roles, [Next]_vars
    PROVE  IInv'
<1>1. CASE UNCHANGED vars
  BY <1>1 DEF vars, IInv, TypeOK, Coordination, OperationFacts, StepFacts,
     HoldsInstanceLock, Active, Holds
<1>2. ASSUME NEW p \in Procs, Process(p)
      PROVE  IInv'
  BY <1>2, ProcessTyped, ProcessCoordination, ProcessFacts DEF IInv
<1>3. ASSUME NEW p \in Procs, NEW o \in Objects,
             Persist(p, o) \/ Remove(p, o) \/ Unprotect(p, o)
      PROVE  IInv'
  <2>1. TypeOK /\ StepFacts(p, o)
    BY DEF IInv, OperationFacts
  <2>2. TypeOK'
    BY <1>3, <2>1, PersistTyped, RemoveTyped, UnprotectTyped
  <2>3. Coordination'
    BY <1>3, OperationMoves, OperationCoordination
  <2>4. StepFacts(p, o)'
    BY <1>3, <2>1, PersistFacts, RemoveFacts, UnprotectFacts
  <2>5. OperationFacts'
    BY <1>3, <2>1, <2>4, OperationLocal, OperationAlone, FactsFrame
  <2> QED
    BY <2>2, <2>3, <2>5 DEF IInv
<1>4. CASE Aside
  BY <1>4, AsideKeeps, OthersTyped DEF IInv, Aside
<1> QED
  BY <1>1, <1>2, <1>3, <1>4 DEF Next, Aside

(* It holds in every reachable state.                                      *)
THEOREM Invariance == ASSUME "purge" \notin Roles PROVE Spec => []IInv
<1>1. Init => IInv
  BY InitIInv
<1>2. IInv /\ [Next]_vars => IInv'
  BY NextIInv
<1> QED
  BY <1>1, <1>2, PTL DEF Spec

-----------------------------------------------------------------------------
(* Refinement: every step maps to a step of the contract on each object.   *)

ContractStep(o) ==
    \/ Contract!Begin(o) \/ Contract!Progress(o) \/ Contract!Finish(o)
    \/ Contract!Refuse(o) \/ Contract!Unaffected(o)

(* With one process operating on an object there is one request, before    *)
(* and after a step.                                                       *)
LEMMA OneRequest ==
    ASSUME NEW p \in Procs, NEW o \in Objects,
           \A q \in Procs : q # p => pc[q][o] = "idle" /\ pc'[q][o] = "idle"
    PROVE  /\ Request[o] = IF pc[p][o] = "idle" THEN {}
                           ELSE {[from |-> was[p][o], to |-> val[p][o]]}
           /\ Request'[o] = IF pc'[p][o] = "idle" THEN {}
                           ELSE {[from |-> was'[p][o], to |-> val'[p][o]]}
BY DEF Request, Requests

(* The other variables of the contract.                                    *)
LEMMA Mapping ==
    ASSUME NEW o \in Objects
    PROVE  /\ Store[o] = Holds(o) /\ Store'[o] = Holds(o)'
           /\ Outcome[o] = IF result[o] \in Succeeded THEN "ok" ELSE result[o]
           /\ Outcome'[o] = IF result'[o] \in Succeeded THEN "ok"
                            ELSE result'[o]
BY DEF Store, Outcome

(* An object no step of which touches is unaffected.                       *)
LEMMA OthersUnaffected ==
    ASSUME NEW o \in Objects,
           cipher'[o] = cipher[o], result'[o] = result[o],
           \A q \in Procs : /\ pc'[q][o] = pc[q][o] /\ val'[q][o] = val[q][o]
                             /\ was'[q][o] = was[q][o]
    PROVE  ContractStep(o)
<1>1. Request'[o] = Request[o]
  BY DEF Request, Requests
<1>2. Store'[o] = Store[o] /\ Outcome'[o] = Outcome[o]
  BY DEF Store, Outcome, Holds
<1> QED
  BY <1>1, <1>2 DEF ContractStep, Contract!Unaffected

(* The three ways an operation of p moves the contract on o, in terms of   *)
(* the files.                                                              *)
Starts(p, o) ==
    /\ pc[p][o] = "idle" /\ pc'[p][o] # "idle"
    /\ was'[p][o] = Holds(o) /\ val'[p][o] \in Sizes
    /\ Holds(o)' \in {Holds(o), val'[p][o]}
    /\ result'[o] = "none"

Proceeds(p, o) ==
    /\ pc[p][o] # "idle" /\ pc'[p][o] # "idle"
    /\ was'[p][o] = was[p][o] /\ val'[p][o] = val[p][o]
    /\ Holds(o)' \in {was[p][o], val[p][o]}
    /\ result'[o] = result[o]

Ends(p, o) ==
    /\ pc[p][o] # "idle" /\ pc'[p][o] = "idle"
    /\ \/ Holds(o)' = val[p][o] /\ result'[o] \in Succeeded
       \/ Holds(o)' \in {was[p][o], val[p][o]} /\ result'[o] = "error"

Refused(p, o) ==
    /\ pc[p][o] = "idle" /\ pc'[p][o] = "idle"
    /\ Holds(o)' = Holds(o) /\ result'[o] = "error"

(* The four shapes of a step are steps of the contract, or stutter.        *)
LEMMA MoveIsContractStep ==
    ASSUME NEW p \in Procs, NEW o \in Objects,
           \A q \in Procs : q # p => pc[q][o] = "idle" /\ pc'[q][o] = "idle",
           \/ Starts(p, o) \/ Proceeds(p, o) \/ Ends(p, o) \/ Refused(p, o)
    PROVE  ContractStep(o)
<1> DEFINE r == [from |-> was[p][o], to |-> val[p][o]]
           s == [from |-> was'[p][o], to |-> val'[p][o]]
<1>0. /\ Request[o] = IF pc[p][o] = "idle" THEN {} ELSE {r}
      /\ Request'[o] = IF pc'[p][o] = "idle" THEN {} ELSE {s}
  BY OneRequest
<1>m. /\ Store[o] = Holds(o) /\ Store'[o] = Holds(o)'
      /\ Outcome[o] = IF result[o] \in Succeeded THEN "ok" ELSE result[o]
      /\ Outcome'[o] = IF result'[o] \in Succeeded THEN "ok" ELSE result'[o]
  BY Mapping
<1>1. CASE Starts(p, o)
  <2>1. /\ Request[o] = {} /\ Request'[o] = {[from |-> Store[o], to |-> val'[p][o]]}
        /\ Store'[o] \in {Store[o], val'[p][o]}
        /\ val'[p][o] \in Contents \cup {None}
    BY <1>0, <1>1, <1>m DEF Starts, Sizes
  <2>2. Outcome'[o] = "none"
    BY <1>1, <1>m DEF Starts, Succeeded
  <2> QED
    BY <2>1, <2>2 DEF ContractStep, Contract!Begin, Contract!Values
<1>2. CASE Proceeds(p, o)
  <2>1. Request[o] = {r} /\ Request'[o] = {r}
    BY <1>0, <1>2 DEF Proceeds
  <2>2. Store'[o] \in {r.from, r.to} /\ Outcome'[o] = Outcome[o]
    BY <1>2, <1>m DEF Proceeds
  <2> QED
    BY <2>1, <2>2 DEF ContractStep, Contract!Progress
<1>3. CASE Ends(p, o)
  <2>1. Request[o] = {r} /\ Request'[o] = {}
    BY <1>0, <1>3 DEF Ends
  <2>2. \/ Store'[o] = r.to /\ Outcome'[o] = "ok"
        \/ Store'[o] \in {r.from, r.to} /\ Outcome'[o] = "error"
    BY <1>3, <1>m DEF Ends, Succeeded
  <2> QED
    BY <2>1, <2>2 DEF ContractStep, Contract!Finish
<1>4. CASE Refused(p, o)
  BY <1>0, <1>4, <1>m DEF Refused, ContractStep, Contract!Refuse, Succeeded
<1> QED
  BY <1>1, <1>2, <1>3, <1>4

(* Each step of the three operations is one of these.                      *)
LEMMA PersistMoves ==
    ASSUME TypeOK, NEW p \in Procs, NEW o \in Objects, StepFacts(p, o),
           Persist(p, o)
    PROVE  Starts(p, o) \/ Proceeds(p, o) \/ Ends(p, o)
<1> USE DEF TypeOK, StepFacts, SetTemp, SetCipher, DropTemp, Holds
<1>1. ASSUME NEW c \in Contents, PersistStage(p, o, c)
      PROVE  Starts(p, o)
  BY <1>1 DEF PersistStage, Begin, Starts, Sizes
<1>2. CASE PersistAbort(p, o)
  BY <1>2 DEF PersistAbort, Return, Ends
<1>3. CASE PersistSwap(p, o)
  BY <1>3 DEF PersistSwap, Proceeds
<1>4. CASE PersistIndex(p, o) \/ PersistIndexFails(p, o)
  BY <1>4 DEF PersistIndex, PersistIndexFails, Advance, Proceeds
<1>5. CASE PersistRollback(p, o)
  BY <1>5 DEF PersistRollback, PreviousExists, Return, Ends
<1>6. CASE PersistRollbackFails(p, o)
  BY <1>6 DEF PersistRollbackFails, Return, Ends
<1>7. CASE PersistFinish(p, o)
  BY <1>7 DEF PersistFinish, Return, Ends, Succeeded
<1> QED
  BY <1>1, <1>2, <1>3, <1>4, <1>5, <1>6, <1>7 DEF Persist

(* Every step of an unlink has one of those shapes.                        *)
LEMMA RemoveMoves ==
    ASSUME TypeOK, NEW p \in Procs, NEW o \in Objects, StepFacts(p, o),
           Remove(p, o)
    PROVE  Starts(p, o) \/ Proceeds(p, o) \/ Ends(p, o)
<1> USE DEF TypeOK, StepFacts, SetTemp, SetCipher, Holds
<1>1. CASE RemovePark(p, o)
  BY <1>1 DEF RemovePark, Begin, Idle, Starts, Sizes
<1>2. CASE RemoveUnindex(p, o) \/ RemoveUnindexFails(p, o)
           \/ RemoveFinishFails(p, o)
  BY <1>2 DEF RemoveUnindex, RemoveUnindexFails, RemoveFinishFails, Advance,
     Proceeds
<1>3. CASE RemoveFinish(p, o)
  BY <1>3 DEF RemoveFinish, Return, Ends, Succeeded
<1>4. CASE RemoveRestore(p, o) \/ RemoveRestoreFails(p, o)
  BY <1>4 DEF RemoveRestore, RemoveRestoreFails, Return, Ends
<1> QED
  BY <1>1, <1>2, <1>3, <1>4 DEF Remove

(* Every step of an unprotect has one of those shapes.                     *)
LEMMA UnprotectMoves ==
    ASSUME TypeOK, NEW p \in Procs, NEW o \in Objects, StepFacts(p, o),
           Unprotect(p, o)
    PROVE  Starts(p, o) \/ Ends(p, o) \/ Refused(p, o)
<1> USE DEF TypeOK, StepFacts, SetCipher, Holds
<1>1. CASE UnprotectUnindex(p, o)
  BY <1>1 DEF UnprotectUnindex, Begin, Idle, Starts, Sizes
<1>2. CASE UnprotectUnindexFails(p, o)
  BY <1>2 DEF UnprotectUnindexFails, Idle, Refused
<1>3. CASE UnprotectErase(p, o)
  BY <1>3 DEF UnprotectErase, Return, Ends, Succeeded
<1>4. CASE UnprotectEraseFails(p, o)
  BY <1>4 DEF UnprotectEraseFails, Return, Ends
<1> QED
  BY <1>1, <1>2, <1>3, <1>4 DEF Unprotect

(* A step on one object is a step of the contract for it and a stutter     *)
(* for the others.                                                         *)
LEMMA OperationRefines ==
    ASSUME IInv, "purge" \notin Roles, NEW p \in Procs, NEW o \in Objects,
           Persist(p, o) \/ Remove(p, o) \/ Unprotect(p, o),
           NEW x \in Objects
    PROVE  ContractStep(x)
<1>0. TypeOK /\ StepFacts(p, o)
  BY DEF IInv, OperationFacts
<1>1. LocalStep(p, o)
  BY <1>0, OperationLocal
<1>2. CASE x # o
  BY <1>1, <1>2, OthersUnaffected DEF LocalStep
<1>3. CASE x = o
  <2>1. Starts(p, o) \/ Proceeds(p, o) \/ Ends(p, o) \/ Refused(p, o)
    BY <1>0, PersistMoves, RemoveMoves, UnprotectMoves
  <2>2. \A q \in Procs : q # p => pc[q][o] = "idle" /\ pc'[q][o] = "idle"
    BY OperationAlone
  <2> QED
    BY <1>3, <2>1, <2>2, MoveIsContractStep
<1> QED
  BY <1>2, <1>3

(* Loads, refreshes and exits are invisible; a crash ends each request of  *)
(* the process with one of the two contents.                               *)
LEMMA ProcessRefines ==
    ASSUME IInv, NEW p \in Procs, Process(p), NEW o \in Objects
    PROVE  ContractStep(o)
<1>1. CASE Crash(p)
  <2> USE <1>1 DEF Crash, IInv, TypeOK
  <2>1. CASE pc[p][o] = "idle"
    <3>1. Request'[o] = Request[o]
      BY <2>1 DEF Request, Requests
    <3>2. Store'[o] = Store[o] /\ Outcome'[o] = Outcome[o]
      BY <2>1 DEF Store, Outcome, Holds
    <3> QED
      BY <3>1, <3>2 DEF ContractStep, Contract!Unaffected
  <2>2. CASE pc[p][o] # "idle"
    <3>1. \A q \in Procs : q # p => pc[q][o] = "idle" /\ pc'[q][o] = "idle"
      BY <2>2, Exclusive DEF Active
    <3>2. StepFacts(p, o)
      BY DEF OperationFacts
    <3>3. Ends(p, o)
      BY <2>2, <3>2 DEF Ends, StepFacts, Holds, Steps
    <3> QED
      BY <3>1, <3>3, MoveIsContractStep
  <2> QED
    BY <2>1, <2>2
<1>2. CASE ~Crash(p)
  <2>1. /\ cipher' = cipher /\ pc' = pc /\ val' = val /\ was' = was
        /\ result' = result
    BY <1>2 DEF Process, LoadCleanup, LoadMetadata, RefreshMetadata, Exit,
       opVars, diskVars
  <2> QED
    BY <2>1, OthersUnaffected
<1> QED
  BY <1>1, <1>2

(* Ageing and the metadata-only operations are invisible.                  *)
LEMMA AsideRefines ==
    ASSUME IInv, Aside, NEW o \in Objects
    PROVE  ContractStep(o)
<1>1. CASE DayPasses
  <2>1. /\ pc' = pc /\ val' = val /\ was' = was /\ result' = result
        /\ cipher' = [x \in Objects |-> Aged(cipher[x])]
    BY <1>1 DEF DayPasses, opVars
  <2>2. cipher[o] \in File \cup {NoFile}
    BY DEF IInv, TypeOK
  <2>3. /\ Aged(NoFile) = NoFile
        /\ \A f \in File : Aged(f) \in File /\ Aged(f).data = f.data
    BY ConstantsAssumption DEF Aged, File
  <2>4. Holds(o)' = Holds(o)
    BY <2>1, <2>2, <2>3, ConstantsAssumption DEF Holds
  <2>5. Request'[o] = Request[o]
    BY <2>1 DEF Request, Requests
  <2>6. Store'[o] = Store[o] /\ Outcome'[o] = Outcome[o]
    BY <2>1, <2>4 DEF Store, Outcome
  <2> QED
    BY <2>5, <2>6 DEF ContractStep, Contract!Unaffected
<1>2. CASE ~DayPasses
  <2>1. /\ cipher' = cipher /\ pc' = pc /\ val' = val /\ was' = was
        /\ result' = result
    BY <1>2 DEF Aside, Chmod, SyncLink, MoveLink, MarkOrphan, ClearOrphan,
       MarkRecovery, UpdateLink, RegisterLink, opVars
  <2> QED
    BY <2>1, OthersUnaffected
<1> QED
  BY <1>1, <1>2

(* Initially no object exists and nothing has been asked for.              *)
LEMMA InitRefines == Init => Contract!Init
<1> SUFFICES ASSUME Init PROVE Contract!Init
  OBVIOUS
<1>1. Store = [o \in Objects |-> None]
  BY DEF Init, Store, Holds
<1>2. Request = [o \in Objects |-> {}]
  BY DEF Init, Request, Requests
<1>3. Outcome = [o \in Objects |-> "none"]
  BY DEF Init, Outcome, Succeeded
<1> QED
  BY <1>1, <1>2, <1>3 DEF Contract!Init

(* Every step of the store is a step of the contract or a stutter.         *)
LEMMA NextRefines ==
    ASSUME IInv, "purge" \notin Roles, [Next]_vars
    PROVE  [Contract!Next]_(Contract!vars)
<1>1. CASE UNCHANGED vars
  <2>1. Store' = Store /\ Request' = Request /\ Outcome' = Outcome
    BY <1>1 DEF vars, Store, Request, Outcome, Holds, Requests
  <2> QED
    BY <2>1 DEF Contract!vars
<1>2. CASE Next
  <2>1. ASSUME NEW o \in Objects PROVE ContractStep(o)
    <3>1. \/ \E p \in Procs : Process(p)
          \/ \E p \in Procs, x \in Objects :
                Persist(p, x) \/ Remove(p, x) \/ Unprotect(p, x)
          \/ Aside
      BY <1>2 DEF Next, Aside
    <3> QED
      BY <3>1, ProcessRefines, OperationRefines, AsideRefines
  <2> QED
    BY <2>1 DEF ContractStep, Contract!Next
<1> QED
  BY <1>1, <1>2

(* Whatever fails, whichever process dies and whoever else loads the       *)
(* vault, persistFile, removeProtectedFileLocked and                       *)
(* removeMaterializedCiphertext leave every object with its old or its new *)
(* contents, and with the new ones when they return nil.                   *)
THEOREM ContractRefinement ==
    ASSUME "purge" \notin Roles
    PROVE  Spec => KeepsContract
<1>1. Init => Contract!Init
  BY InitRefines
<1>2. IInv /\ [Next]_vars => [Contract!Next]_(Contract!vars)
  BY NextRefines
<1>3. Spec => []IInv
  BY Invariance
<1> QED
  BY <1>1, <1>2, <1>3, PTL DEF Spec, KeepsContract, Contract!Spec

-----------------------------------------------------------------------------
(* No dangling record, whichever commands run (purge included).            *)

(* Every link, orphan and recovery record belongs to an entry.             *)
Closed(m) == \A o \in m.links \cup m.orphaned \cup m.recovery : Indexed(m, o)

(* What an operation is about to record is an entry.                       *)
WritesEntry(p, o) ==
    /\ pc[p][o] \in {"staged", "swapped"} => val[p][o] # None
    /\ pc[p][o] \in {"parked", "unindexed", "forgotten"} =>
          saved[p][o].files[o] # None

ClosedInv ==
    /\ TypeOK
    /\ Closed(meta) /\ \A p \in Procs : Closed(mem[p])
    /\ \A p \in Procs, o \in Objects : WritesEntry(p, o)

(* The update functions keep the records of a metadata value closed.       *)
LEMMA UpdatesClosed ==
    ASSUME NEW m \in Metadata, Closed(m), NEW o \in Objects, NEW size \in Contents,
           NEW old \in Metadata
    PROVE  /\ Closed(SetFileMeta(m, o, size))
           /\ Closed(DeleteFileMetadata(m, o))
           /\ Indexed(m, o) => /\ Closed(SetLinkSource(m, o))
                               /\ Closed(MarkLinkRecovery(m, o))
                               /\ Closed(MarkLinkOrphan(m, o))
           /\ Closed(ClearLinkOrphan(m, o))
           /\ Indexed(old, o) => Closed(RestoreUnprotect(m, old, o))
<1> USE DEF Metadata, Closed, Indexed
<1> size # None
  BY ConstantsAssumption
<1>1. Closed(SetFileMeta(m, o, size))
  BY DEF SetFileMeta
<1>2. Closed(DeleteFileMetadata(m, o))
  BY DEF DeleteFileMetadata
<1>3. Indexed(m, o) => Closed(SetLinkSource(m, o))
  BY DEF SetLinkSource
<1>4. Indexed(m, o) => Closed(MarkLinkRecovery(m, o))
  BY DEF MarkLinkRecovery
<1>5. Indexed(m, o) => Closed(MarkLinkOrphan(m, o))
  BY DEF MarkLinkOrphan
<1>6. Closed(ClearLinkOrphan(m, o))
  BY DEF ClearLinkOrphan
<1>7. Indexed(old, o) => Closed(RestoreUnprotect(m, old, o))
  BY DEF RestoreUnprotect
<1> QED
  BY <1>1, <1>2, <1>3, <1>4, <1>5, <1>6, <1>7

(* A load drops the records of objects it does not know.                   *)
LEMMA ReconcileClosed ==
    ASSUME NEW m \in Metadata
    PROVE  Closed(Reconcile(m))
<1> Empty # None
  BY ConstantsAssumption
<1> QED
  BY DEF Reconcile, Metadata, Closed, Indexed

(* A step that saves m, or fails to, and leaves in memory what was there,  *)
(* what is on disk or m.                                                   *)
LEMMA SaveClosed ==
    ASSUME ClosedInv, NEW p \in Procs, NEW m, Closed(m),
           meta' \in {meta, m},
           \E n \in {mem[p], meta, m} : mem' = [mem EXCEPT ![p] = n]
    PROVE  Closed(meta)' /\ \A q \in Procs : Closed(mem'[q])
<1>1. Closed(meta)'
  BY DEF ClosedInv, Closed, Indexed
<1>2. PICK n \in {mem[p], meta, m} : mem' = [mem EXCEPT ![p] = n]
  OBVIOUS
<1>3. Closed(n)
  BY <1>2 DEF ClosedInv
<1>4. \A q \in Procs : mem'[q] = IF q = p THEN n ELSE mem[q]
  BY <1>2 DEF ClosedInv, TypeOK
<1>5. \A q \in Procs : Closed(mem'[q])
  BY <1>3, <1>4 DEF ClosedInv
<1> QED
  BY <1>1, <1>5

(* The ways a metadata update ends, in the form SaveClosed needs.          *)
LEMMA SaveEnds ==
    ASSUME TypeOK, NEW p \in Procs, NEW m,
           \/ Saved(p, m) \/ SaveFails(p, m) \/ Saves(p, m) \/ FailsToSave(p, m)
    PROVE  /\ meta' \in {meta, m}
           /\ \E n \in {mem[p], meta, m} : mem' = [mem EXCEPT ![p] = n]
<1>1. CASE Saves(p, m) \/ Saved(p, m)
  BY <1>1 DEF Saved, Saves
<1>2. CASE FailsToSave(p, m) \/ SaveFails(p, m)
  <2>1. mem' = mem /\ meta' \in {meta, m}
    BY <1>2 DEF FailsToSave, SaveFails
  <2>2. mem' = [mem EXCEPT ![p] = mem[p]]
    BY <2>1 DEF TypeOK
  <2> QED
    BY <2>1, <2>2
<1> QED
  BY <1>1, <1>2

(* An operation writes the saved metadata of its own object only.          *)
LEMMA SavedLocal ==
    ASSUME TypeOK, NEW p \in Procs, NEW o \in Objects,
           Persist(p, o) \/ Remove(p, o) \/ Unprotect(p, o),
           NEW q \in Procs, NEW x \in Objects, q # p \/ x # o
    PROVE  saved'[q][x] = saved[q][x]
<1>1. ASSUME \/ saved' = saved
             \/ \E m : saved' = [saved EXCEPT ![p] = [saved[p] EXCEPT ![o] = m]]
      PROVE  saved'[q][x] = saved[q][x]
  <2>1. CASE saved' = saved
    BY <2>1
  <2>2. ASSUME NEW m, saved' = [saved EXCEPT ![p] = [saved[p] EXCEPT ![o] = m]]
        PROVE  saved'[q][x] = saved[q][x]
    BY <2>2 DEF TypeOK
  <2> QED
    BY <1>1, <2>1, <2>2
<1>2. CASE Persist(p, o)
  BY <1>1, <1>2 DEF Persist, PersistStage, PersistAbort, PersistSwap, PersistIndex,
     PersistIndexFails, PersistRollback, PersistRollbackFails, PersistFinish, Return,
     Advance
<1>3. CASE Remove(p, o)
  BY <1>1, <1>3 DEF Remove, RemovePark, RemoveUnindex, RemoveUnindexFails,
     RemoveFinish, RemoveFinishFails, RemoveRestore, RemoveRestoreFails, Return,
     SetSaved
<1>4. CASE Unprotect(p, o)
  BY <1>1, <1>4 DEF Unprotect, UnprotectUnindex, UnprotectUnindexFails,
     UnprotectErase, UnprotectEraseFails, Return, SetSaved
<1> QED
  BY <1>2, <1>3, <1>4

(* What a write, a removal and an unprotect do to the metadata.            *)
LEMMA PersistClosed ==
    ASSUME ClosedInv, NEW p \in Procs, NEW o \in Objects, Persist(p, o)
    PROVE  /\ Closed(meta)' /\ \A q \in Procs : Closed(mem'[q])
           /\ WritesEntry(p, o)'
<1> TypeOK /\ WritesEntry(p, o) /\ meta \in Metadata
  BY DEF ClosedInv, TypeOK
<1> None \notin Contents
  BY ConstantsAssumption
<1>1. ASSUME UNCHANGED <<meta, mem>>
      PROVE  Closed(meta)' /\ \A q \in Procs : Closed(mem'[q])
  BY <1>1 DEF ClosedInv, Closed, Indexed
<1>2. ASSUME NEW c \in Contents, PersistStage(p, o, c)
      PROVE  WritesEntry(p, o)' /\ UNCHANGED <<meta, mem>>
  BY <1>2 DEF PersistStage, Begin, TypeOK, WritesEntry
<1>3. CASE PersistAbort(p, o) \/ PersistRollback(p, o)
           \/ PersistRollbackFails(p, o) \/ PersistFinish(p, o)
  <2>1. UNCHANGED <<meta, mem>> /\ pc'[p][o] = "idle"
    BY <1>3 DEF PersistAbort, PersistRollback, PersistRollbackFails,
       PersistFinish, Return, TypeOK
  <2> QED
    BY <1>1, <2>1 DEF WritesEntry
<1>4. CASE PersistSwap(p, o)
  <2>1. UNCHANGED <<meta, mem, val>> /\ pc[p][o] = "staged" /\ pc'[p][o] = "swapped"
    BY <1>4 DEF PersistSwap, TypeOK
  <2> QED
    BY <1>1, <2>1 DEF WritesEntry
<1>5. CASE PersistIndex(p, o) \/ PersistIndexFails(p, o)
  <2>1. /\ pc[p][o] = "swapped" /\ pc'[p][o] \in {"indexed", "rollback"}
        /\ \/ Saved(p, SetFileMeta(meta, o, val[p][o]))
           \/ SaveFails(p, SetFileMeta(meta, o, val[p][o]))
    BY <1>5 DEF PersistIndex, PersistIndexFails, Advance, TypeOK
  <2>2. val[p][o] \in Contents
    BY <2>1 DEF WritesEntry, TypeOK, Sizes
  <2>3. Closed(SetFileMeta(meta, o, val[p][o]))
    BY <2>2, UpdatesClosed DEF ClosedInv
  <2>4. WritesEntry(p, o)'
    BY <2>1 DEF WritesEntry
  <2>5. Closed(meta)' /\ \A q \in Procs : Closed(mem'[q])
    BY <2>1, <2>3, SaveEnds, SaveClosed
  <2> QED
    BY <2>4, <2>5
<1> QED
  BY <1>1, <1>2, <1>3, <1>4, <1>5 DEF Persist

(* An unlink takes the file's record out whole and leaves no record        *)
(* without its parents.                                                    *)
LEMMA RemoveClosed ==
    ASSUME ClosedInv, NEW p \in Procs, NEW o \in Objects, Remove(p, o)
    PROVE  /\ Closed(meta)' /\ \A q \in Procs : Closed(mem'[q])
           /\ WritesEntry(p, o)'
<1> TypeOK /\ WritesEntry(p, o) /\ meta \in Metadata
  BY DEF ClosedInv, TypeOK
<1>1. CASE RemovePark(p, o)
  <2>1. /\ meta' = meta /\ mem' = Refreshed(p, o)
        /\ pc'[p][o] = "parked"
        /\ saved'[p][o] = SetFileMeta(NoMetadata, o, FileMeta(p, o))
    BY <1>1 DEF RemovePark, Begin, SetSaved, TypeOK
  <2>2. FileMeta(p, o) # None
    BY ConstantsAssumption DEF FileMeta, Indexed
  <2>3. saved'[p][o].files[o] = FileMeta(p, o)
    BY <2>1 DEF SetFileMeta, NoMetadata
  <2>4. \E n \in {mem[p], meta} : mem' = [mem EXCEPT ![p] = n]
    BY <2>1 DEF Refreshed, TypeOK
  <2>5. WritesEntry(p, o)'
    BY <2>1, <2>2, <2>3 DEF WritesEntry
  <2>6. Closed(meta)' /\ \A q \in Procs : Closed(mem'[q])
    BY <2>1, <2>4, SaveClosed DEF ClosedInv
  <2> QED
    BY <2>5, <2>6
<1>2. CASE RemoveUnindex(p, o) \/ RemoveUnindexFails(p, o)
  <2>1. /\ pc[p][o] = "parked" /\ pc'[p][o] \in {"unindexed", "restore"}
        /\ saved' = saved
        /\ \/ Saved(p, DeleteFileMetadata(meta, o))
           \/ SaveFails(p, DeleteFileMetadata(meta, o))
    BY <1>2 DEF RemoveUnindex, RemoveUnindexFails, Advance, TypeOK
  <2>2. Closed(DeleteFileMetadata(meta, o))
    BY UpdatesClosed, ConstantsAssumption DEF ClosedInv
  <2>3. WritesEntry(p, o)'
    BY <2>1 DEF WritesEntry
  <2>4. Closed(meta)' /\ \A q \in Procs : Closed(mem'[q])
    BY <2>1, <2>2, SaveEnds, SaveClosed
  <2> QED
    BY <2>3, <2>4
<1>3. CASE RemoveFinish(p, o) \/ RemoveRestore(p, o) \/ RemoveRestoreFails(p, o)
  <2>1. UNCHANGED <<meta, mem>> /\ pc'[p][o] = "idle"
    BY <1>3 DEF RemoveFinish, RemoveRestore, RemoveRestoreFails, Return, TypeOK
  <2> QED
    BY <2>1 DEF WritesEntry, ClosedInv, Closed, Indexed
<1>4. CASE RemoveFinishFails(p, o)
  <2>1. PICK m : m = SetFileMeta(meta, o, saved[p][o].files[o])
    OBVIOUS
  <2>2. /\ pc[p][o] = "unindexed" /\ pc'[p][o] = "restore"
        /\ Saved(p, m) \/ Saves(p, m) \/ FailsToSave(p, m)
    BY <1>4, <2>1 DEF RemoveFinishFails, Advance, TypeOK
  <2>3. saved[p][o].files[o] \in Contents
    BY <2>2 DEF WritesEntry, TypeOK, Metadata, Sizes
  <2>4. Closed(m)
    BY <2>1, <2>3, UpdatesClosed DEF ClosedInv
  <2>5. WritesEntry(p, o)'
    BY <2>2 DEF WritesEntry
  <2>6. Closed(meta)' /\ \A q \in Procs : Closed(mem'[q])
    BY <2>2, <2>4, SaveEnds, SaveClosed
  <2> QED
    BY <2>5, <2>6
<1> QED
  BY <1>1, <1>2, <1>3, <1>4 DEF Remove

(* So does an unprotect.                                                   *)
LEMMA UnprotectClosed ==
    ASSUME ClosedInv, NEW p \in Procs, NEW o \in Objects, Unprotect(p, o)
    PROVE  /\ Closed(meta)' /\ \A q \in Procs : Closed(mem'[q])
           /\ WritesEntry(p, o)'
<1> TypeOK /\ WritesEntry(p, o) /\ meta \in Metadata
  BY DEF ClosedInv, TypeOK
<1>1. CASE UnprotectUnindex(p, o) \/ UnprotectUnindexFails(p, o)
  <2>1. /\ pc[p][o] = "idle"
        /\ \/ pc'[p][o] = "forgotten" /\ saved'[p][o] = mem[p] /\ Indexed(mem[p], o)
           \/ pc'[p][o] = "idle"
        /\ \/ Saved(p, DeleteFileMetadata(meta, o))
           \/ SaveFails(p, DeleteFileMetadata(meta, o))
    BY <1>1 DEF UnprotectUnindex, UnprotectUnindexFails, Begin, SetSaved, Idle, TypeOK
  <2>2. Closed(DeleteFileMetadata(meta, o))
    BY UpdatesClosed, ConstantsAssumption DEF ClosedInv
  <2>3. WritesEntry(p, o)'
    BY <2>1 DEF WritesEntry, Indexed
  <2>4. Closed(meta)' /\ \A q \in Procs : Closed(mem'[q])
    BY <2>1, <2>2, SaveEnds, SaveClosed
  <2> QED
    BY <2>3, <2>4
<1>2. CASE UnprotectErase(p, o)
  <2>1. UNCHANGED <<meta, mem>> /\ pc'[p][o] = "idle"
    BY <1>2 DEF UnprotectErase, Return, TypeOK
  <2> QED
    BY <2>1 DEF WritesEntry, ClosedInv, Closed, Indexed
<1>3. CASE UnprotectEraseFails(p, o)
  <2>1. PICK m : m = RestoreUnprotect(meta, saved[p][o], o)
    OBVIOUS
  <2>2. /\ pc[p][o] = "forgotten" /\ pc'[p][o] = "idle"
        /\ Saves(p, m) \/ FailsToSave(p, m)
    BY <1>3, <2>1 DEF UnprotectEraseFails, Return, TypeOK
  <2>3. saved[p][o] \in Metadata /\ Indexed(saved[p][o], o)
    BY <2>2 DEF WritesEntry, TypeOK, Indexed
  <2>4. Closed(m)
    BY <2>1, <2>3, UpdatesClosed, ConstantsAssumption DEF ClosedInv
  <2>5. WritesEntry(p, o)'
    BY <2>2 DEF WritesEntry
  <2>6. Closed(meta)' /\ \A q \in Procs : Closed(mem'[q])
    BY <2>2, <2>4, SaveEnds, SaveClosed
  <2> QED
    BY <2>5, <2>6
<1> QED
  BY <1>1, <1>2, <1>3 DEF Unprotect

(* Loading, refreshing, exiting and dying.                                 *)
LEMMA ProcessClosed ==
    ASSUME ClosedInv, NEW p \in Procs, Process(p)
    PROVE  ClosedInv'
<1> TypeOK /\ meta \in Metadata
  BY DEF ClosedInv, TypeOK
<1>1. TypeOK'
  BY ProcessTyped
<1>2. ASSUME UNCHANGED <<pc, val, saved>>
      PROVE  \A q \in Procs, o \in Objects : WritesEntry(q, o)'
  BY <1>2 DEF ClosedInv, WritesEntry
<1>3. Closed(NoMetadata)
  BY DEF Closed, NoMetadata
<1>4. ASSUME NEW n, Closed(n), mem' = [mem EXCEPT ![p] = n], meta' = meta
      PROVE  Closed(meta)' /\ \A q \in Procs : Closed(mem'[q])
  <2>1. \A q \in Procs : mem'[q] = IF q = p THEN n ELSE mem[q]
    BY <1>4 DEF TypeOK
  <2>2. Closed(meta)'
    BY <1>4 DEF ClosedInv, Closed, Indexed
  <2> QED
    BY <1>4, <2>1, <2>2 DEF ClosedInv
<1>5. ASSUME NEW role \in Roles, LoadCleanup(p, role)
      PROVE  ClosedInv'
  <2>1. UNCHANGED <<meta, mem, pc, val, saved>>
    BY <1>5 DEF LoadCleanup, opVars
  <2> QED
    BY <1>1, <1>2, <2>1 DEF ClosedInv, Closed, Indexed
<1>6. CASE LoadMetadata(p)
  <2>1. /\ UNCHANGED <<pc, val, saved>>
        /\ Saved(p, Reconcile(meta)) \/ SaveFails(p, Reconcile(meta))
    BY <1>6 DEF LoadMetadata, opVars
  <2>2. PICK m : m = Reconcile(meta)
    OBVIOUS
  <2>3. Closed(m)
    BY <2>2, ReconcileClosed
  <2>4. Closed(meta)' /\ \A q \in Procs : Closed(mem'[q])
    BY <2>1, <2>2, <2>3, SaveEnds, SaveClosed
  <2> QED
    BY <1>1, <1>2, <2>1, <2>4 DEF ClosedInv
<1>7. CASE RefreshMetadata(p)
  <2>1. /\ UNCHANGED <<pc, val, saved, meta>> /\ mem' = [mem EXCEPT ![p] = meta]
    BY <1>7 DEF RefreshMetadata, diskVars, opVars
  <2> QED
    BY <1>1, <1>2, <1>4, <2>1 DEF ClosedInv
<1>8. CASE Exit(p) \/ Crash(p)
  <2>1. /\ meta' = meta /\ mem' = [mem EXCEPT ![p] = NoMetadata]
        /\ \A q \in Procs, o \in Objects :
              \/ pc'[q][o] = "idle"
              \/ pc'[q][o] = pc[q][o] /\ val'[q][o] = val[q][o] /\ saved'[q][o] = saved[q][o]
    <3>1. CASE Exit(p)
      <4>1. /\ UNCHANGED <<meta, pc, val>> /\ mem' = [mem EXCEPT ![p] = NoMetadata]
            /\ saved' = [saved EXCEPT ![p] = [o \in Objects |-> NoMetadata]]
            /\ \A o \in Objects : pc[p][o] = "idle"
        BY <3>1 DEF Exit, ForgetProcess, Idle, diskVars
      <4>2. \A q \in Procs : q # p => saved'[q] = saved[q]
        BY <4>1 DEF TypeOK
      <4> QED
        BY <4>1, <4>2
    <3>2. CASE Crash(p)
      <4>1. /\ meta' = meta /\ mem' = [mem EXCEPT ![p] = NoMetadata]
            /\ saved' = [saved EXCEPT ![p] = [o \in Objects |-> NoMetadata]]
            /\ pc' = [pc EXCEPT ![p] = [o \in Objects |-> "idle"]]
            /\ val' = [val EXCEPT ![p] = [o \in Objects |-> None]]
        BY <3>2 DEF Crash, ForgetProcess
      <4>2. \A q \in Procs : q # p =>
              saved'[q] = saved[q] /\ pc'[q] = pc[q] /\ val'[q] = val[q]
        BY <4>1 DEF TypeOK
      <4>3. \A o \in Objects : pc'[p][o] = "idle"
        BY <4>1 DEF TypeOK
      <4> QED
        BY <4>1, <4>2, <4>3
    <3> QED
      BY <1>8, <3>1, <3>2
  <2>2. \A q \in Procs, o \in Objects : WritesEntry(q, o)'
    BY <2>1 DEF WritesEntry, ClosedInv
  <2> QED
    BY <1>1, <1>3, <1>4, <2>1, <2>2 DEF ClosedInv
<1> QED
  BY <1>5, <1>6, <1>7, <1>8 DEF Process

(* The updates beside the operations.                                      *)
LEMMA AsideClosed ==
    ASSUME ClosedInv, Aside
    PROVE  ClosedInv'
<1> TypeOK /\ meta \in Metadata /\ Closed(meta) /\ NoMetadata \in Metadata
    /\ Empty \in Contents
  BY NoMetadataTyped, ConstantsAssumption DEF ClosedInv, TypeOK
<1>1. TypeOK'
  BY OthersTyped DEF Aside
<1>2. \A q \in Procs, o \in Objects : WritesEntry(q, o)'
  <2>1. UNCHANGED <<pc, val, saved>>
    BY DEF Aside, DayPasses, Chmod, SyncLink, MoveLink, MarkOrphan, ClearOrphan,
       MarkRecovery, UpdateLink, RegisterLink, opVars
  <2> QED
    BY <2>1 DEF ClosedInv, WritesEntry
<1>3. CASE DayPasses
  BY <1>1, <1>2, <1>3 DEF DayPasses, ClosedInv, Closed, Indexed
<1>4. ASSUME NEW p \in Procs, NEW o \in Objects, Chmod(p, o)
      PROVE  ClosedInv'
  <2>1. PICK m : m = SetFileMeta(meta, o, FileMeta(p, o))
    OBVIOUS
  <2>2. \/ Saved(p, m)
        \/ meta' \in {meta, m} /\ mem' = Refreshed(p, o)
    BY <1>4, <2>1 DEF Chmod
  <2>3. FileMeta(p, o) \in Contents
    <3>1. FileMeta(p, o) \in Sizes
      BY FileMetaTyped
    <3> QED
      BY <3>1, ConstantsAssumption DEF FileMeta, Indexed, Sizes
  <2>4. Closed(m)
    BY <2>1, <2>3, UpdatesClosed
  <2>5. /\ meta' \in {meta, m}
        /\ \E n \in {mem[p], meta, m} : mem' = [mem EXCEPT ![p] = n]
    BY <2>2, SaveEnds DEF Refreshed, TypeOK
  <2>6. Closed(meta)' /\ \A q \in Procs : Closed(mem'[q])
    BY <2>4, <2>5, SaveClosed
  <2> QED
    BY <1>1, <1>2, <2>6 DEF ClosedInv
<1>5. ASSUME NEW p \in Procs, NEW o \in Synced, SyncLink(p, o)
      PROVE  ClosedInv'
  <2>1. o \in Objects
    BY ConstantsAssumption
  <2>2. PICK m : Closed(m) /\ UpdateLink(p, m)
    <3>1. CASE MoveLink(p, o)
      BY <2>1, <3>1, UpdatesClosed DEF MoveLink
    <3>2. CASE MarkOrphan(p, o)
      BY <2>1, <3>2, UpdatesClosed DEF MarkOrphan
    <3>3. CASE ClearOrphan(p, o)
      BY <2>1, <3>3, UpdatesClosed DEF ClearOrphan
    <3>4. CASE MarkRecovery(p, o)
      BY <2>1, <3>4, UpdatesClosed DEF MarkRecovery
    <3> QED
      BY <1>5, <3>1, <3>2, <3>3, <3>4 DEF SyncLink
  <2>3. Saved(p, m) \/ SaveFails(p, m)
    BY <2>2 DEF UpdateLink
  <2>4. Closed(meta)' /\ \A q \in Procs : Closed(mem'[q])
    BY <2>2, <2>3, SaveEnds, SaveClosed
  <2> QED
    BY <1>1, <1>2, <2>4 DEF ClosedInv
<1>6. ASSUME NEW o \in Objects, RegisterLink(o)
      PROVE  ClosedInv'
  <2>1. PICK m : m = SetLinkSource(meta, o)
    OBVIOUS
  <2>2. Closed(m) /\ meta' = m /\ mem' = mem
    BY <1>6, <2>1, UpdatesClosed DEF RegisterLink
  <2>3. Closed(meta)' /\ \A q \in Procs : Closed(mem'[q])
    BY <2>2 DEF ClosedInv, Closed, Indexed
  <2> QED
    BY <1>1, <1>2, <2>3 DEF ClosedInv
<1> QED
  BY <1>3, <1>4, <1>5, <1>6 DEF Aside

(* Every step keeps the records closed.                                    *)
LEMMA NextClosed ==
    ASSUME ClosedInv, [Next]_vars
    PROVE  ClosedInv'
<1>1. CASE UNCHANGED vars
  BY <1>1 DEF vars, ClosedInv, TypeOK, WritesEntry, Closed, Indexed
<1>2. ASSUME NEW p \in Procs, NEW o \in Objects,
             Persist(p, o) \/ Remove(p, o) \/ Unprotect(p, o)
      PROVE  ClosedInv'
  <2>1. TypeOK
    BY DEF ClosedInv
  <2>2. TypeOK'
    BY <1>2, <2>1, PersistTyped, RemoveTyped, UnprotectTyped
  <2>3. /\ Closed(meta)' /\ \A q \in Procs : Closed(mem'[q])
        /\ WritesEntry(p, o)'
    BY <1>2, PersistClosed, RemoveClosed, UnprotectClosed
  <2>4. ASSUME NEW q \in Procs, NEW x \in Objects, q # p \/ x # o
        PROVE  WritesEntry(q, x)'
    <3>1. pc'[q][x] = pc[q][x] /\ val'[q][x] = val[q][x]
      BY <1>2, <2>1, <2>4, OperationLocal DEF LocalStep
    <3>2. saved'[q][x] = saved[q][x]
      BY <1>2, <2>1, <2>4, SavedLocal
    <3> QED
      BY <3>1, <3>2 DEF WritesEntry, ClosedInv
  <2> QED
    BY <2>2, <2>3, <2>4 DEF ClosedInv
<1>3. CASE Aside
  BY <1>3, AsideClosed
<1>4. ASSUME NEW p \in Procs, Process(p)
      PROVE  ClosedInv'
  BY <1>4, ProcessClosed
<1> QED
  BY <1>1, <1>2, <1>3, <1>4 DEF Next, Aside

(* No command can leave a link, orphan or recovery record of an object the *)
(* index does not know, on disk or in memory: what vault verification      *)
(* reports as a reference to an unknown object (vaultIndexForVerification).*)
THEOREM NoRecordDangles == Spec => []NoDanglingRecord
<1>1. Init => ClosedInv
  <2> SUFFICES ASSUME Init PROVE ClosedInv
    OBVIOUS
  <2>1. TypeOK
    BY InitIInv DEF IInv
  <2>2. Closed(NoMetadata)
    BY DEF Closed, NoMetadata
  <2> QED
    BY <2>1, <2>2 DEF Init, ClosedInv, WritesEntry
<1>2. ClosedInv /\ [Next]_vars => ClosedInv'
  BY NextClosed
<1>3. ClosedInv => NoDanglingRecord
  BY DEF ClosedInv, Closed, NoDanglingRecord
<1> QED
  BY <1>1, <1>2, <1>3, PTL DEF Spec

-----------------------------------------------------------------------------
(* What the index says of an object once an operation on it succeeded.     *)

(* metadata.json has no entry and no record of the object.                 *)
Forgotten(o) ==
    /\ ~Indexed(meta, o)
    /\ o \notin meta.links \cup meta.orphaned \cup meta.recovery

Serving(p) == Running(p) /\ proc[p].role = "serve"

(* The two acknowledgements and the steps that lead to them; the memory of *)
(* the server agrees with the disk, or has no entry and will look there.   *)
IndexFacts(o) ==
    /\ \A p \in Procs : Active(p, o) => result[o] = "none"
    /\ \A p \in Procs : pc[p][o] = "indexed" =>
          meta.files[o] = val[p][o] /\ mem[p].files[o] = val[p][o]
    /\ \A p \in Procs : pc[p][o] = "unindexed" => Forgotten(o)
    /\ result[o] = "written" =>
          /\ cipher[o] # NoFile /\ meta.files[o] = cipher[o].data
          /\ \A p \in Procs : Serving(p) => mem[p].files[o] \in {None, meta.files[o]}
    /\ result[o] = "unlinked" => cipher[o] = NoFile /\ Forgotten(o)

IndexInv == IInv /\ \A o \in Objects : IndexFacts(o)

(* An update for one object says nothing of another.                       *)
LEMMA UpdatesElsewhere ==
    ASSUME NEW m \in Metadata, NEW o \in Objects, NEW x \in Objects, x # o,
           NEW size \in Sizes, NEW old \in Metadata,
           NEW n \in {SetFileMeta(m, o, size), DeleteFileMetadata(m, o),
                      SetLinkSource(m, o), MarkLinkRecovery(m, o),
                      MarkLinkOrphan(m, o), ClearLinkOrphan(m, o),
                      RestoreUnprotect(m, old, o)}
    PROVE  /\ n.files[x] = m.files[x]
           /\ x \in n.links <=> x \in m.links
           /\ x \in n.orphaned <=> x \in m.orphaned
           /\ x \in n.recovery <=> x \in m.recovery
<1> USE DEF Metadata
<1>1. CASE n = SetFileMeta(m, o, size)
  BY <1>1 DEF SetFileMeta
<1>2. CASE n = DeleteFileMetadata(m, o)
  BY <1>2 DEF DeleteFileMetadata
<1>3. CASE n = SetLinkSource(m, o)
  BY <1>3 DEF SetLinkSource
<1>4. CASE n = MarkLinkRecovery(m, o)
  BY <1>4 DEF MarkLinkRecovery
<1>5. CASE n = MarkLinkOrphan(m, o) \/ n = ClearLinkOrphan(m, o)
  BY <1>5 DEF MarkLinkOrphan, ClearLinkOrphan
<1>6. CASE n = RestoreUnprotect(m, old, o)
  BY <1>6 DEF RestoreUnprotect
<1> QED
  BY <1>1, <1>2, <1>3, <1>4, <1>5, <1>6

(* A step that changes neither the entry of x nor the state of operations  *)
(* on it, and brings no record of it back.                                 *)
Elsewhere(p, x) ==
    /\ meta'.files[x] = meta.files[x]
    /\ Forgotten(x) => Forgotten(x)'
    /\ \E n \in {mem[p], meta, meta'} : mem' = [mem EXCEPT ![p] = n]
    /\ cipher'[x] = NoFile <=> cipher[x] = NoFile
    /\ cipher[x] # NoFile => cipher'[x].data = cipher[x].data
    /\ result'[x] = result[x]
    /\ \A q \in Procs : pc'[q][x] = pc[q][x] /\ val'[q][x] = val[q][x]
    /\ \A q \in Procs : Serving(q)' => Serving(q)

(* Such a step keeps what is known of x.                                   *)
LEMMA ElsewhereKeeps ==
    ASSUME TypeOK, NEW p \in Procs, NEW x \in Objects, IndexFacts(x), Elsewhere(p, x)
    PROVE  IndexFacts(x)'
<1>1. PICK n \in {mem[p], meta, meta'} : mem' = [mem EXCEPT ![p] = n]
  BY DEF Elsewhere
<1>2. \A q \in Procs : mem'[q] = IF q = p THEN n ELSE mem[q]
  BY <1>1 DEF TypeOK
<1>3. \A q \in Procs : mem'[q].files[x] \in {mem[q].files[x], meta.files[x]}
  BY <1>1, <1>2 DEF Elsewhere
<1>4. \A q \in Procs : Active(q, x)' => result'[x] = "none"
  BY DEF IndexFacts, Elsewhere, Active
<1>5. \A q \in Procs : pc'[q][x] = "indexed" =>
         meta'.files[x] = val'[q][x] /\ mem'[q].files[x] = val'[q][x]
  BY <1>3 DEF IndexFacts, Elsewhere
<1>6. \A q \in Procs : pc'[q][x] = "unindexed" => Forgotten(x)'
  BY DEF IndexFacts, Elsewhere
<1>7. result'[x] = "written" =>
        /\ cipher'[x] # NoFile /\ meta'.files[x] = cipher'[x].data
        /\ \A q \in Procs : Serving(q)' => mem'[q].files[x] \in {None, meta'.files[x]}
  BY <1>3 DEF IndexFacts, Elsewhere
<1>8. result'[x] = "unlinked" => cipher'[x] = NoFile /\ Forgotten(x)'
  BY DEF IndexFacts, Elsewhere
<1> QED
  BY <1>4, <1>5, <1>6, <1>7, <1>8 DEF IndexFacts

(* Nothing is claimed of an object whose last operation reported neither.  *)
LEMMA NothingClaimed ==
    ASSUME NEW o \in Objects, \A q \in Procs : pc'[q][o] = "idle",
           result'[o] \notin {"written", "unlinked"}
    PROVE  IndexFacts(o)'
BY DEF IndexFacts, Active

(* Nor of one in the middle of an operation, two steps excepted.           *)
LEMMA UnderWay ==
    ASSUME NEW p \in Procs, NEW o \in Objects,
           \A q \in Procs : q # p => pc'[q][o] = "idle",
           pc'[p][o] \notin {"indexed", "unindexed"}, result'[o] = "none"
    PROVE  IndexFacts(o)'
BY DEF IndexFacts, Active

(* How an operation changes the index: not, or by an update for its object *)
(* that succeeds or fails.                                                 *)
LEMMA OperationUpdates ==
    ASSUME TypeOK, NEW p \in Procs, NEW o \in Objects,
           Persist(p, o) \/ Remove(p, o) \/ Unprotect(p, o)
    PROVE  /\ \A x \in Objects : x # o =>
                /\ meta'.files[x] = meta.files[x]
                /\ Forgotten(x) => Forgotten(x)'
           /\ \E n \in {mem[p], meta, meta'} : mem' = [mem EXCEPT ![p] = n]
<1> DEFINE Goal == /\ \A x \in Objects : x # o =>
                        /\ meta'.files[x] = meta.files[x]
                        /\ Forgotten(x) => Forgotten(x)'
                   /\ \E n \in {mem[p], meta, meta'} : mem' = [mem EXCEPT ![p] = n]
<1> meta \in Metadata
  BY DEF TypeOK
<1>1. ASSUME UNCHANGED <<meta, mem>>
      PROVE  Goal
  <2>1. mem' = [mem EXCEPT ![p] = mem[p]]
    BY <1>1 DEF TypeOK
  <2> QED
    BY <1>1, <2>1 DEF Forgotten
<1>2. ASSUME NEW m, \/ Saved(p, m) \/ SaveFails(p, m) \/ Saves(p, m) \/ FailsToSave(p, m),
             NEW size \in Sizes, NEW old \in Metadata,
             m \in {SetFileMeta(meta, o, size), DeleteFileMetadata(meta, o),
                    SetLinkSource(meta, o), MarkLinkRecovery(meta, o),
                    MarkLinkOrphan(meta, o), ClearLinkOrphan(meta, o),
                    RestoreUnprotect(meta, old, o)}
      PROVE  Goal
  <2>1. meta' \in {meta, m}
    BY <1>2, SaveEnds
  <2>2. \E n \in {mem[p], meta'} : mem' = [mem EXCEPT ![p] = n]
    <3>1. CASE Saved(p, m) \/ Saves(p, m)
      BY <3>1 DEF Saved, Saves
    <3>2. CASE SaveFails(p, m) \/ FailsToSave(p, m)
      <4>1. mem' = mem
        BY <3>2 DEF SaveFails, FailsToSave
      <4>2. mem' = [mem EXCEPT ![p] = mem[p]]
        BY <4>1 DEF TypeOK
      <4> QED
        BY <4>2
    <3> QED
      BY <1>2, <3>1, <3>2
  <2>3. ASSUME NEW x \in Objects, x # o
        PROVE  /\ meta'.files[x] = meta.files[x]
               /\ Forgotten(x) => Forgotten(x)'
    <3>1. /\ m.files[x] = meta.files[x]
          /\ x \in m.links <=> x \in meta.links
          /\ x \in m.orphaned <=> x \in meta.orphaned
          /\ x \in m.recovery <=> x \in meta.recovery
      BY <1>2, <2>3, UpdatesElsewhere
    <3> QED
      BY <2>1, <3>1 DEF Forgotten, Indexed
  <2> QED
    BY <2>2, <2>3
<1>3. CASE Persist(p, o)
  <2>1. \/ UNCHANGED <<meta, mem>>
        \/ Saved(p, SetFileMeta(meta, o, val[p][o]))
        \/ SaveFails(p, SetFileMeta(meta, o, val[p][o]))
    BY <1>3 DEF Persist, PersistStage, PersistAbort, PersistSwap, PersistIndex,
       PersistIndexFails, PersistRollback, PersistRollbackFails, PersistFinish
  <2>2. val[p][o] \in Sizes
    BY DEF TypeOK
  <2> QED
    BY <1>1, <1>2, <2>1, <2>2
<1>4. CASE Remove(p, o)
  <2>1. CASE RemovePark(p, o)
    <3>1. meta' = meta /\ mem' = Refreshed(p, o)
      BY <2>1 DEF RemovePark
    <3>2. \E n \in {mem[p], meta} : mem' = [mem EXCEPT ![p] = n]
      BY <3>1 DEF Refreshed, TypeOK
    <3> QED
      BY <3>1, <3>2 DEF Forgotten
  <2>2. CASE RemoveFinish(p, o) \/ RemoveRestore(p, o) \/ RemoveRestoreFails(p, o)
    BY <1>1, <2>2 DEF RemoveFinish, RemoveRestore, RemoveRestoreFails
  <2>3. CASE RemoveUnindex(p, o) \/ RemoveUnindexFails(p, o)
    <3>1. \/ Saved(p, DeleteFileMetadata(meta, o))
          \/ SaveFails(p, DeleteFileMetadata(meta, o))
      BY <2>3 DEF RemoveUnindex, RemoveUnindexFails
    <3>2. None \in Sizes
      BY DEF Sizes
    <3> QED
      BY <1>2, <3>1, <3>2
  <2>4. CASE RemoveFinishFails(p, o)
    <3>1. PICK m : m = SetFileMeta(meta, o, saved[p][o].files[o])
      OBVIOUS
    <3>2. Saved(p, m) \/ Saves(p, m) \/ FailsToSave(p, m)
      BY <2>4, <3>1 DEF RemoveFinishFails
    <3>3. saved[p][o].files[o] \in Sizes
      BY DEF TypeOK, Metadata
    <3> QED
      BY <1>2, <3>1, <3>2, <3>3
  <2> QED
    BY <1>4, <2>1, <2>2, <2>3, <2>4 DEF Remove
<1>5. CASE Unprotect(p, o)
  <2>1. CASE UnprotectErase(p, o)
    BY <1>1, <2>1 DEF UnprotectErase
  <2>2. CASE UnprotectUnindex(p, o) \/ UnprotectUnindexFails(p, o)
    <3>1. \/ Saved(p, DeleteFileMetadata(meta, o))
          \/ SaveFails(p, DeleteFileMetadata(meta, o))
      BY <2>2 DEF UnprotectUnindex, UnprotectUnindexFails
    <3>2. None \in Sizes
      BY DEF Sizes
    <3> QED
      BY <1>2, <3>1, <3>2
  <2>3. CASE UnprotectEraseFails(p, o)
    <3>1. PICK m : m = RestoreUnprotect(meta, saved[p][o], o)
      OBVIOUS
    <3>2. Saves(p, m) \/ FailsToSave(p, m)
      BY <2>3, <3>1 DEF UnprotectEraseFails
    <3>3. saved[p][o] \in Metadata /\ None \in Sizes
      BY DEF TypeOK, Sizes
    <3> QED
      BY <1>2, <3>1, <3>2, <3>3
  <2> QED
    BY <1>5, <2>1, <2>2, <2>3 DEF Unprotect
<1> QED
  BY <1>3, <1>4, <1>5

(* The operation's own object, step by step.                               *)
LEMMA PersistIndexFacts ==
    ASSUME IInv, NEW p \in Procs, NEW o \in Objects, Persist(p, o), IndexFacts(o),
           HoldsInstanceLock(p),
           \A q \in Procs : q # p => pc'[q][o] = "idle"
    PROVE  IndexFacts(o)'
<1> TypeOK /\ StepFacts(p, o)
  BY DEF IInv, OperationFacts
<1>1. ASSUME NEW c \in Contents, PersistStage(p, o, c)
      PROVE  IndexFacts(o)'
  <2>1. pc'[p][o] = "staged" /\ result'[o] = "none"
    BY <1>1 DEF PersistStage, Begin, TypeOK
  <2> QED
    BY <2>1, UnderWay
<1>2. CASE PersistAbort(p, o) \/ PersistRollback(p, o) \/ PersistRollbackFails(p, o)
  <2>1. pc'[p][o] = "idle" /\ result'[o] = "error"
    BY <1>2 DEF PersistAbort, PersistRollback, PersistRollbackFails, Return, TypeOK
  <2> QED
    BY <2>1, NothingClaimed
<1>3. CASE PersistSwap(p, o) \/ PersistIndexFails(p, o)
  <2>1. /\ pc[p][o] # "idle" /\ pc'[p][o] \in {"swapped", "rollback"}
        /\ result' = result
    BY <1>3 DEF PersistSwap, PersistIndexFails, Advance, TypeOK
  <2>2. result'[o] = "none"
    BY <2>1 DEF IndexFacts, Active
  <2> QED
    BY <2>1, <2>2, UnderWay
<1>4. CASE PersistIndex(p, o)
  <2>1. PICK m : m = SetFileMeta(meta, o, val[p][o])
    OBVIOUS
  <2>2. /\ pc[p][o] = "swapped" /\ pc'[p][o] = "indexed" /\ val' = val
        /\ result' = result /\ meta' = m /\ mem' = [mem EXCEPT ![p] = m]
    BY <1>4, <2>1 DEF PersistIndex, Advance, Saved, Saves, TypeOK
  <2>3. m.files[o] = val[p][o]
    BY <2>1 DEF SetFileMeta, TypeOK, Metadata
  <2>4. mem'[p] = m
    BY <2>2 DEF TypeOK
  <2>5. result'[o] = "none"
    BY <2>2 DEF IndexFacts, Active
  <2> QED
    BY <2>2, <2>3, <2>4, <2>5 DEF IndexFacts, Active
<1>5. CASE PersistFinish(p, o)
  <2>1. /\ pc[p][o] = "indexed" /\ pc'[p][o] = "idle" /\ result'[o] \in {"written", "error"}
        /\ UNCHANGED <<cipher, meta, mem, proc>>
    BY <1>5 DEF PersistFinish, Return, TypeOK
  <2>2. CASE result'[o] = "error"
    BY <2>1, <2>2, NothingClaimed
  <2>3. CASE result'[o] = "written"
    <3>1. /\ cipher[o] # NoFile /\ cipher[o].data = val[p][o]
          /\ meta.files[o] = val[p][o] /\ mem[p].files[o] = val[p][o]
      BY <2>1 DEF StepFacts, IndexFacts
    <3>2. \A q \in Procs : Serving(q)' => q = p
      BY <2>1 DEF Serving, IInv, Coordination, HoldsInstanceLock
    <3> QED
      BY <2>1, <2>3, <3>1, <3>2 DEF IndexFacts, Active
  <2> QED
    BY <2>1, <2>2, <2>3
<1> QED
  BY <1>1, <1>2, <1>3, <1>4, <1>5 DEF Persist

(* What an unlink does to the facts about its own object.                  *)
LEMMA RemoveIndexFacts ==
    ASSUME IInv, NEW p \in Procs, NEW o \in Objects, Remove(p, o), IndexFacts(o),
           \A q \in Procs : q # p => pc'[q][o] = "idle"
    PROVE  IndexFacts(o)'
<1> TypeOK /\ StepFacts(p, o)
  BY DEF IInv, OperationFacts
<1>1. CASE RemovePark(p, o)
  <2>1. pc'[p][o] = "parked" /\ result'[o] = "none"
    BY <1>1 DEF RemovePark, Begin, TypeOK
  <2> QED
    BY <2>1, UnderWay
<1>2. CASE RemoveUnindex(p, o)
  <2>1. PICK m : m = DeleteFileMetadata(meta, o)
    OBVIOUS
  <2>2. /\ pc[p][o] = "parked" /\ pc'[p][o] = "unindexed"
        /\ result' = result /\ meta' = m
    BY <1>2, <2>1 DEF RemoveUnindex, Advance, Saved, Saves, TypeOK
  <2>3. Forgotten(o)'
    BY <2>1, <2>2 DEF DeleteFileMetadata, Forgotten, Indexed, TypeOK, Metadata
  <2>4. result'[o] = "none"
    BY <2>2 DEF IndexFacts, Active
  <2> QED
    BY <2>2, <2>3, <2>4 DEF IndexFacts, Active
<1>3. CASE RemoveUnindexFails(p, o) \/ RemoveFinishFails(p, o)
  <2>1. /\ pc[p][o] # "idle" /\ pc'[p][o] = "restore" /\ result' = result
    BY <1>3 DEF RemoveUnindexFails, RemoveFinishFails, Advance, TypeOK
  <2>2. result'[o] = "none"
    BY <2>1 DEF IndexFacts, Active
  <2> QED
    BY <2>1, <2>2, UnderWay
<1>4. CASE RemoveFinish(p, o)
  <2>1. /\ pc[p][o] = "unindexed" /\ pc'[p][o] = "idle"
        /\ result'[o] \in {"unlinked", "error"} /\ UNCHANGED <<cipher, meta>>
    BY <1>4 DEF RemoveFinish, Return, TypeOK
  <2>2. cipher'[o] = NoFile /\ Forgotten(o)'
    BY <2>1 DEF StepFacts, IndexFacts, Forgotten
  <2> QED
    BY <2>1, <2>2 DEF IndexFacts, Active
<1>5. CASE RemoveRestore(p, o) \/ RemoveRestoreFails(p, o)
  <2>1. pc'[p][o] = "idle" /\ result'[o] = "error"
    BY <1>5 DEF RemoveRestore, RemoveRestoreFails, Return, TypeOK
  <2> QED
    BY <2>1, NothingClaimed
<1> QED
  BY <1>1, <1>2, <1>3, <1>4, <1>5 DEF Remove

(* What an unprotect does to them.                                         *)
LEMMA UnprotectIndexFacts ==
    ASSUME IInv, NEW p \in Procs, NEW o \in Objects, Unprotect(p, o), IndexFacts(o),
           \A q \in Procs : q # p => pc'[q][o] = "idle"
    PROVE  IndexFacts(o)'
<1> TypeOK
  BY DEF IInv
<1>1. CASE UnprotectUnindex(p, o)
  <2>1. pc'[p][o] = "forgotten" /\ result'[o] = "none"
    BY <1>1 DEF UnprotectUnindex, Begin, TypeOK
  <2> QED
    BY <2>1, UnderWay
<1>2. CASE UnprotectUnindexFails(p, o) \/ UnprotectErase(p, o)
           \/ UnprotectEraseFails(p, o)
  <2>1. pc'[p][o] = "idle" /\ result'[o] \in {"erased", "error"}
    BY <1>2 DEF UnprotectUnindexFails, UnprotectErase, UnprotectEraseFails, Return,
       Idle, TypeOK
  <2> QED
    BY <2>1, NothingClaimed
<1> QED
  BY <1>1, <1>2 DEF Unprotect

(* Loading, refreshing, exiting and dying, with x in any state.            *)
LEMMA ProcessIndexFacts ==
    ASSUME IInv, NEW p \in Procs, Process(p), NEW x \in Objects, IndexFacts(x)
    PROVE  IndexFacts(x)'
<1> TypeOK /\ Coordination /\ meta \in Metadata
    /\ \A q \in Procs : StepFacts(q, x)
  BY DEF IInv, OperationFacts, TypeOK
<1>1. ASSUME NEW role \in Roles, LoadCleanup(p, role)
      PROVE  IndexFacts(x)'
  <2>1. /\ UNCHANGED <<cipher, meta, mem, pc, val, result>>
        /\ proc' = [proc EXCEPT ![p] = [role |-> role, phase |-> "cleaned"]]
    BY <1>1 DEF LoadCleanup, opVars
  <2>2. \A q \in Procs : Serving(q)' => Serving(q)
    BY <2>1 DEF Serving, Running, TypeOK
  <2>3. mem' = [mem EXCEPT ![p] = mem[p]]
    BY <2>1 DEF TypeOK
  <2>4. Elsewhere(p, x)
    BY <2>1, <2>2, <2>3 DEF Elsewhere, Forgotten
  <2> QED
    BY <2>4, ElsewhereKeeps
<1>2. CASE LoadMetadata(p)
  <2>1. PICK m : m = Reconcile(meta)
    OBVIOUS
  <2>2. /\ UNCHANGED <<cipher, pc, val, result>> /\ proc[p].phase = "cleaned"
        /\ \/ Saved(p, m) /\ proc' = [proc EXCEPT ![p] = [role |-> proc[p].role,
                                                          phase |-> "up"]]
           \/ SaveFails(p, m) /\ proc' = [proc EXCEPT ![p] = Down]
    BY <1>2, <2>1 DEF LoadMetadata, opVars
  <2>3. Indexed(meta, x) => m.files[x] = meta.files[x]
    BY <2>1 DEF Reconcile, Indexed
  <2>4. cipher[x] = NoFile /\ Forgotten(x) =>
          ~Indexed(m, x) /\ x \notin m.links \cup m.orphaned \cup m.recovery
    BY <2>1 DEF Reconcile, Indexed, Forgotten
  <2>5. meta' \in {meta, m}
    BY <2>2 DEF Saved, Saves, SaveFails, FailsToSave
  <2>6. Indexed(meta, x) => meta'.files[x] = meta.files[x]
    BY <2>3, <2>5
  <2>7. cipher[x] = NoFile /\ Forgotten(x) => Forgotten(x)'
    BY <2>4, <2>5 DEF Forgotten
  <2>8. \A q \in Procs : q # p => mem'[q] = mem[q] /\ proc'[q] = proc[q]
    BY <2>2 DEF Saved, Saves, SaveFails, FailsToSave, TypeOK
  <2>9. Serving(p)' => mem'[p] = meta'
    <3>1. CASE Saved(p, m)
      BY <3>1 DEF Saved, Saves, TypeOK
    <3>2. CASE proc' = [proc EXCEPT ![p] = Down]
      BY <3>2 DEF Serving, Running, Down, TypeOK
    <3> QED
      BY <2>2, <3>1, <3>2
  <2>10. pc[p][x] = "idle"
    BY <2>2 DEF Coordination, Active
  <2>11. \A q \in Procs : Active(q, x)' => result'[x] = "none"
    BY <2>2 DEF IndexFacts, Active
  <2>12. ASSUME NEW q \in Procs, pc'[q][x] = "indexed"
         PROVE  meta'.files[x] = val'[q][x] /\ mem'[q].files[x] = val'[q][x]
    <3>1. q # p /\ pc[q][x] = "indexed" /\ val'[q][x] = val[q][x]
      BY <2>2, <2>10, <2>12
    <3>2. meta.files[x] = val[q][x] /\ mem[q].files[x] = val[q][x]
      BY <3>1 DEF IndexFacts
    <3>3. cipher[x] # NoFile /\ cipher[x].data = val[q][x]
      BY <3>1 DEF StepFacts
    <3>4. Indexed(meta, x)
      BY <3>2, <3>3, ConstantsAssumption DEF Indexed, TypeOK, File
    <3> QED
      BY <2>6, <2>8, <3>1, <3>2, <3>4
  <2>13. ASSUME NEW q \in Procs, pc'[q][x] = "unindexed"
         PROVE  Forgotten(x)'
    <3>1. cipher[x] = NoFile /\ Forgotten(x)
      BY <2>2, <2>13 DEF StepFacts, IndexFacts
    <3> QED
      BY <2>7, <3>1
  <2>14. ASSUME result'[x] = "written"
         PROVE  /\ cipher'[x] # NoFile /\ meta'.files[x] = cipher'[x].data
                /\ \A q \in Procs : Serving(q)' => mem'[q].files[x] \in {None, meta'.files[x]}
    <3>1. cipher[x] # NoFile /\ meta.files[x] = cipher[x].data
      BY <2>2, <2>14 DEF IndexFacts
    <3>2. Indexed(meta, x)
      BY <3>1, ConstantsAssumption DEF Indexed, TypeOK, File
    <3>3. \A q \in Procs : q # p /\ Serving(q)' => mem'[q].files[x] \in {None, meta'.files[x]}
      BY <2>2, <2>6, <2>8, <2>14, <3>2 DEF IndexFacts, Serving, Running
    <3> QED
      BY <2>2, <2>6, <2>9, <3>1, <3>2, <3>3
  <2>15. result'[x] = "unlinked" => cipher'[x] = NoFile /\ Forgotten(x)'
    BY <2>2, <2>7 DEF IndexFacts
  <2> QED
    BY <2>11, <2>12, <2>13, <2>14, <2>15 DEF IndexFacts
<1>3. CASE RefreshMetadata(p)
  <2>1. /\ UNCHANGED <<cipher, meta, proc, pc, val, result>>
        /\ mem' = [mem EXCEPT ![p] = meta]
    BY <1>3 DEF RefreshMetadata, diskVars, opVars
  <2>2. Elsewhere(p, x)
    BY <2>1 DEF Elsewhere, Forgotten, Serving, Running
  <2> QED
    BY <2>2, ElsewhereKeeps
<1>4. CASE Exit(p) \/ Crash(p)
  <2>1. /\ UNCHANGED <<cipher, meta>>
        /\ mem' = [mem EXCEPT ![p] = NoMetadata] /\ proc' = [proc EXCEPT ![p] = Down]
        /\ result'[x] \in {result[x], "error"}
        /\ pc[p][x] # "idle" => result'[x] = "error"
        /\ pc[p][x] = "idle" => result'[x] = result[x]
    BY <1>4 DEF Exit, Crash, ForgetProcess, Idle, diskVars
  <2>2. /\ pc'[p][x] = "idle"
        /\ \A q \in Procs : q # p => pc'[q] = pc[q] /\ val'[q] = val[q]
    <3>1. CASE Exit(p)
      BY <3>1 DEF Exit, Idle
    <3>2. CASE Crash(p)
      BY <3>2 DEF Crash, TypeOK
    <3> QED
      BY <1>4, <3>1, <3>2
  <2>3. \A q \in Procs : q # p => mem'[q] = mem[q] /\ proc'[q] = proc[q]
    BY <2>1 DEF TypeOK
  <2>4. ~Serving(p)'
    BY <2>1 DEF Serving, Running, Down, TypeOK
  <2>5. Forgotten(x)' = Forgotten(x)
    BY <2>1 DEF Forgotten
  <2>6. CASE pc[p][x] = "idle"
    <3>1. result'[x] = result[x]
      BY <2>1, <2>6
    <3>2. \A q \in Procs : Active(q, x)' => result'[x] = "none"
      BY <2>2, <3>1 DEF IndexFacts, Active
    <3>3. \A q \in Procs : pc'[q][x] = "indexed" =>
             meta'.files[x] = val'[q][x] /\ mem'[q].files[x] = val'[q][x]
      BY <2>1, <2>2, <2>3 DEF IndexFacts
    <3>4. \A q \in Procs : pc'[q][x] = "unindexed" => Forgotten(x)'
      BY <2>2, <2>5 DEF IndexFacts
    <3>5. \A q \in Procs : Serving(q)' => q # p /\ Serving(q)
      BY <2>3, <2>4 DEF Serving, Running
    <3>6. result'[x] = "written" =>
            /\ cipher'[x] # NoFile /\ meta'.files[x] = cipher'[x].data
            /\ \A q \in Procs : Serving(q)' => mem'[q].files[x] \in {None, meta'.files[x]}
      BY <2>1, <2>3, <3>1, <3>5 DEF IndexFacts
    <3>7. result'[x] = "unlinked" => cipher'[x] = NoFile /\ Forgotten(x)'
      BY <2>1, <2>5, <3>1 DEF IndexFacts
    <3> QED
      BY <3>2, <3>3, <3>4, <3>6, <3>7 DEF IndexFacts
  <2>7. CASE pc[p][x] # "idle"
    <3>1. \A q \in Procs : pc'[q][x] = "idle"
      BY <2>2, <2>7, Exclusive DEF Active
    <3> QED
      BY <2>1, <2>7, <3>1, NothingClaimed
  <2> QED
    BY <2>6, <2>7
<1> QED
  BY <1>1, <1>2, <1>3, <1>4 DEF Process

(* The updates beside the operations: a day, a chmod and the records of    *)
(* links.  A chmod re-records the size that was acknowledged, since the    *)
(* server's memory agrees with the disk; a link is recorded only for an    *)
(* indexed object.                                                         *)
LEMMA AsideIndexFacts ==
    ASSUME IInv, Aside, NEW x \in Objects, IndexFacts(x)
    PROVE  IndexFacts(x)'
<1> TypeOK /\ Coordination /\ meta \in Metadata /\ None \in Sizes
    /\ NoMetadata \in Metadata
  BY NoMetadataTyped DEF IInv, TypeOK, Sizes
<1>1. CASE DayPasses
  <2>1. /\ UNCHANGED <<meta, mem, proc, pc, val, result>>
        /\ cipher'[x] = Aged(cipher[x]) /\ cipher[x] \in File \cup {NoFile}
    BY <1>1 DEF DayPasses, opVars, TypeOK
  <2>2. /\ cipher'[x] = NoFile <=> cipher[x] = NoFile
        /\ cipher[x] # NoFile => cipher'[x].data = cipher[x].data
    <3>1. CASE cipher[x] = NoFile
      BY <2>1, <3>1 DEF Aged
    <3>2. CASE cipher[x] \in File
      <4>1. cipher'[x] = [cipher[x] EXCEPT !.old = TRUE] /\ cipher[x] # NoFile
        BY <2>1, <3>2, ConstantsAssumption DEF Aged
      <4>2. cipher'[x] \in File /\ cipher'[x].data = cipher[x].data
        BY <3>2, <4>1 DEF File
      <4> QED
        BY <4>1, <4>2, ConstantsAssumption
    <3> QED
      BY <2>1, <3>1, <3>2
  <2> QED
    BY <2>1, <2>2 DEF IndexFacts, Active, Forgotten, Serving, Running
<1>2. ASSUME NEW p \in Procs, NEW o \in Objects, Chmod(p, o)
      PROVE  IndexFacts(x)'
  <2>1. PICK m : m = SetFileMeta(meta, o, FileMeta(p, o))
    OBVIOUS
  <2>2. /\ Serving(p) /\ pc[p][o] = "idle" /\ cipher[o] # NoFile
        /\ UNCHANGED <<cipher, proc, pc, val, result>>
        /\ \/ Saved(p, m)
           \/ meta' \in {meta, m} /\ mem' = Refreshed(p, o)
    BY <1>2, <2>1 DEF Chmod, Serving, opVars
  <2>3. meta' \in {meta, m}
    BY <2>2, SaveEnds
  <2>4. \E n \in {mem[p], meta, meta'} : mem' = [mem EXCEPT ![p] = n]
    <3>1. CASE Saved(p, m)
      BY <3>1 DEF Saved, Saves
    <3>2. CASE mem' = Refreshed(p, o)
      BY <3>2 DEF Refreshed, TypeOK
    <3> QED
      BY <2>2, <3>1, <3>2
  <2>5. FileMeta(p, o) \in Sizes
    BY FileMetaTyped
  <2>6. ASSUME meta'.files[x] = meta.files[x], Forgotten(x) => Forgotten(x)'
        PROVE  IndexFacts(x)'
    <3>1. Elsewhere(p, x)
      BY <2>2, <2>4, <2>6 DEF Elsewhere, Serving, Running
    <3> QED
      BY <3>1, ElsewhereKeeps
  <2>7. CASE x # o
    <3>1. /\ m.files[x] = meta.files[x]
          /\ x \in m.links <=> x \in meta.links
          /\ x \in m.orphaned <=> x \in meta.orphaned
          /\ x \in m.recovery <=> x \in meta.recovery
      BY <2>1, <2>5, <2>7, UpdatesElsewhere
    <3> QED
      BY <2>3, <2>6, <3>1 DEF Forgotten, Indexed
  <2>8. CASE x = o /\ result[x] = "written"
    <3>1. /\ meta.files[x] = cipher[x].data /\ cipher[x].data # None
          /\ mem[p].files[x] \in {None, meta.files[x]}
      BY <2>2, <2>8, ConstantsAssumption DEF IndexFacts, TypeOK, File
    <3>2. FileMeta(p, o) = meta.files[x]
      BY <2>8, <3>1 DEF FileMeta, Indexed
    <3>3. m.files[x] = meta.files[x]
      BY <2>1, <2>8, <3>2 DEF SetFileMeta, Metadata
    <3>4. ~Forgotten(x)
      BY <3>1 DEF Forgotten, Indexed
    <3> QED
      BY <2>3, <2>6, <3>3, <3>4
  <2>9. CASE x = o /\ result[x] # "written"
    <3>1. \A q \in Procs : pc'[q][x] = "idle"
      <4>1. HoldsInstanceLock(p)
        BY <2>2 DEF Serving, HoldsInstanceLock
      <4> QED
        BY <2>2, <2>9, <4>1, Alone
    <3>2. result'[x] \notin {"written", "unlinked"}
      BY <2>2, <2>9 DEF IndexFacts
    <3> QED
      BY <3>1, <3>2, NothingClaimed
  <2> QED
    BY <2>7, <2>8, <2>9
<1>3. ASSUME NEW m,
             m.files = meta.files,
             Forgotten(x) => x \notin m.links \cup m.orphaned \cup m.recovery,
             meta' \in {meta, m}, UNCHANGED <<cipher, proc, pc, val, result>>
      PROVE  meta'.files[x] = meta.files[x] /\ (Forgotten(x) => Forgotten(x)')
  BY <1>3 DEF Forgotten, Indexed
<1>4. ASSUME NEW p \in Procs, NEW o \in Synced, SyncLink(p, o)
      PROVE  IndexFacts(x)'
  <2>1. PICK m : /\ UpdateLink(p, m) /\ m.files = meta.files
                 /\ Forgotten(x) => x \notin m.links \cup m.orphaned \cup m.recovery
    <3>0. ASSUME Forgotten(x), Indexed(meta, o)
          PROVE  x # o
      BY <3>0 DEF Forgotten
    <3>1. CASE MoveLink(p, o)
      <4>1. PICK m : m = SetLinkSource(meta, o)
        OBVIOUS
      <4>2. UpdateLink(p, m) /\ Indexed(meta, o)
        BY <4>1, <3>1 DEF MoveLink
      <4>3. m.files = meta.files
        BY <4>1 DEF SetLinkSource, Metadata
      <4>4. Forgotten(x) => x \notin m.links \cup m.orphaned \cup m.recovery
        BY <3>0, <4>1, <4>2 DEF SetLinkSource, Forgotten, Metadata
      <4> QED
        BY <4>2, <4>3, <4>4
    <3>2. CASE MarkOrphan(p, o)
      <4>1. PICK m : m = MarkLinkOrphan(meta, o)
        OBVIOUS
      <4>2. UpdateLink(p, m) /\ Indexed(meta, o)
        BY <4>1, <3>2 DEF MarkOrphan
      <4>3. m.files = meta.files
        BY <4>1 DEF MarkLinkOrphan, Metadata
      <4>4. Forgotten(x) => x \notin m.links \cup m.orphaned \cup m.recovery
        BY <3>0, <4>1, <4>2 DEF MarkLinkOrphan, Forgotten, Metadata
      <4> QED
        BY <4>2, <4>3, <4>4
    <3>3. CASE ClearOrphan(p, o)
      <4>1. PICK m : m = ClearLinkOrphan(meta, o)
        OBVIOUS
      <4>2. UpdateLink(p, m)
        BY <4>1, <3>3 DEF ClearOrphan
      <4>3. m.files = meta.files
        BY <4>1 DEF ClearLinkOrphan, Metadata
      <4>4. Forgotten(x) => x \notin m.links \cup m.orphaned \cup m.recovery
        BY <3>0, <4>1, <4>2 DEF ClearLinkOrphan, Forgotten, Metadata
      <4> QED
        BY <4>2, <4>3, <4>4
    <3>4. CASE MarkRecovery(p, o)
      <4>1. PICK m : m = MarkLinkRecovery(meta, o)
        OBVIOUS
      <4>2. UpdateLink(p, m) /\ Indexed(meta, o)
        BY <4>1, <3>4 DEF MarkRecovery
      <4>3. m.files = meta.files
        BY <4>1 DEF MarkLinkRecovery, Metadata
      <4>4. Forgotten(x) => x \notin m.links \cup m.orphaned \cup m.recovery
        BY <3>0, <4>1, <4>2 DEF MarkLinkRecovery, Forgotten, Metadata
      <4> QED
        BY <4>2, <4>3, <4>4
    <3> QED
      BY <1>4, <3>1, <3>2, <3>3, <3>4 DEF SyncLink
  <2>2. /\ Saved(p, m) \/ SaveFails(p, m)
        /\ UNCHANGED <<cipher, proc, pc, val, result>>
    BY <2>1 DEF UpdateLink, opVars
  <2>3. /\ meta' \in {meta, m}
        /\ \E n \in {mem[p], meta'} : mem' = [mem EXCEPT ![p] = n]
    <3>1. CASE Saved(p, m)
      BY <3>1 DEF Saved, Saves
    <3>2. CASE SaveFails(p, m)
      <4>1. mem' = [mem EXCEPT ![p] = mem[p]]
        BY <3>2 DEF SaveFails, FailsToSave, TypeOK
      <4> QED
        BY <3>2, <4>1 DEF SaveFails, FailsToSave
    <3> QED
      BY <2>2, <3>1, <3>2
  <2>4. meta'.files[x] = meta.files[x] /\ (Forgotten(x) => Forgotten(x)')
    BY <1>3, <2>1, <2>2, <2>3
  <2>5. Elsewhere(p, x)
    BY <2>2, <2>3, <2>4 DEF Elsewhere, Serving, Running
  <2> QED
    BY <2>5, ElsewhereKeeps
<1>5. ASSUME NEW o \in Objects, RegisterLink(o)
      PROVE  IndexFacts(x)'
  <2>1. /\ meta' = SetLinkSource(meta, o) /\ Indexed(meta, o)
        /\ UNCHANGED <<cipher, mem, proc, pc, val, result>>
    BY <1>5 DEF RegisterLink, opVars
  <2>2. meta'.files[x] = meta.files[x] /\ (Forgotten(x) => Forgotten(x)')
    BY <2>1 DEF SetLinkSource, Forgotten, Indexed
  <2> QED
    BY <2>1, <2>2 DEF IndexFacts, Active, Serving, Running
<1> QED
  BY <1>1, <1>2, <1>4, <1>5 DEF Aside

(* Every step keeps what the index says.                                   *)
LEMMA NextIndexInv ==
    ASSUME IndexInv, "purge" \notin Roles, [Next]_vars
    PROVE  IndexInv'
<1>1. IInv'
  BY NextIInv DEF IndexInv
<1> SUFFICES ASSUME NEW x \in Objects
             PROVE  IndexFacts(x)'
  BY <1>1 DEF IndexInv
<1>2. IInv /\ IndexFacts(x) /\ TypeOK
  BY DEF IndexInv, IInv
<1>3. CASE UNCHANGED vars
  BY <1>2, <1>3 DEF vars, IndexFacts, Active, Forgotten, Serving, Running
<1>4. ASSUME NEW p \in Procs, Process(p)
      PROVE  IndexFacts(x)'
  BY <1>2, <1>4, ProcessIndexFacts
<1>5. CASE Aside
  BY <1>2, <1>5, AsideIndexFacts
<1>6. ASSUME NEW p \in Procs, NEW o \in Objects,
             Persist(p, o) \/ Remove(p, o) \/ Unprotect(p, o)
      PROVE  IndexFacts(x)'
  <2>1. \A q \in Procs : q # p => pc'[q][o] = "idle"
    BY <1>2, <1>6, OperationAlone
  <2>2. LocalStep(p, o)
    BY <1>2, <1>6, OperationLocal
  <2>3. CASE x = o
    <3>1. CASE Persist(p, o)
      <4>1. proc[p].role = "serve"
        <5>1. pc[p][o] = "idle" => \E c \in Contents : PersistStage(p, o, c)
          BY <3>1 DEF Persist, PersistAbort, PersistSwap, PersistIndex,
             PersistIndexFails, PersistRollback, PersistRollbackFails, PersistFinish
        <5>2. pc[p][o] # "forgotten"
          BY <3>1 DEF Persist, PersistStage, PersistAbort, PersistSwap, PersistIndex,
             PersistIndexFails, PersistRollback, PersistRollbackFails, PersistFinish
        <5> QED
          BY <1>2, <5>1, <5>2 DEF PersistStage, IInv, Coordination, Active
      <4> QED
        BY <1>2, <2>1, <2>3, <3>1, <4>1, PersistIndexFacts DEF HoldsInstanceLock
    <3>2. CASE Remove(p, o)
      BY <1>2, <2>1, <2>3, <3>2, RemoveIndexFacts
    <3>3. CASE Unprotect(p, o)
      BY <1>2, <2>1, <2>3, <3>3, UnprotectIndexFacts
    <3> QED
      BY <1>6, <3>1, <3>2, <3>3
  <2>4. CASE x # o
    <3>1. /\ meta'.files[x] = meta.files[x]
          /\ Forgotten(x) => Forgotten(x)'
          /\ \E n \in {mem[p], meta, meta'} : mem' = [mem EXCEPT ![p] = n]
      BY <1>2, <1>6, <2>4, OperationUpdates
    <3>2. proc' = proc
      BY <1>2, <1>6, OperationMoves DEF OperationMove
    <3>3. Elsewhere(p, x)
      BY <2>2, <2>4, <3>1, <3>2 DEF Elsewhere, LocalStep, Serving, Running
    <3> QED
      BY <1>2, <3>3, ElsewhereKeeps
  <2> QED
    BY <2>3, <2>4
<1> QED
  BY <1>3, <1>4, <1>5, <1>6 DEF Next, Aside

(* It holds in every reachable state.                                      *)
LEMMA IndexInvariance == ASSUME "purge" \notin Roles PROVE Spec => []IndexInv
<1>1. Init => IndexInv
  <2> SUFFICES ASSUME Init PROVE IndexInv
    OBVIOUS
  <2>1. \A p \in Procs, o \in Objects : pc[p][o] = "idle"
    BY DEF Init
  <2>2. \A o \in Objects : result[o] = "none"
    BY DEF Init
  <2>3. \A o \in Objects : IndexFacts(o)
    BY <2>1, <2>2 DEF IndexFacts, Active
  <2> QED
    BY <2>3, InitIInv DEF IndexInv
<1>2. IndexInv /\ [Next]_vars => IndexInv'
  BY NextIndexInv
<1> QED
  BY <1>1, <1>2, PTL DEF Spec

(* An acknowledged persistFile has its ciphertext in place and its size in *)
(* metadata.json until the next operation on the object, whatever other    *)
(* updates, loads, crashes and chmods run, a purge excepted.               *)
THEOREM WriteStaysIndexed ==
    ASSUME "purge" \notin Roles PROVE Spec => []AcknowledgedWriteIndexed
<1>1. IndexInv => AcknowledgedWriteIndexed
  BY DEF IndexInv, IndexFacts, AcknowledgedWriteIndexed
<1> QED
  BY <1>1, IndexInvariance, PTL

(* An acknowledged removeProtectedFileLocked leaves no ciphertext, entry   *)
(* or record behind, and none comes back until the object is written anew. *)
THEOREM UnlinkIsFinal ==
    ASSUME "purge" \notin Roles PROVE Spec => []UnlinkedStaysForgotten
<1>1. IndexInv => UnlinkedStaysForgotten
  BY DEF IndexInv, IndexFacts, UnlinkedStaysForgotten, Forgotten
<1> QED
  BY <1>1, IndexInvariance, PTL
=============================================================================
