---------------------------- MODULE HandleProofs ----------------------------
(***************************************************************************)
(* Proofs about the open files of a mounted volume: about HandleLocks, for *)
(* every set of objects, handles and contents, and then about OpenHandle,  *)
(* for any set of concurrent calls, any file size limit and both values of *)
(* the append workaround.                                                  *)
(*                                                                         *)
(* The locks admit one writable handle of an object at a time and keep     *)
(* Unlink out until its Close; under those locks the calls on that handle  *)
(* still interleave, which is what OpenHandle is about.  The two           *)
(* specifications share no variable.                                       *)
(***************************************************************************)
EXTENDS HandleLocks, OpenHandle, FiniteSetTheorems, TLAPS

-----------------------------------------------------------------------------
(* HandleLocks.  The inductive invariant: who holds which lock follows     *)
(* from how far the requests have come.                                    *)

HoldsPath(h, o) == obj[h] = o /\ step[h] \in {"locked", "open"}

NamespaceHeld ==
    \A h \in Handles : h \in nsReaders <=>
        step[h] \in {"path", "announced", "locked"} \/ WritableOpen(h)

PathHeld ==
    \A h \in Handles, o \in Objects :
        /\ h \in pathReaders[o] <=> HoldsPath(h, o) /\ ~Exclusive(kind[h])
        /\ pathWriter[o] = h <=> HoldsPath(h, o) /\ Exclusive(kind[h])
        /\ pathPending[o] = h <=> obj[h] = o /\ step[h] = "announced"

Waiting ==
    /\ \A h \in Handles : step[h] = "free" <=> obj[h] = None
    /\ \A h \in Handles : step[h] = "announced" => Exclusive(kind[h])

MutualExclusion ==
    /\ nsWriter # None => nsReaders = {} /\ nsPending = None
    /\ nsWriter = "unlink" <=> removing # None
    /\ \A o \in Objects : pathWriter[o] # None =>
          pathReaders[o] = {} /\ pathPending[o] = None

LockInv == NamespaceHeld /\ PathHeld /\ Waiting /\ MutualExclusion

IInv == TypeOK /\ LockInv /\ WriterSeesStored /\ AcceptedWriteFits

(* Initially nothing is open and every lock is free.                       *)
LEMMA InitIInv == Init => IInv
<1> SUFFICES ASSUME Init PROVE IInv
  OBVIOUS
<1>1. TypeOK
  BY HandleAssumption DEF Init, TypeOK, Steps, Kinds
<1>2. LockInv
  BY HandleAssumption DEF Init, LockInv, NamespaceHeld, PathHeld, Waiting,
     MutualExclusion, HoldsPath, WritableOpen
<1>3. WriterSeesStored /\ AcceptedWriteFits
  BY DEF Init, WriterSeesStored, AcceptedWriteFits, WritableOpen
<1> QED
  BY <1>1, <1>2, <1>3 DEF IInv

(* A request under way names an object.                                    *)
LEMMA NamesObject ==
    ASSUME IInv, NEW h \in Handles, step[h] # "free"
    PROVE  obj[h] \in Objects
BY DEF IInv, LockInv, Waiting, TypeOK

(* A request that is over leaves well-typed fields behind.                 *)
LEMMA ForgetTyped ==
    ASSUME TypeOK, NEW h \in Handles, Forget(h)
    PROVE  /\ step' \in [Handles -> Steps] /\ kind' \in [Handles -> Kinds]
           /\ obj' \in [Handles -> Objects \cup {None}]
           /\ data' \in [Handles -> Contents] /\ base' \in [Handles -> Contents]
           /\ dirty' \in [Handles -> BOOLEAN]
<1>1. "free" \in Steps /\ "read" \in Kinds /\ Empty \in Contents
  BY HandleAssumption DEF Steps, Kinds
<1> QED
  BY <1>1 DEF TypeOK, Forget, MoveTo

(* A new request holds nothing.                                            *)
LEMMA RequestKeeps ==
    ASSUME IInv, NEW h \in Handles, NEW k \in Calls, NEW o \in Objects, Request(h, k, o)
    PROVE  IInv'
<1> USE HandleAssumption DEF IInv, LockInv, TypeOK, Exclusive, Writable,
        Creates, nsVars, pathVars, handleVars, Request, MoveTo
<1>1. TypeOK'
  BY DEF Steps, Kinds
<1>2. NamespaceHeld'
  BY DEF NamespaceHeld, WritableOpen
<1>3. PathHeld'
  BY DEF PathHeld, HoldsPath
<1>4. Waiting'
  BY DEF Waiting
<1>5. MutualExclusion'
  BY DEF MutualExclusion
<1>6. WriterSeesStored'
  BY DEF WriterSeesStored, WritableOpen
<1>7. AcceptedWriteFits'
  BY DEF AcceptedWriteFits, WritableOpen, Fits
<1> QED
  BY <1>1, <1>2, <1>3, <1>4, <1>5, <1>6, <1>7

(* Taking namespaceMu shared.                                              *)
LEMMA LockNamespaceKeeps ==
    ASSUME IInv, NEW h \in Handles, LockNamespace(h)
    PROVE  IInv'
<1> USE HandleAssumption DEF IInv, LockInv, TypeOK, Exclusive, Writable,
        Creates, nsVars, pathVars, handleVars, LockNamespace, MoveTo
<1> obj[h] \in Objects
  BY NamesObject
<1>1. TypeOK'
  BY DEF Steps, Kinds
<1>2. NamespaceHeld'
  BY DEF NamespaceHeld, WritableOpen
<1>3. PathHeld'
  BY DEF PathHeld, HoldsPath
<1>4. Waiting'
  BY DEF Waiting
<1>5. MutualExclusion'
  BY DEF MutualExclusion
<1>6. WriterSeesStored'
  BY DEF WriterSeesStored, WritableOpen
<1>7. AcceptedWriteFits'
  BY DEF AcceptedWriteFits, WritableOpen, Fits
<1> QED
  BY <1>1, <1>2, <1>3, <1>4, <1>5, <1>6, <1>7

(* Taking a path lock, shared and exclusive.                               *)
LEMMA LockPathSharedKeeps ==
    ASSUME IInv, NEW h \in Handles, LockPathShared(h)
    PROVE  IInv'
<1> USE HandleAssumption DEF IInv, LockInv, TypeOK, Exclusive, Writable,
        Creates, nsVars, pathVars, handleVars, LockPathShared, MoveTo
<1> obj[h] \in Objects
  BY NamesObject
<1>1. TypeOK'
  BY DEF Steps, Kinds
<1>2. NamespaceHeld'
  BY DEF NamespaceHeld, WritableOpen
<1>3. PathHeld'
  BY DEF PathHeld, HoldsPath
<1>4. Waiting'
  BY DEF Waiting
<1>5. MutualExclusion'
  BY DEF MutualExclusion
<1>6. WriterSeesStored'
  BY DEF WriterSeesStored, WritableOpen
<1>7. AcceptedWriteFits'
  BY DEF AcceptedWriteFits, WritableOpen, Fits
<1> QED
  BY <1>1, <1>2, <1>3, <1>4, <1>5, <1>6, <1>7

(* A request for a path is announced before it waits.                      *)
LEMMA AnnouncePathKeeps ==
    ASSUME IInv, NEW h \in Handles, AnnouncePath(h)
    PROVE  IInv'
<1> USE HandleAssumption DEF IInv, LockInv, TypeOK, Exclusive, Writable,
        Creates, nsVars, pathVars, handleVars, AnnouncePath, MoveTo
<1> obj[h] \in Objects
  BY NamesObject
<1>1. TypeOK'
  BY DEF Steps, Kinds
<1>2. NamespaceHeld'
  BY DEF NamespaceHeld, WritableOpen
<1>3. PathHeld'
  BY DEF PathHeld, HoldsPath, MutualExclusion
<1>4. Waiting'
  BY DEF Waiting
<1>5. MutualExclusion'
  BY DEF MutualExclusion
<1>6. WriterSeesStored'
  BY DEF WriterSeesStored, WritableOpen
<1>7. AcceptedWriteFits'
  BY DEF AcceptedWriteFits, WritableOpen, Fits
<1> QED
  BY <1>1, <1>2, <1>3, <1>4, <1>5, <1>6, <1>7

(* A writer gets the path when nobody else has it.                         *)
LEMMA LockPathExclusiveKeeps ==
    ASSUME IInv, NEW h \in Handles, LockPathExclusive(h)
    PROVE  IInv'
<1> USE HandleAssumption DEF IInv, LockInv, TypeOK, Exclusive, Writable,
        Creates, nsVars, pathVars, handleVars, LockPathExclusive, MoveTo
<1> obj[h] \in Objects
  BY NamesObject
<1>1. TypeOK'
  BY DEF Steps, Kinds
<1>2. NamespaceHeld'
  BY DEF NamespaceHeld, WritableOpen
<1>3. PathHeld'
  BY DEF PathHeld, HoldsPath, MutualExclusion, Waiting
<1>4. Waiting'
  BY DEF Waiting
<1>5. MutualExclusion'
  BY DEF MutualExclusion, PathHeld, HoldsPath
<1>6. WriterSeesStored'
  BY DEF WriterSeesStored, WritableOpen
<1>7. AcceptedWriteFits'
  BY DEF AcceptedWriteFits, WritableOpen, Fits
<1> QED
  BY <1>1, <1>2, <1>3, <1>4, <1>5, <1>6, <1>7

(* A handle comes into being: its contents are those of the object.        *)
LEMMA LoadExistingFileKeeps ==
    ASSUME IInv, NEW h \in Handles, LoadExistingFile(h)
    PROVE  IInv'
<1> USE HandleAssumption DEF IInv, LockInv, TypeOK, Exclusive, Writable,
        Creates, nsVars, pathVars, handleVars, LoadExistingFile,
        FinishFileOpen, ReleaseNamespace, MoveTo
<1> obj[h] \in Objects
  BY NamesObject
<1>1. TypeOK'
  <2>1. cipher' = cipher /\ cipher[obj[h]] \in Contents
    OBVIOUS
  <2>2. /\ base' = [base EXCEPT ![h] = cipher[obj[h]]]
        /\ \/ data' = [data EXCEPT ![h] = Empty]
           \/ data' = [data EXCEPT ![h] = cipher[obj[h]]]
        /\ dirty' \in [Handles -> BOOLEAN]
    BY <2>1
  <2>3. step' \in [Handles -> Steps] /\ nsReaders' \in SUBSET Handles
        /\ nsWriter' = nsWriter /\ nsPending' = nsPending
    BY DEF Steps
  <2> QED
    BY <2>1, <2>2, <2>3
<1>2. NamespaceHeld'
  BY DEF NamespaceHeld, WritableOpen
<1>3. PathHeld'
  BY DEF PathHeld, HoldsPath
<1>4. Waiting'
  BY DEF Waiting
<1>5. MutualExclusion'
  BY DEF MutualExclusion
<1>6. WriterSeesStored'
  BY DEF WriterSeesStored, WritableOpen
<1>7. AcceptedWriteFits'
  BY DEF AcceptedWriteFits, WritableOpen, Fits
<1> QED
  BY <1>1, <1>2, <1>3, <1>4, <1>5, <1>6, <1>7

(* A create persists the new object empty and has its handle.              *)
LEMMA CreateFileKeeps ==
    ASSUME IInv, NEW h \in Handles, CreateFile(h)
    PROVE  IInv'
<1> USE HandleAssumption DEF IInv, LockInv, TypeOK, Exclusive, Writable,
        Creates, nsVars, pathVars, handleVars, CreateFile, FinishFileOpen,
        ReleaseNamespace, MoveTo
<1> obj[h] \in Objects
  BY NamesObject
<1>1. TypeOK'
  BY DEF Steps, Kinds
<1>2. NamespaceHeld'
  BY DEF NamespaceHeld, WritableOpen
<1>3. PathHeld'
  BY DEF PathHeld, HoldsPath
<1>4. Waiting'
  BY DEF Waiting
<1>5. MutualExclusion'
  BY DEF MutualExclusion
<1>6. WriterSeesStored'
  BY DEF WriterSeesStored, WritableOpen, PathHeld, HoldsPath
<1>7. AcceptedWriteFits'
  BY DEF AcceptedWriteFits, WritableOpen, Fits
<1> QED
  BY <1>1, <1>2, <1>3, <1>4, <1>5, <1>6, <1>7

(* The locks are given back.                                               *)
LEMMA AbandonKeeps ==
    ASSUME IInv, NEW h \in Handles, OpenFails(h) \/ SetFileMeta(h)
    PROVE  IInv'
<1> USE HandleAssumption DEF IInv, LockInv, TypeOK, Exclusive, Writable,
        Creates, nsVars, pathVars, handleVars, OpenFails, SetFileMeta,
        Abandon, Forget, ReleasePath, ReleaseNamespace, MoveTo
<1> obj[h] \in Objects
  BY NamesObject
<1>1. TypeOK'
  <2>1. cipher' \in [Objects -> Contents \cup {NoFile}]
    OBVIOUS
  <2>2. /\ step' \in [Handles -> Steps] /\ kind' \in [Handles -> Kinds]
        /\ obj' \in [Handles -> Objects \cup {None}]
        /\ data' \in [Handles -> Contents] /\ base' \in [Handles -> Contents]
        /\ dirty' \in [Handles -> BOOLEAN]
    BY ForgetTyped
  <2>3. /\ pathReaders' \in [Objects -> SUBSET Handles]
        /\ pathWriter' \in [Objects -> Handles \cup {None}]
        /\ nsReaders' \in SUBSET Handles
    OBVIOUS
  <2> QED
    BY <2>1, <2>2, <2>3
<1>2. NamespaceHeld'
  BY DEF NamespaceHeld, WritableOpen
<1>3. PathHeld'
  BY DEF PathHeld, HoldsPath
<1>4. Waiting'
  BY DEF Waiting
<1>5. MutualExclusion'
  BY DEF MutualExclusion
<1>6. WriterSeesStored'
  <2> SUFFICES ASSUME NEW g \in Handles, WritableOpen(g)'
               PROVE  cipher'[obj'[g]] = base'[g]
    BY DEF WriterSeesStored
  <2>1. g # h /\ WritableOpen(g) /\ obj'[g] = obj[g] /\ base'[g] = base[g]
    BY DEF WritableOpen
  <2>2. obj[g] \in Objects /\ obj[g] # obj[h]
    BY <2>1, NamesObject DEF PathHeld, HoldsPath, WritableOpen, MutualExclusion
  <2>3. cipher'[obj[g]] = cipher[obj[g]]
    BY <2>2
  <2> QED
    BY <2>1, <2>3 DEF WriterSeesStored
<1>7. AcceptedWriteFits'
  BY DEF AcceptedWriteFits, WritableOpen, Fits
<1> QED
  BY <1>1, <1>2, <1>3, <1>4, <1>5, <1>6, <1>7

(* Close gives the path and the namespace back.                            *)
LEMMA CloseKeeps ==
    ASSUME IInv, NEW h \in Handles, Close(h)
    PROVE  IInv'
<1> USE HandleAssumption DEF IInv, LockInv, TypeOK, Exclusive, Writable,
        Creates, nsVars, pathVars, handleVars, Close, PersistFile, Abandon,
        Forget, ReleasePath, ReleaseNamespace, MoveTo
<1> obj[h] \in Objects
  BY NamesObject
<1>1. TypeOK'
  BY DEF Steps, Kinds
<1>2. NamespaceHeld'
  BY DEF NamespaceHeld, WritableOpen
<1>3. PathHeld'
  BY DEF PathHeld, HoldsPath
<1>4. Waiting'
  BY DEF Waiting
<1>5. MutualExclusion'
  BY DEF MutualExclusion
<1>6. WriterSeesStored'
  <2> SUFFICES ASSUME NEW g \in Handles, WritableOpen(g)'
               PROVE  cipher'[obj'[g]] = base'[g]
    BY DEF WriterSeesStored
  <2>1. g # h /\ WritableOpen(g) /\ obj'[g] = obj[g] /\ base'[g] = base[g]
    BY DEF WritableOpen
  <2>2. obj[g] \in Objects /\ obj[g] # obj[h]
    BY <2>1, NamesObject DEF PathHeld, HoldsPath, WritableOpen, MutualExclusion
  <2>3. cipher'[obj[g]] = cipher[obj[g]]
    BY <2>2
  <2> QED
    BY <2>1, <2>3 DEF WriterSeesStored
<1>7. AcceptedWriteFits'
  BY DEF AcceptedWriteFits, WritableOpen, Fits
<1> QED
  BY <1>1, <1>2, <1>3, <1>4, <1>5, <1>6, <1>7

(* A handle is used: no lock changes hands.                                *)
LEMMA WriteKeeps ==
    ASSUME IInv, NEW h \in Handles, NEW c \in Contents, Write(h, c)
    PROVE  IInv'
<1> USE HandleAssumption DEF IInv, LockInv, TypeOK, Exclusive, Writable,
        Creates, nsVars, pathVars, handleVars, Write
<1> obj[h] \in Objects
  BY NamesObject
<1>1. TypeOK'
  BY DEF Steps, Kinds
<1>2. NamespaceHeld'
  BY DEF NamespaceHeld, WritableOpen
<1>3. PathHeld'
  BY DEF PathHeld, HoldsPath
<1>4. Waiting'
  BY DEF Waiting
<1>5. MutualExclusion'
  BY DEF MutualExclusion
<1>6. WriterSeesStored'
  BY DEF WriterSeesStored, WritableOpen
<1>7. AcceptedWriteFits'
  BY DEF AcceptedWriteFits, WritableOpen, Fits
<1> QED
  BY <1>1, <1>2, <1>3, <1>4, <1>5, <1>6, <1>7

(* A change of attributes makes any handle dirty, a reader too.            *)
LEMMA SetAttributesKeeps ==
    ASSUME IInv, NEW h \in Handles, SetAttributes(h)
    PROVE  IInv'
<1> USE HandleAssumption DEF IInv, LockInv, TypeOK, Exclusive, Writable,
        Creates, nsVars, pathVars, handleVars, SetAttributes
<1> obj[h] \in Objects
  BY NamesObject
<1>1. TypeOK'
  BY DEF Steps, Kinds
<1>2. NamespaceHeld'
  BY DEF NamespaceHeld, WritableOpen
<1>3. PathHeld'
  BY DEF PathHeld, HoldsPath
<1>4. Waiting'
  BY DEF Waiting
<1>5. MutualExclusion'
  BY DEF MutualExclusion
<1>6. WriterSeesStored'
  BY DEF WriterSeesStored, WritableOpen
<1>7. AcceptedWriteFits'
  BY DEF AcceptedWriteFits, WritableOpen, Fits
<1> QED
  BY <1>1, <1>2, <1>3, <1>4, <1>5, <1>6, <1>7

(* A flush, of a read-only handle too, meets no other open writer.         *)
LEMMA FlushKeeps ==
    ASSUME IInv, NEW h \in Handles, Flush(h)
    PROVE  IInv'
<1> USE HandleAssumption DEF IInv, LockInv, TypeOK, Exclusive, Writable,
        Creates, nsVars, pathVars, handleVars, Flush, PersistFile
<1> obj[h] \in Objects
  BY NamesObject
<1>1. TypeOK'
  BY DEF Steps, Kinds
<1>2. NamespaceHeld'
  BY DEF NamespaceHeld, WritableOpen
<1>3. PathHeld'
  BY DEF PathHeld, HoldsPath
<1>4. Waiting'
  BY DEF Waiting
<1>5. MutualExclusion'
  BY DEF MutualExclusion
<1>6. WriterSeesStored'
  BY DEF WriterSeesStored, WritableOpen, PathHeld, HoldsPath,
     MutualExclusion
<1>7. AcceptedWriteFits'
  BY DEF AcceptedWriteFits, WritableOpen, Fits
<1> QED
  BY <1>1, <1>2, <1>3, <1>4, <1>5, <1>6, <1>7

(* Unlink and ConfigureAuthorization act while no writable handle is open. *)
LEMMA UnlinkLockKeeps ==
    ASSUME IInv, NEW o \in Objects, UnlinkLock(o)
    PROVE  IInv'
<1> USE HandleAssumption DEF IInv, LockInv, TypeOK, Exclusive, Writable,
        Creates, nsVars, pathVars, handleVars, UnlinkLock
<1>1. TypeOK'
  BY DEF Steps, Kinds
<1>2. NamespaceHeld'
  BY DEF NamespaceHeld, WritableOpen
<1>3. PathHeld'
  BY DEF PathHeld, HoldsPath
<1>4. Waiting'
  BY DEF Waiting
<1>5. MutualExclusion'
  BY DEF MutualExclusion
<1>6. WriterSeesStored'
  BY DEF WriterSeesStored, WritableOpen
<1>7. AcceptedWriteFits'
  BY DEF AcceptedWriteFits, WritableOpen, Fits
<1> QED
  BY <1>1, <1>2, <1>3, <1>4, <1>5, <1>6, <1>7

(* Unlink removes the file and gives the namespace back.                   *)
LEMMA UnlinkRemoveKeeps ==
    ASSUME IInv, UnlinkRemove
    PROVE  IInv'
<1> USE HandleAssumption DEF IInv, LockInv, TypeOK, Exclusive, Writable,
        Creates, nsVars, pathVars, handleVars, UnlinkRemove
<1>1. TypeOK'
  BY DEF Steps, Kinds, MutualExclusion
<1>2. NamespaceHeld'
  BY DEF NamespaceHeld, WritableOpen
<1>3. PathHeld'
  BY DEF PathHeld, HoldsPath
<1>4. Waiting'
  BY DEF Waiting
<1>5. MutualExclusion'
  BY DEF MutualExclusion
<1>6. WriterSeesStored'
  BY DEF WriterSeesStored, WritableOpen, MutualExclusion, NamespaceHeld
<1>7. AcceptedWriteFits'
  BY DEF AcceptedWriteFits, WritableOpen, Fits
<1> QED
  BY <1>1, <1>2, <1>3, <1>4, <1>5, <1>6, <1>7

(* A change of the settings waits for the readers of the namespace.        *)
LEMMA ConfigureKeeps ==
    ASSUME IInv, ConfigureAnnounce \/ ConfigureLock
    PROVE  IInv'
<1> USE HandleAssumption DEF IInv, LockInv, TypeOK, Exclusive, Writable,
        Creates, nsVars, pathVars, handleVars, ConfigureAnnounce,
        ConfigureLock
<1>1. TypeOK'
  BY DEF Steps, Kinds
<1>2. NamespaceHeld'
  BY DEF NamespaceHeld, WritableOpen
<1>3. PathHeld'
  BY DEF PathHeld, HoldsPath
<1>4. Waiting'
  BY DEF Waiting
<1>5. MutualExclusion'
  BY DEF MutualExclusion
<1>6. WriterSeesStored'
  BY DEF WriterSeesStored, WritableOpen
<1>7. AcceptedWriteFits'
  BY DEF AcceptedWriteFits, WritableOpen, Fits
<1> QED
  BY <1>1, <1>2, <1>3, <1>4, <1>5, <1>6, <1>7

(* The new limit is set before the namespace is given back.                *)
LEMMA ConfigureAuthorizationKeeps ==
    ASSUME IInv, NEW l \in {"small", "large"}, ConfigureAuthorization(l)
    PROVE  IInv'
<1> USE HandleAssumption DEF IInv, LockInv, TypeOK, Exclusive, Writable,
        Creates, nsVars, pathVars, handleVars, ConfigureAuthorization
<1>1. TypeOK'
  BY DEF Steps, Kinds
<1>2. NamespaceHeld'
  BY DEF NamespaceHeld, WritableOpen
<1>3. PathHeld'
  BY DEF PathHeld, HoldsPath
<1>4. Waiting'
  BY DEF Waiting
<1>5. MutualExclusion'
  BY DEF MutualExclusion
<1>6. WriterSeesStored'
  BY DEF WriterSeesStored, WritableOpen
<1>7. AcceptedWriteFits'
  BY DEF AcceptedWriteFits, WritableOpen, Fits, MutualExclusion,
     NamespaceHeld
<1> QED
  BY <1>1, <1>2, <1>3, <1>4, <1>5, <1>6, <1>7

(* The invariant is inductive.                                             *)
LEMMA NextIInv ==
    ASSUME IInv, [Next]_vars
    PROVE  IInv'
<1>1. CASE UNCHANGED vars
  BY <1>1 DEF vars, nsVars, pathVars, handleVars, IInv, TypeOK, LockInv,
     NamespaceHeld, PathHeld, Waiting, MutualExclusion, HoldsPath,
     WriterSeesStored, AcceptedWriteFits, WritableOpen, Fits
<1>2. ASSUME NEW h \in Handles, NEW k \in Calls, NEW o \in Objects,
             Request(h, k, o)
      PROVE  IInv'
  BY <1>2, RequestKeeps
<1>3. ASSUME NEW h \in Handles, Opening(h)
      PROVE  IInv'
  BY <1>3, LockNamespaceKeeps, LockPathSharedKeeps, AnnouncePathKeeps,
     LockPathExclusiveKeeps, LoadExistingFileKeeps, CreateFileKeeps,
     AbandonKeeps DEF Opening
<1>4. ASSUME NEW h \in Handles, Using(h)
      PROVE  IInv'
  BY <1>4, WriteKeeps, SetAttributesKeeps, FlushKeeps, CloseKeeps DEF Using
<1>5. CASE Namespace
  BY <1>5, UnlinkLockKeeps, UnlinkRemoveKeeps, ConfigureKeeps,
     ConfigureAuthorizationKeeps DEF Namespace
<1> QED
  BY <1>1, <1>2, <1>3, <1>4, <1>5 DEF Next

(* The locks are held by exactly the requests and handles that will give   *)
(* them back.                                                              *)
THEOREM Invariance == Spec => []IInv
<1>1. Init => IInv
  BY InitIInv
<1>2. IInv /\ [Next]_vars => IInv'
  BY NextIInv
<1> QED
  BY <1>1, <1>2, PTL DEF Spec

(* The variables of the handle locks always have their types.              *)
THEOREM TypeCorrect == Spec => []TypeOK
<1>1. IInv => TypeOK
  BY DEF IInv
<1> QED
  BY <1>1, Invariance, PTL

(* No lost update through writable handles, for any number of handles and  *)
(* objects: openFile's path lock keeps other writers out and its           *)
(* namespace lock keeps Unlink out until Close.                            *)
THEOREM NoLostUpdate == Spec => []WriterSeesStored
<1>1. IInv => WriterSeesStored
  BY DEF IInv
<1> QED
  BY <1>1, Invariance, PTL

(* What an open writer holds fits the size limit, however often            *)
(* ConfigureAuthorization changes it.                                      *)
THEOREM AcceptedFits == Spec => []AcceptedWriteFits
<1>1. IInv => AcceptedWriteFits
  BY DEF IInv
<1> QED
  BY <1>1, Invariance, PTL

-----------------------------------------------------------------------------
(* OpenHandle, one file that is open.  The inductive invariant adds to the *)
(* checked properties what Write and Close rely on: pendingWrites counts   *)
(* exactly the calls between the increment and the deferred decrement, the *)
(* cells of an append handle's writes lie inside the plaintext, and an     *)
(* open handle has no result of Close yet.                                 *)

(* The calls that are counted in pendingWrites.                            *)
Pending == {c \in Writes : call[c].step \in {"entered", "leaving"}}

Counted == IsFiniteSet(Pending) /\ pendingWrites = Cardinality(Pending)

(* What the calls of an append handle wrote is inside the plaintext.       *)
Inside ==
    append /\ ~released =>
        \A c \in Writes : place[c] \subseteq 1 .. Len(plaintext)

OpenUntilClosed == ~released => closed = "no"

FileInv ==
    /\ FileTypeOK
    /\ Counted
    /\ WithinLimit
    /\ AcknowledgedIsStored
    /\ Inside
    /\ AppendsKept
    /\ OpenUntilClosed

-----------------------------------------------------------------------------
(* The plaintext: what resizing and overwriting do to a sequence of cells. *)

(* Cutting or growing to n cells yields n cells; the old ones are kept.    *)
LEMMA ResizeCells ==
    ASSUME NEW s \in Cells, NEW n \in Nat
    PROVE  /\ Resize(s, n) \in Cells
           /\ Len(Resize(s, n)) = n
           /\ \A i \in 1 .. n : i <= Len(s) => Resize(s, n)[i] = s[i]
  BY DEF Cells, Resize

(* Overwriting keeps the length and every cell outside the range.          *)
LEMMA OverwriteCells ==
    ASSUME NEW s \in Cells, NEW from \in Nat, NEW n \in Nat, NEW c \in Writes
    PROVE  /\ Overwrite(s, from, n, c) \in Cells
           /\ Len(Overwrite(s, from, n, c)) = Len(s)
           /\ \A i \in 1 .. Len(s) :
                Overwrite(s, from, n, c)[i] =
                    IF i > from /\ i <= from + n THEN c ELSE s[i]
  BY DEF Cells, Overwrite

(* A write goes to the given offset or to the end, both inside Nat, and    *)
(* the observed end of file it leaves behind is an offset or none.         *)
LEMMA WritePosition ==
    ASSUME FileTypeOK, NEW c \in Writes
    PROVE  /\ Position(c) \in Nat
           /\ append => Position(c) = Len(plaintext)
           /\ Candidate(c) \in Nat \cup {-1}
           /\ call[c].length \in Nat
           /\ call[c] \in CallState
  <1>1. call[c] \in CallState
    BY DEF FileTypeOK
  <1>2. call[c].offset \in Nat /\ call[c].length \in Nat
    BY <1>1, OpenHandleAssumption DEF CallState
  <1>3. Len(plaintext) \in Nat /\ candidate \in Nat \cup {-1}
    BY DEF FileTypeOK, Cells
  <1> QED
    BY <1>1, <1>2, <1>3 DEF Position, Candidate, Size

(* A step that leaves every call's step and pendingWrites alone keeps the  *)
(* count.                                                                  *)
LEMMA CountKept ==
    ASSUME Counted, pendingWrites' = pendingWrites,
           Pending' = Pending
    PROVE  Counted'
  BY DEF Counted

-----------------------------------------------------------------------------
(* One lemma per action.                                                   *)

(* A fresh handle satisfies the invariant.                                 *)
LEMMA FileInitInv ==
    ASSUME FileInit
    PROVE  FileInv
  <1> USE DEF FileInit
  <1>1. <<>> \in Cells /\ Len(<<>>) = 0
    BY DEF Cells
  <1>2. NoCall \in CallState
    BY OpenHandleAssumption DEF NoCall, CallState
  <1>3. FileTypeOK
    BY <1>1, <1>2 DEF FileTypeOK
  <1>4. Pending = {}
    BY DEF Pending, NoCall
  <1>5. Counted
    BY <1>4, FS_EmptySet DEF Counted
  <1>6. WithinLimit
    BY <1>1, OpenHandleAssumption DEF WithinLimit
  <1> QED
    BY <1>3, <1>5, <1>6
       DEF FileInv, AcknowledgedIsStored, Inside, AppendsKept, OpenUntilClosed

(* Write counts itself before it takes mu.                                 *)
LEMMA WriteEnterKeeps ==
    ASSUME FileInv, NEW c \in Writes, NEW offset \in 0 .. MaxFileSize,
           NEW length \in 1 .. MaxLength, WriteEnter(c, offset, length)
    PROVE  FileInv'
  <1> USE DEF WriteEnter
  <1>1. [step |-> "entered", offset |-> offset, length |-> length,
         overlapping |-> pendingWrites + 1 > 1] \in CallState
    BY OpenHandleAssumption DEF CallState
  <1>2. FileTypeOK'
    BY <1>1 DEF FileInv, FileTypeOK
  <1>3. Pending' = Pending \cup {c} /\ c \notin Pending
    BY DEF FileInv, FileTypeOK, Pending
  <1>4. Counted'
    BY <1>3, FS_AddElement DEF FileInv, FileTypeOK, Counted
  <1> QED
    BY <1>2, <1>4 DEF FileInv, WithinLimit, AcknowledgedIsStored, Inside,
                      AppendsKept, OpenUntilClosed

(* A call that only moves from entered to leaving stays counted.           *)
LEMMA LeavingKeepsPending ==
    ASSUME FileTypeOK, NEW c \in Writes, call[c].step = "entered", Leaving(c)
    PROVE  Pending' = Pending /\ call' \in [Writes -> CallState]
  <1>1. call[c] \in CallState
    BY DEF FileTypeOK
  <1>2. [call[c] EXCEPT !.step = "leaving"] \in CallState
    BY <1>1 DEF CallState
  <1>3. call' \in [Writes -> CallState]
    BY <1>2 DEF FileTypeOK, Leaving
  <1>4. \A d \in Writes : d # c => call'[d] = call[d]
    BY DEF FileTypeOK, Leaving
  <1>5. call'[c].step = "leaving"
    BY <1>1 DEF FileTypeOK, Leaving, CallState
  <1> QED
    BY <1>3, <1>4, <1>5 DEF Pending

(* Write under mu: the end of the write is within the limit, and an append *)
(* goes behind everything written before.                                  *)
LEMMA WriteApplyKeeps ==
    ASSUME FileInv, NEW c \in Writes, WriteApply(c)
    PROVE  FileInv'
  <1> DEFINE from == Position(c)
             n == call[c].length
             end == Larger(Size, from + n)
             grown == Resize(plaintext, end)
  <1>1. /\ from \in Nat /\ n \in Nat /\ (append => from = Len(plaintext))
        /\ Candidate(c) \in Nat \cup {-1}
    BY WritePosition DEF FileInv
  <1>2. plaintext \in Cells /\ Len(plaintext) \in Nat
    BY DEF FileInv, FileTypeOK, Cells
  <1>3. /\ end \in Nat /\ end >= Len(plaintext) /\ end >= from + n
        /\ end <= MaxFileSize
    BY <1>1, <1>2, OpenHandleAssumption
       DEF Larger, Size, WriteApply, Rejects,
           FileInv, WithinLimit
  <1>4. /\ grown \in Cells /\ Len(grown) = end
        /\ \A i \in 1 .. end : i <= Len(plaintext) => grown[i] = plaintext[i]
    <2> HIDE DEF end
    <2> QED
      BY <1>2, <1>3, ResizeCells
  <1>5. plaintext' = Overwrite(grown, from, n, c)
    BY DEF WriteApply
  <1>6. /\ place' = [place EXCEPT ![c] = from + 1 .. from + n]
        /\ candidate' = Candidate(c) /\ unsaved' = TRUE
        /\ Leaving(c) /\ call[c].step = "entered" /\ ~released
        /\ UNCHANGED <<append, released, pendingWrites, stored, final, closed>>
    BY DEF WriteApply, Rejects
  <1> HIDE DEF from, n, end, grown
  <1>7. /\ plaintext' \in Cells /\ Len(plaintext') = end
        /\ \A i \in 1 .. end :
             plaintext'[i] = IF i > from /\ i <= from + n THEN c ELSE grown[i]
    BY <1>1, <1>4, <1>5, OverwriteCells
  <1>8. Pending' = Pending /\ call' \in [Writes -> CallState]
    BY <1>6, LeavingKeepsPending DEF FileInv
  <1>9. place' \in [Writes -> SUBSET Nat]
    <2>1. from + 1 .. from + n \in SUBSET Nat
      BY <1>1
    <2> QED
      BY <2>1, <1>6 DEF FileInv, FileTypeOK
  <1>10. FileTypeOK'
    BY <1>1, <1>6, <1>7, <1>8, <1>9 DEF FileInv, FileTypeOK
  <1>11. Counted'
    BY <1>6, <1>8, CountKept DEF FileInv
  <1>12. WithinLimit'
    BY <1>3, <1>6, <1>7 DEF FileInv, WithinLimit
  <1>13. AcknowledgedIsStored'
    BY <1>6 DEF FileInv, AcknowledgedIsStored, OpenUntilClosed
  <1>14. ASSUME append, NEW d \in Writes, NEW i \in place'[d]
         PROVE  i \in 1 .. end /\ plaintext'[i] = d
    <2>1. CASE d = c
      <3>1. i \in from + 1 .. from + n
        BY <1>6, <1>14, <2>1 DEF FileInv, FileTypeOK
      <3> QED
        BY <3>1, <2>1, <1>1, <1>3, <1>7
    <2>2. CASE d # c
      <3>1. i \in place[d]
        BY <1>6, <1>14, <2>2 DEF FileInv, FileTypeOK
      <3>2. i \in 1 .. Len(plaintext) /\ plaintext[i] = d
        BY <3>1, <1>6, <1>14 DEF FileInv, Inside, AppendsKept
      <3> QED
        BY <3>2, <1>1, <1>2, <1>3, <1>4, <1>7, <1>14
    <2> QED
      BY <2>1, <2>2
  <1>15. Inside' /\ AppendsKept'
    BY <1>6, <1>7, <1>14 DEF Inside, AppendsKept
  <1>16. OpenUntilClosed'
    BY <1>6 DEF FileInv, OpenUntilClosed
  <1> QED
    BY <1>10, <1>11, <1>12, <1>13, <1>15, <1>16 DEF FileInv

(* A refused write changes only the observed end of file.                  *)
LEMMA WriteRejectedKeeps ==
    ASSUME FileInv, NEW c \in Writes, WriteRejected(c)
    PROVE  FileInv'
  <1> USE DEF WriteRejected
  <1>1. Candidate(c) \in Nat \cup {-1}
    BY WritePosition DEF FileInv
  <1>2. Pending' = Pending /\ call' \in [Writes -> CallState]
    BY LeavingKeepsPending DEF FileInv
  <1>3. FileTypeOK'
    BY <1>1, <1>2 DEF FileInv, FileTypeOK
  <1>4. Counted'
    BY <1>2, CountKept DEF FileInv
  <1> QED
    BY <1>3, <1>4 DEF FileInv, WithinLimit, AcknowledgedIsStored, Inside,
                      AppendsKept, OpenUntilClosed

(* The deferred decrement takes out a call that is counted.                *)
LEMMA WriteLeaveKeeps ==
    ASSUME FileInv, NEW c \in Writes, WriteLeave(c)
    PROVE  FileInv'
  <1> USE DEF WriteLeave
  <1>1. [NoCall EXCEPT !.step = "done"] \in CallState
    <2>1. NoCall \in CallState
      BY OpenHandleAssumption DEF NoCall, CallState
    <2> QED
      BY <2>1 DEF CallState
  <1>2. [NoCall EXCEPT !.step = "done"].step = "done"
    BY DEF NoCall
  <1>3. Pending' = Pending \ {c} /\ c \in Pending
    BY <1>1, <1>2 DEF FileInv, FileTypeOK, Pending
  <1>4. IsFiniteSet(Pending) /\ pendingWrites = Cardinality(Pending)
    BY DEF FileInv, Counted
  <1>5. IsFiniteSet(Pending') /\ Cardinality(Pending') = Cardinality(Pending) - 1
    BY <1>3, <1>4, FS_RemoveElement
  <1>6. Cardinality(Pending') \in Nat
    BY <1>5, FS_CardinalityType
  <1>7. Counted' /\ pendingWrites' \in Nat
    BY <1>4, <1>5, <1>6 DEF Counted
  <1>8. FileTypeOK'
    BY <1>1, <1>7 DEF FileInv, FileTypeOK
  <1> QED
    BY <1>7, <1>8 DEF FileInv, WithinLimit, AcknowledgedIsStored, Inside,
                      AppendsKept, OpenUntilClosed

(* Truncating cuts the cells off the writes that held them.                *)
LEMMA TruncateKeeps ==
    ASSUME FileInv, NEW size \in 0 .. MaxFileSize, Truncate(size)
    PROVE  FileInv'
  <1> USE DEF Truncate
  <1>1. size \in Nat /\ size <= MaxFileSize
    BY OpenHandleAssumption
  <1>2. plaintext \in Cells /\ Len(plaintext) \in Nat
    BY DEF FileInv, FileTypeOK, Cells
  <1>3. /\ plaintext' \in Cells /\ Len(plaintext') = size
        /\ \A i \in 1 .. size : i <= Len(plaintext) => plaintext'[i] = plaintext[i]
    BY <1>1, <1>2, ResizeCells
  <1>4. place' \in [Writes -> SUBSET Nat]
    BY DEF FileInv, FileTypeOK
  <1>5. FileTypeOK'
    BY <1>3, <1>4 DEF FileInv, FileTypeOK
  <1>6. Pending' = Pending
    BY DEF Pending
  <1>7. Counted'
    BY <1>6, CountKept DEF FileInv
  <1>8. WithinLimit'
    BY <1>1, <1>3 DEF FileInv, WithinLimit
  <1>9. \A c \in Writes : place'[c] = place[c] \cap 1 .. size
    OBVIOUS
  <1>10. Inside' /\ AppendsKept'
    BY <1>1, <1>2, <1>3, <1>9 DEF FileInv, Inside, AppendsKept
  <1> QED
    BY <1>5, <1>7, <1>8, <1>10 DEF FileInv, AcknowledgedIsStored, OpenUntilClosed

(* A flush stores the plaintext it finds.                                  *)
LEMMA FileFlushKeeps ==
    ASSUME FileInv, FlushFile
    PROVE  FileInv'
  <1> USE DEF FlushFile
  <1>1. FileTypeOK'
    BY DEF FileInv, FileTypeOK
  <1>2. Pending' = Pending
    BY DEF Pending
  <1>3. Counted'
    BY <1>2, CountKept DEF FileInv
  <1> QED
    BY <1>1, <1>3 DEF FileInv, WithinLimit, AcknowledgedIsStored, Inside,
                      AppendsKept, OpenUntilClosed

(* Close stores a dirty plaintext before it wipes it, and the stored one   *)
(* of a clean handle is already the same.                                  *)
LEMMA FileCloseKeeps ==
    ASSUME FileInv, CloseFile
    PROVE  FileInv'
  <1> USE DEF CloseFile
  <1>1. <<>> \in Cells /\ Len(<<>>) = 0
    BY DEF Cells
  <1>2. FileTypeOK'
    BY <1>1 DEF FileInv, FileTypeOK
  <1>3. Pending' = Pending
    BY DEF Pending
  <1>4. Counted'
    BY <1>3, CountKept DEF FileInv
  <1>5. WithinLimit'
    BY <1>1, OpenHandleAssumption DEF FileInv, WithinLimit
  <1>6. AcknowledgedIsStored'
    BY DEF FileInv, AcknowledgedIsStored
  <1> QED
    BY <1>2, <1>4, <1>5, <1>6 DEF FileInv, Inside, AppendsKept, OpenUntilClosed

(* Every step, whichever calls it interleaves, keeps the invariant.        *)
LEMMA FileNextInv ==
    ASSUME FileInv, [FileNext]_fileVars
    PROVE  FileInv'
  <1>1. CASE FileNext
    BY <1>1, WriteEnterKeeps, WriteApplyKeeps, WriteRejectedKeeps,
       WriteLeaveKeeps, TruncateKeeps, FileFlushKeeps, FileCloseKeeps DEF FileNext
  <1>2. CASE UNCHANGED fileVars
    <2>1. Pending' = Pending
      BY <1>2 DEF fileVars, Pending
    <2> QED
      BY <1>2, <2>1 DEF fileVars, FileInv, FileTypeOK, Counted, WithinLimit,
         AcknowledgedIsStored, Inside, AppendsKept, OpenUntilClosed
  <1> QED
    BY <1>1, <1>2

(* The invariant holds throughout.                                         *)
LEMMA AlwaysFileInv == FileSpec => []FileInv
<1>1. FileInit => FileInv
  BY FileInitInv
<1>2. FileInv /\ [FileNext]_fileVars => FileInv'
  BY FileNextInv
<1> QED
  BY <1>1, <1>2, PTL DEF FileSpec

-----------------------------------------------------------------------------
(* The state of an open file keeps its types; in particular pendingWrites  *)
(* never drops below zero.                                                 *)
THEOREM FileTypeCorrect == FileSpec => []FileTypeOK
<1>1. FileInv => FileTypeOK
  BY DEF FileInv
<1> QED
  BY <1>1, AlwaysFileInv, PTL

(* Neither the plaintext nor the stored file outgrows maxFileSize, however *)
(* the append handling moves a write.                                      *)
THEOREM SizeLimit == FileSpec => []WithinLimit
<1>1. FileInv => WithinLimit
  BY DEF FileInv
<1> QED
  BY <1>1, AlwaysFileInv, PTL

(* A clean handle, and one whose Close returned 0, has every acknowledged  *)
(* change in the vault.                                                    *)
THEOREM FlushedIsStored == FileSpec => []AcknowledgedIsStored
<1>1. FileInv => AcknowledgedIsStored
  BY DEF FileInv
<1> QED
  BY <1>1, AlwaysFileInv, PTL

(* No acknowledged append of an O_APPEND handle is overwritten by another. *)
THEOREM NoAppendLost == FileSpec => []AppendsKept
<1>1. FileInv => AppendsKept
  BY DEF FileInv
<1> QED
  BY <1>1, AlwaysFileInv, PTL
=============================================================================
