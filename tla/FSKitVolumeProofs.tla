-------------------------- MODULE FSKitVolumeProofs --------------------------
(* Proofs about FSKitVolume, for every set of items and threads and every  *)
(* bound: no write is lost, no handle is stranded, and a writer keeps a    *)
(* handle that can write.                                                  *)
EXTENDS FSKitVolume, TLAPS

-----------------------------------------------------------------------------
(* What the records hold, and which calls are at which step.               *)

Steps == {"idle", "find", "lock", "peek", "lookup", "resize", "unlink", "open",
          "register", "use", "act", "drop", "flush", "cache", "move", "adopt",
          "forget", "stop", "each", "unregister", "sweep"}

Numbers == 0 .. MaxHandles

Call == [op : Operations, step : Steps, item : Items, modes : SUBSET Modes,
         hand : Numbers, keep : BOOLEAN, todo : SUBSET Items,
         taken : SUBSET Handles]

OpenFiles == [open : BOOLEAN, writable : BOOLEAN, dirty : BOOLEAN, latest : BOOLEAN]

ItemState == [handle : Numbers, modes : SUBSET Modes]

TypeOK ==
    /\ current \in Items \cup {Nil} /\ stored \in BOOLEAN
    /\ mounted \in BOOLEAN /\ registry \in SUBSET Handles
    /\ handles \in [Handles -> OpenFiles]
    /\ stopped \in BOOLEAN /\ cache \in SUBSET Items
    /\ items \in [Items -> ItemState] /\ lock \in [Items -> Threads \cup {Nil}]
    /\ known \in SUBSET Items /\ opened \in [Items -> SUBSET Modes]
    /\ call \in [Threads -> Call] /\ begun \in Nat

(* The operations that can be at a step.                                   *)
OperationAt(c) ==
    /\ c.step = "idle" => c = Idle
    /\ c.step = "lock" => c.op \in {"open", "read", "write", "close", "reclaim"}
    /\ c.step = "find" => c.op \in {"lookup", "open", "read", "write", "truncate",
                                    "create", "remove"}
    /\ c.step \in {"peek", "resize"} => c.op = "truncate"
    /\ c.step = "lookup" => c.op = "lookup"
    /\ c.step = "unlink" => c.op = "remove"
    /\ c.step \in {"open", "register"} => c.op \in {"open", "create", "read", "write"}
    /\ c.step = "use" => c.op \in {"read", "write"}
    /\ c.step = "act" => c.op \in {"read", "write", "truncate"}
    /\ c.step = "drop" => c.op \notin {"lookup", "truncate", "remove"}
    /\ c.step = "flush" => c.op \in {"close", "reclaim", "shutdown"}
    /\ c.step \in {"cache", "move"} => c.op \in {"lookup", "create"}
    /\ c.step = "adopt" => c.op = "create"
    /\ c.step = "forget" => c.op \in {"remove", "reclaim"}
    /\ c.step \in {"stop", "each", "unregister", "sweep"} => c.op = "shutdown"

(* When a call has a handle, and when it is somebody else's.               *)
HandAt(c) ==
    /\ c.hand # 0 => \/ c.step \in {"register", "use", "act", "drop", "flush"}
                     \/ c.op = "truncate" /\ c.step \in {"find", "resize"}
                     \/ c.op = "create" /\ c.step \in {"cache", "move", "adopt"}
    /\ c.step \in {"register", "act", "adopt"} => c.hand # 0
    /\ c.op = "create" /\ c.step \in {"cache", "move"} => c.hand # 0
    /\ c.keep => /\ c.step \in {"use", "act"} /\ c.op \in {"read", "write"}
                 /\ c.hand # 0
    /\ c.taken # {} => c.step = "sweep"
    /\ c.op = "reclaim" => c.modes = {}

Shape == \A t \in Threads : OperationAt(call[t]) /\ HandAt(call[t])

(* What a call knows of the rest of the state.                             *)
ReplacesHandle(c) ==
    c.op = "open" /\ c.step \in {"drop", "find", "open", "register"}

Knows(t) ==
    /\ ReplacesHandle(call[t]) => /\ lock[call[t].item] = t
                                  /\ items[call[t].item] = NoHandle
    /\ call[t].keep => /\ lock[call[t].item] = t
                       /\ items[call[t].item].handle = call[t].hand
    /\ Does(t, {"shutdown"}) => t = Stopper /\ (stopped \/ At(t, "stop"))
    /\ Does(t, {"close", "reclaim"}) => call[t].item = t
    /\ Does(t, {"close"}) /\ At(t, "lock") => call[t].modes \subseteq opened[t]

Knowledge == \A t \in Threads : Knows(t)

(* A writer is alone, and has the last write while that is not stored.     *)
Data ==
    /\ \A h, g \in Handles : Open(h) /\ handles[h].writable /\ Open(g) => g = h
    /\ \A h \in Handles : handles[h].dirty =>
          Open(h) /\ handles[h].writable /\ handles[h].latest
    /\ WritesKept

(* A call owns its handle unless it uses the item's.                       *)
Owns(t, h) == call[t].hand = h /\ ~call[t].keep /\ ~Does(t, {"truncate"})

(* Who can close a handle that is open.                                    *)
Registered ==
    /\ \A h \in registry : Open(h)
    /\ \A t \in Threads : \A h \in call[t].taken : Open(h) /\ h \notin registry
    /\ \A t \in Threads : At(t, "register") =>
          Open(call[t].hand) /\ call[t].hand \notin registry \cup call[Stopper].taken

Held ==
    \A h \in Handles : Open(h) =>
        \/ /\ h \in registry
           /\ \/ \E i \in Items : items[i].handle = h
              \/ \E t \in Threads : Owns(t, h)
        \/ h \in call[Stopper].taken
        \/ \E t \in Threads : call[t].hand = h /\ At(t, "register")

(* Nobody else has it.                                                     *)
Unshared ==
    \A h \in Handles :
        /\ \A i, j \in Items : items[i].handle = h /\ items[j].handle = h => i = j
        /\ \A t, u \in Threads : Owns(t, h) /\ Owns(u, h) => t = u
        /\ \A t \in Threads, i \in Items : ~(Owns(t, h) /\ items[i].handle = h)

(* The handle of an item that is open for writing, or will be, can write.  *)
CanWrite(h) == h # 0 /\ Open(h) /\ handles[h].writable

Creates(c) == c.op = "create" /\ c.step \in {"register", "cache", "move", "adopt"}

OpensToWrite(c) == c.op = "open" /\ c.step = "register" /\ "write" \in c.modes

Writers ==
    ~stopped =>
        /\ \A i \in Items : "write" \in opened[i] => "write" \in items[i].modes
        /\ \A i \in Items : "write" \in items[i].modes => CanWrite(items[i].handle)
        /\ \A t \in Threads : Creates(call[t]) \/ OpensToWrite(call[t]) =>
              CanWrite(call[t].hand)

IInv == /\ TypeOK /\ Shape /\ Knowledge
        /\ Data /\ Registered /\ Held /\ Unshared /\ Writers

-----------------------------------------------------------------------------
(* How a step changes the calls.                                           *)

Elsewhere(t) == \A u \in Threads : u # t => call'[u] = call[u]

(* A thread that does nothing is in order.                                 *)
LEMMA IdleFine ==
    /\ Idle \in Call /\ OperationAt(Idle) /\ HandAt(Idle)
    /\ Idle.op = "lookup" /\ Idle.step = "idle" /\ Idle.item = First
    /\ Idle.modes = {} /\ Idle.hand = 0 /\ ~Idle.keep
    /\ Idle.todo = {} /\ Idle.taken = {}
  BY CallersAssumption
  DEF Idle, Call, Operations, Steps, Numbers, OperationAt, HandAt

(* The call of t goes on: what changes is its step and perhaps its handle. *)
Moved(t, s, h) ==
    /\ call'[t].op = call[t].op /\ call'[t].step = s
    /\ call'[t].item = call[t].item /\ call'[t].modes = call[t].modes
    /\ call'[t].hand = h /\ call'[t].keep = call[t].keep
    /\ call'[t].todo = call[t].todo /\ call'[t].taken = call[t].taken

(* A call that goes on keeps its handle.                                   *)
LEMMA GoesIs ==
    ASSUME TypeOK, NEW t \in Threads, NEW s \in Steps, Goes(t, s)
    PROVE  /\ call' \in [Threads -> Call] /\ Elsewhere(t)
           /\ Moved(t, s, call[t].hand)
  BY DEF TypeOK, Goes, Elsewhere, Call, Moved

(* One that takes a handle has that.                                       *)
LEMMA TakesIs ==
    ASSUME TypeOK, NEW t \in Threads, NEW s \in Steps, NEW h \in Numbers,
           Takes(t, s, h)
    PROVE  /\ call' \in [Threads -> Call] /\ Elsewhere(t)
           /\ Moved(t, s, h)
  BY DEF TypeOK, Takes, Elsewhere, Call, Moved

(* A call that returns leaves its thread idle.                             *)
LEMMA RepliesIs ==
    ASSUME TypeOK, NEW t \in Threads, Replies(t)
    PROVE  /\ call' \in [Threads -> Call] /\ Elsewhere(t) /\ call'[t] = Idle
  BY IdleFine DEF TypeOK, Replies, Elsewhere

(* A lock that t does not have is not given up by t.                       *)
LEMMA UnlockedIs ==
    ASSUME TypeOK, NEW t \in Threads, lock' = Unlocked(t)
    PROVE  /\ lock' \in [Items -> Threads \cup {Nil}]
           /\ \A i \in Items : lock[i] # t => lock'[i] = lock[i]
  BY DEF TypeOK, Unlocked

(* A step of t changes no item that another thread has locked, and lets    *)
(* other items only be opened.                                             *)
Aside(t) ==
    /\ \A i \in Items : lock[i] \notin {Nil, t} =>
          lock'[i] = lock[i] /\ items'[i] = items[i]
    /\ stopped => stopped'
    /\ \A i \in Items : i # t => opened[i] \subseteq opened'[i]

Calls == TypeOK /\ Shape /\ Knowledge

(* Then what the other calls know stays true.                              *)
LEMMA OthersKnow ==
    ASSUME Calls, NEW t \in Threads, Elsewhere(t), Aside(t),
           OperationAt(call'[t]), HandAt(call'[t]), Knows(t)'
    PROVE  Shape' /\ Knowledge'
<1>1. Shape'
  BY DEF Calls, Shape, Elsewhere
<1>2. ASSUME NEW u \in Threads, u # t
      PROVE  Knows(u)'
  <2>1. call'[u] = call[u] /\ Knows(u) /\ call[u] \in Call
    BY <1>2 DEF Calls, TypeOK, Knowledge, Elsewhere
  <2>2. call[u].item \in Items /\ u # Nil
    BY <2>1, CallersAssumption DEF Call
  <2> QED
    BY <1>2, <2>1, <2>2 DEF Knows, Aside, At, Does, ReplacesHandle
<1> QED
  BY <1>1, <1>2 DEF Knowledge

(* What the invariant says of one call.                                    *)
LEMMA CallFacts ==
    ASSUME Calls, NEW t \in Threads
    PROVE  /\ TypeOK /\ call[t] \in Call /\ t # Nil
           /\ OperationAt(call[t]) /\ HandAt(call[t]) /\ Knows(t)
           /\ call[t].item \in Items /\ call[t].hand \in Numbers
           /\ call[t].modes \in SUBSET Modes
           /\ lock[call[t].item] \in Threads \cup {Nil}
           /\ items[call[t].item] \in ItemState
           /\ items[call[t].item].handle \in Numbers
           /\ items[call[t].item].modes \in SUBSET Modes
  BY CallersAssumption
  DEF Calls, TypeOK, Shape, Knowledge, Call, ItemState

(* An idle thread knows nothing that could become false.                   *)
LEMMA IdleKnows ==
    ASSUME NEW t \in Threads, call'[t] = Idle
    PROVE  OperationAt(call'[t]) /\ HandAt(call'[t]) /\ Knows(t)'
  BY IdleFine DEF Knows, ReplacesHandle, At, Does

(* A call that returns.                                                    *)
LEMMA ReplyCalls ==
    ASSUME Calls, NEW t \in Threads, Replies(t), Aside(t),
           call' \in [Threads -> Call] => TypeOK'
    PROVE  Calls'
  BY CallFacts, RepliesIs, IdleKnows, OthersKnow DEF Calls

(* A call that goes on, with what it has then.                             *)
LEMMA GoOnCalls ==
    ASSUME Calls, NEW t \in Threads, NEW s \in Steps, NEW h \in Numbers,
           \/ Goes(t, s) /\ h = call[t].hand
           \/ Takes(t, s, h),
           Aside(t), call' \in [Threads -> Call] => TypeOK',
           Moved(t, s, h) =>
              OperationAt(call'[t]) /\ HandAt(call'[t]) /\ Knows(t)'
    PROVE  Calls'
<1>1. call' \in [Threads -> Call] /\ Elsewhere(t) /\ Moved(t, s, h)
  BY GoesIs, TakesIs DEF Calls
<1> QED
  BY <1>1, OthersKnow DEF Calls

-----------------------------------------------------------------------------
(* What the calls know, step by step.                                      *)

(* A new call has done nothing yet; one that ends the use of an item runs  *)
(* on the item's own thread.                                               *)
LEMMA BeginCalls ==
    ASSUME Calls, NEW t \in Threads, NEW c,
           call' = [call EXCEPT ![t] = c], begun' \in Nat,
           UNCHANGED <<Vault, Bridge, Volume, Extension, Kernel>>,
           c \in Call, c.hand = 0, ~c.keep, c.todo = {}, c.taken = {},
           \/ c.step = "lock" /\ c.op \in {"open", "read", "write", "close", "reclaim"}
           \/ c.step = "find" /\ c.op \in {"lookup", "create", "remove"}
           \/ c.step = "peek" /\ c.op = "truncate"
           \/ c.step = "stop" /\ c.op = "shutdown" /\ t = Stopper,
           c.op \in {"close", "reclaim"} => c.item = t,
           c.op = "reclaim" => c.modes = {},
           c.op = "close" => c.modes \subseteq opened[t]
    PROVE  Calls'
<1>1. OperationAt(c) /\ HandAt(c)
  BY DEF OperationAt, HandAt
<1>2. call' \in [Threads -> Call] /\ Elsewhere(t) /\ call'[t] = c
  BY DEF Calls, TypeOK, Elsewhere
<1>3. TypeOK'
  BY <1>2 DEF Calls, TypeOK, Vault, Bridge, Volume, Extension, Kernel
<1>4. Aside(t)
  BY DEF Aside, Volume, Extension, Kernel
<1>5. Knows(t)'
  BY <1>2 DEF Knows, ReplacesHandle, At, Does, Kernel
<1> QED
  BY <1>1, <1>2, <1>3, <1>4, <1>5, OthersKnow DEF Calls

(* The kernel's calls begin.                                               *)
LEMMA KernelCalls ==
    ASSUME Calls,
           \/ \E t \in Callers, op \in Operations \ {"close", "reclaim", "shutdown"},
                 i \in Items, modes \in SUBSET Modes : Begin(t, op, i, modes)
           \/ \E i \in Items : BeginReclaim(i)
           \/ \E i \in Items : \E modes \in SUBSET Modes : BeginClose(i, modes)
           \/ BeginShutdown
    PROVE  Calls'
<1>1. ASSUME NEW t \in Callers, NEW op \in Operations \ {"close", "reclaim", "shutdown"},
             NEW i \in Items, NEW modes \in SUBSET Modes, Begin(t, op, i, modes)
      PROVE  Calls'
  <2> DEFINE c == [Idle EXCEPT !.op = op, !.step = FirstStep(op),
                               !.item = i, !.modes = modes]
  <2>1. \/ FirstStep(op) = "lock" /\ op \in {"open", "read", "write"}
        \/ FirstStep(op) = "find" /\ op \in {"lookup", "create", "remove"}
        \/ FirstStep(op) = "peek" /\ op = "truncate"
    BY DEF FirstStep, Operations
  <2>2. FirstStep(op) \in Steps
    BY <2>1 DEF Steps
  <2>3. /\ c \in Call /\ c.op = op /\ c.step = FirstStep(op)
        /\ c.hand = 0 /\ ~c.keep /\ c.todo = {} /\ c.taken = {}
    BY <2>2, IdleFine DEF Call
  <2>4. /\ call' = [call EXCEPT ![t] = c] /\ t \in Threads
        /\ UNCHANGED <<Vault, Bridge, Volume, Extension, Kernel>>
    BY <1>1 DEF Begin, Threads
  <2>5. begun' \in Nat
    <3>1. begun \in Nat /\ begun' = begun + 1
      BY <1>1 DEF Begin, Calls, TypeOK
    <3> QED
      BY <3>1
  <2> HIDE DEF c
  <2> QED
    BY <2>1, <2>3, <2>4, <2>5, BeginCalls
<1>2. ASSUME NEW i \in Items, BeginReclaim(i)
      PROVE  Calls'
  <2> DEFINE c == [Idle EXCEPT !.op = "reclaim", !.step = "lock", !.item = i]
  <2>1. /\ c \in Call /\ c.op = "reclaim" /\ c.step = "lock" /\ c.item = i
        /\ c.modes = {} /\ c.hand = 0 /\ ~c.keep /\ c.todo = {} /\ c.taken = {}
    BY IdleFine DEF Call, Operations, Steps
  <2>2. /\ call' = [call EXCEPT ![i] = c] /\ i \in Threads /\ begun' \in Nat
        /\ UNCHANGED <<Vault, Bridge, Volume, Extension, Kernel>>
    BY <1>2 DEF BeginReclaim, Threads, Calls, TypeOK
  <2> HIDE DEF c
  <2> QED
    BY <2>1, <2>2, BeginCalls
<1>3. ASSUME NEW i \in Items, NEW modes \in SUBSET Modes, BeginClose(i, modes)
      PROVE  Calls'
  <2> DEFINE c == [Idle EXCEPT !.op = "close", !.step = "lock",
                               !.item = i, !.modes = modes]
  <2>1. /\ c \in Call /\ c.op = "close" /\ c.step = "lock" /\ c.item = i
        /\ c.modes = modes /\ c.hand = 0 /\ ~c.keep /\ c.todo = {} /\ c.taken = {}
    BY IdleFine DEF Call, Operations, Steps
  <2>2. /\ call' = [call EXCEPT ![i] = c] /\ i \in Threads /\ begun' \in Nat
        /\ UNCHANGED <<Vault, Bridge, Volume, Extension, Kernel>>
        /\ modes \subseteq opened[i]
    BY <1>3 DEF BeginClose, Threads, Calls, TypeOK
  <2> HIDE DEF c
  <2> QED
    BY <2>1, <2>2, BeginCalls
<1>4. ASSUME BeginShutdown
      PROVE  Calls'
  <2> DEFINE c == [Idle EXCEPT !.op = "shutdown", !.step = "stop"]
  <2>1. /\ c \in Call /\ c.op = "shutdown" /\ c.step = "stop"
        /\ c.hand = 0 /\ ~c.keep /\ c.todo = {} /\ c.taken = {}
    BY IdleFine DEF Call, Operations, Steps
  <2>2. /\ call' = [call EXCEPT ![Stopper] = c] /\ Stopper \in Threads /\ begun' \in Nat
        /\ UNCHANGED <<Vault, Bridge, Volume, Extension, Kernel>>
    BY <1>4 DEF BeginShutdown, Threads, Calls, TypeOK
  <2> HIDE DEF c
  <2> QED
    BY <2>1, <2>2, BeginCalls
<1> QED
  BY <1>1, <1>2, <1>3, <1>4

(* A step that leaves locks, items and openers alone.                      *)
LEMMA AsideSame ==
    ASSUME Calls, NEW t \in Threads, UNCHANGED <<items, opened, stopped>>,
           UNCHANGED lock \/ lock' = Unlocked(t)
    PROVE  Aside(t)
  BY UnlockedIs DEF Aside, Calls

(* A call that returns and gives its lock up.                              *)
LEMMA EndCalls ==
    ASSUME Calls, NEW t \in Threads, Ends(t), UNCHANGED <<items, opened, stopped>>,
           call' \in [Threads -> Call] /\ lock' \in [Items -> Threads \cup {Nil}] => TypeOK'
    PROVE  Calls'
<1>1. Replies(t) /\ lock' = Unlocked(t)
  BY DEF Ends
<1> QED
  BY <1>1, UnlockedIs, AsideSame, ReplyCalls DEF Calls

(* passfs_bridge: the file system is found.                                *)
LEMMA FindFileSystemCalls ==
    ASSUME Calls, NEW t \in Threads, FindFileSystem(t)
    PROVE  Calls'
<1> USE DEF At, Does
<1>1. /\ UNCHANGED <<current, stored, mounted, registry, handles, stopped, cache, items,
                     known, opened, begun>>
      /\ call[t].step = "find"
  BY DEF FindFileSystem, Vault, Bridge, Volume, Kernel
<1>2. CASE mounted
  <2>1. PICK s \in {"lookup", "resize", "unlink", "open"} :
           /\ Goes(t, s) /\ UNCHANGED lock
           /\ s = "lookup" => Does(t, {"lookup"})
           /\ s = "resize" => Does(t, {"truncate"})
           /\ s = "unlink" => Does(t, {"remove"})
           /\ s = "open" => ~Does(t, {"lookup", "truncate", "remove"})
    BY <1>2 DEF FindFileSystem
  <2>2. s \in Steps
    BY DEF Steps
  <2>3. ASSUME Moved(t, s, call[t].hand)
        PROVE  OperationAt(call'[t]) /\ HandAt(call'[t]) /\ Knows(t)'
    <3>1. OperationAt(call'[t]) /\ HandAt(call'[t])
      BY <1>1, <2>1, <2>3, CallFacts DEF OperationAt, HandAt, Moved
    <3>2. Knows(t)'
      BY <1>1, <2>1, <2>3, CallFacts DEF Knows, Moved, ReplacesHandle, OperationAt
    <3> QED
      BY <3>1, <3>2
  <2>4. Aside(t)
    BY <1>1, <2>1, AsideSame
  <2>5. call' \in [Threads -> Call] => TypeOK'
    BY <1>1, <2>1 DEF Calls, TypeOK
  <2> QED
    BY <2>1, <2>2, <2>3, <2>4, <2>5, CallFacts, GoOnCalls
<1>3. CASE ~mounted
  <2>1. Ends(t)
    BY <1>3 DEF FindFileSystem
  <2>2. call' \in [Threads -> Call] /\ lock' \in [Items -> Threads \cup {Nil}] => TypeOK'
    BY <1>1 DEF Calls, TypeOK
  <2> QED
    BY <1>1, <2>1, <2>2, EndCalls
<1> QED
  BY <1>2, <1>3

(* Number of a new OpenFile: nobody has it.                                *)
LEMMA FreshUnused ==
    ASSUME Unused # {}
    PROVE  /\ Fresh \in Handles /\ ~Open(Fresh)
           /\ \A i \in Items : items[i].handle # Fresh
           /\ \A t \in Threads : call[t].hand # Fresh
<1>1. Fresh \in Unused
  BY DEF Fresh
<1> QED
  BY <1>1 DEF Unused

(* The numbers of handles are numbers, but for zero.                       *)
LEMMA HandlesAre == Handles \subseteq Numbers /\ 0 \in Numbers /\ Numbers \ {0} = Handles
  BY CallersAssumption DEF Handles, Numbers

(* FileSystem.Open and Create.                                             *)
LEMMA OpenFileCalls ==
    ASSUME Calls, NEW t \in Threads, OpenFile(t)
    PROVE  Calls'
<1> USE DEF At, Does
<1>1. /\ UNCHANGED <<stored, mounted, registry, stopped, cache, items, known, opened, begun>>
      /\ call[t].step = "open"
  BY DEF OpenFile, Volume, Kernel
<1>2. CASE Ends(t) /\ UNCHANGED <<current, handles>>
  <2>1. call' \in [Threads -> Call] /\ lock' \in [Items -> Threads \cup {Nil}] => TypeOK'
    BY <1>1, <1>2 DEF Calls, TypeOK
  <2> QED
    BY <1>1, <1>2, <2>1, EndCalls
<1>3. CASE ~(Ends(t) /\ UNCHANGED <<current, handles>>)
  <2>1. PICK writable \in BOOLEAN :
           /\ handles' = [handles EXCEPT ![Fresh] = [open |-> TRUE,
                 writable |-> writable, dirty |-> FALSE, latest |-> stored]]
           /\ Unused # {}
           /\ Takes(t, "register", Fresh) /\ UNCHANGED lock
           /\ current' \in {call[t].item, current}
    BY <1>3 DEF OpenFile
  <2>2. "register" \in Steps /\ Fresh \in Numbers /\ Fresh # 0 /\ Fresh \in Handles
    BY <2>1, FreshUnused, HandlesAre DEF Steps, Handles
  <2>3. ASSUME Moved(t, "register", Fresh)
        PROVE  OperationAt(call'[t]) /\ HandAt(call'[t]) /\ Knows(t)'
    <3>1. OperationAt(call'[t]) /\ HandAt(call'[t])
      BY <1>1, <2>2, <2>3, CallFacts DEF OperationAt, HandAt, Moved
    <3>2. Knows(t)'
      BY <1>1, <2>1, <2>3, CallFacts DEF Knows, Moved, ReplacesHandle, OperationAt, HandAt
    <3> QED
      BY <3>1, <3>2
  <2>4. Aside(t)
    BY <1>1, <2>1, AsideSame
  <2>5. call' \in [Threads -> Call] => TypeOK'
    <3>1. handles' \in [Handles -> OpenFiles]
      BY <2>1 DEF Calls, TypeOK, OpenFiles
    <3>2. current' \in Items \cup {Nil}
      BY <2>1, CallFacts DEF TypeOK
    <3> QED
      BY <1>1, <2>1, <3>1, <3>2 DEF Calls, TypeOK
  <2> QED
    BY <2>1, <2>2, <2>3, <2>4, <2>5, GoOnCalls
<1> QED
  BY <1>2, <1>3

(* registerBridgeHandle.                                                   *)
LEMMA RegisterBridgeHandleCalls ==
    ASSUME Calls, NEW t \in Threads, RegisterBridgeHandle(t)
    PROVE  Calls'
<1> USE DEF At, Does
<1>1. /\ UNCHANGED <<current, stored, mounted, handles, stopped, cache, known, begun>>
      /\ call[t].step = "register" /\ registry' = registry \cup {call[t].hand}
  BY DEF RegisterBridgeHandle, Vault, Volume
<1>2. registry' \in SUBSET Handles
  BY <1>1, CallFacts, HandlesAre DEF TypeOK, HandAt
<1>3. CASE Does(t, {"open"})
  <2>1. /\ items' = [items EXCEPT ![call[t].item] = [handle |-> call[t].hand,
                                                     modes |-> call[t].modes]]
        /\ opened' = [opened EXCEPT ![call[t].item] = @ \cup call[t].modes]
        /\ Replies(t) /\ lock' = Unlocked(t)
    BY <1>3 DEF RegisterBridgeHandle, Ends
  <2>2. lock[call[t].item] = t
    BY <1>1, <1>3, CallFacts DEF Knows, ReplacesHandle
  <2>3. /\ items' \in [Items -> ItemState] /\ opened' \in [Items -> SUBSET Modes]
        /\ lock' \in [Items -> Threads \cup {Nil}]
    BY <2>1, CallFacts, UnlockedIs DEF TypeOK, ItemState
  <2>4. Aside(t)
    BY <1>1, <2>1, <2>2, CallFacts, UnlockedIs DEF Aside, TypeOK
  <2>5. call' \in [Threads -> Call] => TypeOK'
    BY <1>1, <1>2, <2>3 DEF Calls, TypeOK
  <2> QED
    BY <2>1, <2>4, <2>5, ReplyCalls
<1>4. CASE ~Does(t, {"open"})
  <2>1. PICK s \in {"cache", "use"} :
           /\ Goes(t, s) /\ UNCHANGED <<items, lock, opened>>
           /\ s = "cache" <=> Does(t, {"create"})
    BY <1>4 DEF RegisterBridgeHandle, Extension
  <2>2. s \in Steps
    BY DEF Steps
  <2>3. ASSUME Moved(t, s, call[t].hand)
        PROVE  OperationAt(call'[t]) /\ HandAt(call'[t]) /\ Knows(t)'
    <3>1. OperationAt(call'[t]) /\ HandAt(call'[t])
      BY <1>1, <1>4, <2>1, <2>3, CallFacts DEF OperationAt, HandAt, Moved
    <3>2. Knows(t)'
      BY <1>1, <1>4, <2>1, <2>3, CallFacts
      DEF Knows, Moved, ReplacesHandle, OperationAt, HandAt
    <3> QED
      BY <3>1, <3>2
  <2>4. Aside(t)
    BY <1>1, <2>1, AsideSame
  <2>5. call' \in [Threads -> Call] => TypeOK'
    BY <1>1, <1>2, <2>1 DEF Calls, TypeOK
  <2> QED
    BY <2>1, <2>2, <2>3, <2>4, <2>5, CallFacts, GoOnCalls
<1> QED
  BY <1>3, <1>4

(* The volume's side of closing and flushing keeps the types.              *)
LEMMA ClosedTyped ==
    ASSUME TypeOK, NEW h \in Handles
    PROVE  /\ Released(h) \in [Handles -> OpenFiles] /\ Stored(h) \in BOOLEAN
           /\ [handles EXCEPT ![h].dirty = FALSE] \in [Handles -> OpenFiles]
  BY DEF TypeOK, Released, Closed, OpenFiles, Stored

(* What follows when a handle was given up.                                *)
LEMMA ContinuesCalls ==
    ASSUME Calls, NEW t \in Threads, Continues(t),
           \/ At(t, "drop") /\ UNCHANGED <<items, opened>>
           \/ /\ At(t, "lock") /\ Does(t, {"close", "reclaim"}) /\ Aside(t)
              /\ ~call[t].keep,
           UNCHANGED stopped,
           call' \in [Threads -> Call] /\ lock' \in [Items -> Threads \cup {Nil}] => TypeOK'
    PROVE  Calls'
<1> USE DEF At, Does
<1>1. CASE Does(t, {"open", "reclaim", "shutdown"})
  <2>1. PICK s \in {"find", "forget", "each"} :
           /\ Takes(t, s, 0) /\ UNCHANGED lock
           /\ s = "find" <=> Does(t, {"open"})
           /\ s = "forget" <=> Does(t, {"reclaim"})
    BY <1>1 DEF Continues
  <2>2. s \in Steps /\ 0 \in Numbers
    BY HandlesAre DEF Steps
  <2>3. ASSUME Moved(t, s, 0)
        PROVE  OperationAt(call'[t]) /\ HandAt(call'[t]) /\ Knows(t)'
    <3>1. OperationAt(call'[t]) /\ HandAt(call'[t])
      BY <1>1, <2>1, <2>3, CallFacts DEF OperationAt, HandAt, Moved
    <3>2. Knows(t)'
      BY <1>1, <2>1, <2>3, CallFacts
      DEF Knows, Moved, ReplacesHandle, OperationAt, HandAt
    <3> QED
      BY <3>1, <3>2
  <2>4. Aside(t)
    BY <2>1, AsideSame
  <2>5. call' \in [Threads -> Call] => TypeOK'
    BY <2>1 DEF Calls, TypeOK
  <2> QED
    BY <2>1, <2>2, <2>3, <2>4, <2>5, GoOnCalls
<1>2. CASE ~Does(t, {"open", "reclaim", "shutdown"})
  <2>1. Replies(t) /\ lock' = Unlocked(t)
    BY <1>2 DEF Continues, Ends
  <2>2. Aside(t)
    BY <2>1, AsideSame
  <2> QED
    BY <2>1, <2>2, UnlockedIs, ReplyCalls DEF Calls
<1> QED
  BY <1>1, <1>2

(* passfs_bridge_close.                                                    *)
LEMMA CloseHandleCalls ==
    ASSUME Calls, NEW t \in Threads, CloseHandle(t)
    PROVE  Calls'
<1>1. /\ UNCHANGED <<current, mounted, stopped, cache, items, known, opened, begun>>
      /\ At(t, "drop") /\ Continues(t)
  BY DEF CloseHandle, Volume, Kernel
<1>2. /\ stored' \in BOOLEAN /\ registry' \in SUBSET Handles
      /\ handles' \in [Handles -> OpenFiles]
  <2>1. TypeOK
    BY DEF Calls
  <2>2. CASE call[t].hand \in registry
    BY <2>1, <2>2, ClosedTyped DEF CloseHandle, TypeOK
  <2>3. CASE call[t].hand \notin registry
    BY <2>1, <2>3 DEF CloseHandle, TypeOK
  <2> QED
    BY <2>2, <2>3
<1>3. call' \in [Threads -> Call] /\ lock' \in [Items -> Threads \cup {Nil}] => TypeOK'
  BY <1>1, <1>2 DEF Calls, TypeOK
<1> QED
  BY <1>1, <1>3, ContinuesCalls

(* PassFSItem.open with the handle that is there.                          *)
LEMMA OpenSharedCalls ==
    ASSUME Calls, NEW t \in Threads, OpenShared(t)
    PROVE  Calls'
<1>1. /\ UNCHANGED <<current, stored, mounted, registry, handles, stopped, cache, lock,
                     known, begun>>
      /\ items' = [items EXCEPT ![call[t].item].modes = @ \cup call[t].modes]
      /\ opened' = [opened EXCEPT ![call[t].item] = @ \cup call[t].modes]
      /\ Replies(t) /\ lock[call[t].item] = Nil
  BY DEF OpenShared, Vault, Bridge, Volume
<1>2. items' \in [Items -> ItemState] /\ opened' \in [Items -> SUBSET Modes]
  BY <1>1, CallFacts DEF TypeOK, ItemState
<1>3. Aside(t)
  BY <1>1, CallFacts DEF Aside, TypeOK
<1>4. call' \in [Threads -> Call] => TypeOK'
  BY <1>1, <1>2 DEF Calls, TypeOK
<1> QED
  BY <1>1, <1>3, <1>4, ReplyCalls

(* PassFSItem.open with a new handle.                                      *)
LEMMA OpenAnewCalls ==
    ASSUME Calls, NEW t \in Threads, OpenAnew(t)
    PROVE  Calls'
<1> USE DEF At, Does
<1> DEFINE i == call[t].item
           h == items[i].handle
           s == IF h # 0 THEN "drop" ELSE "find"
<1>1. /\ UNCHANGED <<current, stored, mounted, registry, handles, stopped, cache,
                     known, opened, begun>>
      /\ items' = [items EXCEPT ![i] = NoHandle]
      /\ lock' = [lock EXCEPT ![i] = t]
      /\ lock[i] = Nil /\ call[t].step = "lock" /\ call[t].op = "open"
      /\ Takes(t, s, h)
  BY DEF OpenAnew, Vault, Bridge, Volume, Kernel
<1>2. NoHandle \in ItemState /\ s \in Steps /\ h \in Numbers /\ i \in Items
  BY HandlesAre, CallFacts DEF NoHandle, ItemState, Steps
<1>3. /\ items' \in [Items -> ItemState] /\ lock' \in [Items -> Threads \cup {Nil}]
      /\ items'[i] = NoHandle /\ lock'[i] = t
  BY <1>1, <1>2, CallFacts DEF TypeOK
<1>4. Aside(t)
  BY <1>1, CallFacts DEF Aside, TypeOK
<1>5. call' \in [Threads -> Call] => TypeOK'
  BY <1>1, <1>3 DEF Calls, TypeOK
<1>6. ASSUME Moved(t, s, h)
      PROVE  OperationAt(call'[t]) /\ HandAt(call'[t]) /\ Knows(t)'
  <2>1. OperationAt(call'[t]) /\ HandAt(call'[t])
    BY <1>1, <1>6, CallFacts DEF OperationAt, HandAt, Moved
  <2>2. Knows(t)'
    BY <1>1, <1>3, <1>6, CallFacts DEF Knows, Moved, HandAt
  <2> QED
    BY <2>1, <2>2
<1> HIDE DEF i, h, s
<1> QED
  BY <1>1, <1>2, <1>4, <1>5, <1>6, GoOnCalls

(* PassFSItem.withHandle.                                                  *)
LEMMA WithHandleCalls ==
    ASSUME Calls, NEW t \in Threads, WithHandle(t)
    PROVE  Calls'
<1> USE DEF At, Does
<1> DEFINE i == call[t].item
           h == items[i].handle
           s == IF h # 0 THEN "use" ELSE "find"
           k == h # 0
<1>1. /\ UNCHANGED <<current, stored, mounted, registry, handles, stopped, cache, items,
                     known, opened, begun>>
      /\ lock' = [lock EXCEPT ![i] = t]
      /\ lock[i] = Nil /\ call[t].step = "lock" /\ call[t].op \in {"read", "write"}
      /\ call' = [call EXCEPT ![t].step = s, ![t].hand = h, ![t].keep = k]
  BY DEF WithHandle, Vault, Bridge, Volume, Kernel
<1>2. /\ s \in Steps /\ h \in Numbers /\ i \in Items /\ k \in BOOLEAN
      /\ call \in [Threads -> Call]
  BY CallFacts DEF Steps, TypeOK
<1>3. /\ call' \in [Threads -> Call] /\ Elsewhere(t)
      /\ call'[t].op = call[t].op /\ call'[t].step = s /\ call'[t].item = i
      /\ call'[t].modes = call[t].modes /\ call'[t].hand = h /\ call'[t].keep = k
      /\ call'[t].taken = call[t].taken
  <2> HIDE DEF h, s, k
  <2> QED
    BY <1>1, <1>2 DEF Call, Elsewhere
<1>4. lock' \in [Items -> Threads \cup {Nil}] /\ lock'[i] = t
  BY <1>1, <1>2, CallFacts DEF TypeOK
<1>5. Aside(t)
  BY <1>1, CallFacts DEF Aside, TypeOK
<1>6. TypeOK'
  BY <1>1, <1>3, <1>4 DEF Calls, TypeOK
<1>7. OperationAt(call'[t]) /\ HandAt(call'[t])
  <2>1. \/ call'[t].step = "use" /\ call'[t].keep /\ call'[t].hand # 0
        \/ call'[t].step = "find" /\ ~call'[t].keep /\ call'[t].hand = 0
    BY <1>3
  <2>2. call'[t].op \in {"read", "write"} /\ call'[t].taken = {}
    BY <1>1, <1>3, CallFacts DEF HandAt
  <2> QED
    BY <2>1, <2>2 DEF OperationAt, HandAt
<1>8. Knows(t)'
  BY <1>1, <1>3, <1>4, CallFacts DEF Knows, ReplacesHandle
<1> QED
  BY <1>3, <1>5, <1>6, <1>7, <1>8, OthersKnow DEF Calls

(* PassFSItem.handleIdentifier.                                            *)
LEMMA PeekCalls ==
    ASSUME Calls, NEW t \in Threads, Peek(t)
    PROVE  Calls'
<1> USE DEF At, Does
<1> DEFINE h == items[call[t].item].handle
<1>1. /\ UNCHANGED <<current, stored, mounted, registry, handles, stopped, cache, items,
                     lock, known, opened, begun>>
      /\ call[t].step = "peek" /\ Takes(t, "find", h)
  BY DEF Peek, Vault, Bridge, Volume, Kernel, Extension
<1>2. "find" \in Steps /\ h \in Numbers
  BY CallFacts DEF Steps
<1>3. ASSUME Moved(t, "find", h)
      PROVE  OperationAt(call'[t]) /\ HandAt(call'[t]) /\ Knows(t)'
  <2>1. OperationAt(call'[t]) /\ HandAt(call'[t])
    BY <1>1, <1>3, CallFacts DEF OperationAt, HandAt, Moved
  <2>2. Knows(t)'
    BY <1>1, <1>3, CallFacts DEF Knows, Moved, ReplacesHandle, OperationAt, HandAt
  <2> QED
    BY <2>1, <2>2
<1>4. Aside(t)
  BY <1>1, AsideSame
<1>5. call' \in [Threads -> Call] => TypeOK'
  BY <1>1 DEF Calls, TypeOK
<1> HIDE DEF h
<1> QED
  BY <1>1, <1>2, <1>3, <1>4, <1>5, GoOnCalls

(* bridgeHandle.                                                           *)
LEMMA UseHandleCalls ==
    ASSUME Calls, NEW t \in Threads, UseHandle(t)
    PROVE  Calls'
<1> USE DEF At, Does
<1>1. /\ UNCHANGED <<current, stored, mounted, registry, handles, stopped, cache, items,
                     known, opened, begun>>
      /\ call[t].step = "use"
  BY DEF UseHandle, Vault, Bridge, Volume, Kernel
<1>2. call' \in [Threads -> Call] /\ lock' \in [Items -> Threads \cup {Nil}] => TypeOK'
  BY <1>1 DEF Calls, TypeOK
<1>3. CASE call[t].hand \in registry \/ ~call[t].keep
  <2>1. PICK s \in {"act", "drop"} :
           /\ Goes(t, s) /\ UNCHANGED lock
           /\ IF s = "act" THEN call[t].hand \in registry ELSE ~call[t].keep
    BY <1>3 DEF UseHandle
  <2>2. s \in Steps
    BY DEF Steps
  <2>3. ASSUME Moved(t, s, call[t].hand)
        PROVE  OperationAt(call'[t]) /\ HandAt(call'[t]) /\ Knows(t)'
    <3>1. call[t].hand \in registry => call[t].hand # 0
      BY CallFacts, HandlesAre DEF TypeOK, Handles
    <3>2. OperationAt(call'[t]) /\ HandAt(call'[t])
      BY <1>1, <2>1, <2>3, <3>1, CallFacts DEF OperationAt, HandAt, Moved
    <3>3. Knows(t)'
      BY <1>1, <2>1, <2>3, CallFacts DEF Knows, Moved, ReplacesHandle, OperationAt
    <3> QED
      BY <3>2, <3>3
  <2>4. Aside(t)
    BY <1>1, <2>1, AsideSame
  <2>5. call' \in [Threads -> Call] => TypeOK'
    BY <1>1, <2>1 DEF Calls, TypeOK
  <2> QED
    BY <2>1, <2>2, <2>3, <2>4, <2>5, CallFacts, GoOnCalls
<1>4. CASE ~(call[t].hand \in registry \/ ~call[t].keep)
  <2>1. Ends(t)
    BY <1>4 DEF UseHandle
  <2> QED
    BY <1>1, <1>2, <2>1, EndCalls
<1> QED
  BY <1>3, <1>4

(* OpenFile.Read, Write, Attributes and SetAttributes.                     *)
LEMMA ActCalls ==
    ASSUME Calls, NEW t \in Threads, Act(t)
    PROVE  Calls'
<1> USE DEF At, Does
<1>1. /\ UNCHANGED <<current, mounted, registry, stopped, cache, items, known, opened,
                     begun>>
      /\ call[t].step = "act"
  BY DEF Act, Volume, Kernel
<1>2. stored' \in BOOLEAN /\ handles' \in [Handles -> OpenFiles]
  <2>1. stored \in BOOLEAN /\ handles \in [Handles -> OpenFiles]
    BY DEF Calls, TypeOK
  <2>2. CASE Open(call[t].hand) /\ Writes(t)
    <3>1. \A h \in Handles :
             /\ [handles[h] EXCEPT !.dirty = TRUE, !.latest = TRUE] \in OpenFiles
             /\ [handles[h] EXCEPT !.latest = FALSE] \in OpenFiles
      BY <2>1 DEF OpenFiles
    <3> QED
      BY <2>2, <3>1 DEF Act
  <2>3. CASE ~(Open(call[t].hand) /\ Writes(t))
    BY <2>1, <2>3 DEF Act
  <2> QED
    BY <2>2, <2>3
<1>3. CASE call[t].keep \/ Does(t, {"truncate"})
  <2>1. Ends(t)
    BY <1>3 DEF Act
  <2>2. call' \in [Threads -> Call] /\ lock' \in [Items -> Threads \cup {Nil}] => TypeOK'
    BY <1>1, <1>2 DEF Calls, TypeOK
  <2> QED
    BY <1>1, <2>1, <2>2, EndCalls
<1>4. CASE ~(call[t].keep \/ Does(t, {"truncate"}))
  <2>1. Goes(t, "drop") /\ UNCHANGED lock /\ "drop" \in Steps
    BY <1>4 DEF Act, Steps
  <2>2. ASSUME Moved(t, "drop", call[t].hand)
        PROVE  OperationAt(call'[t]) /\ HandAt(call'[t]) /\ Knows(t)'
    <3>1. OperationAt(call'[t]) /\ HandAt(call'[t])
      BY <1>1, <1>4, <2>2, CallFacts DEF OperationAt, HandAt, Moved
    <3>2. Knows(t)'
      BY <1>1, <1>4, <2>1, <2>2, CallFacts DEF Knows, Moved, ReplacesHandle, OperationAt
    <3> QED
      BY <3>1, <3>2
  <2>3. Aside(t)
    BY <1>1, <2>1, AsideSame
  <2>4. call' \in [Threads -> Call] => TypeOK'
    BY <1>1, <1>2, <2>1 DEF Calls, TypeOK
  <2> QED
    BY <2>1, <2>2, <2>3, <2>4, CallFacts, GoOnCalls
<1> QED
  BY <1>3, <1>4

(* FileSystem.SetAttributes.                                               *)
LEMMA ResizeCalls ==
    ASSUME Calls, NEW t \in Threads, Resize(t)
    PROVE  Calls'
<1> USE DEF At, Does
<1>1. /\ UNCHANGED <<current, mounted, registry, stopped, cache, items, lock, known,
                     opened, begun>>
      /\ call[t].step = "resize"
  BY DEF Resize, Volume, Kernel, Extension
<1>2. stored' \in BOOLEAN /\ handles' \in [Handles -> OpenFiles]
  <2>1. stored \in BOOLEAN /\ handles \in [Handles -> OpenFiles]
    BY DEF Calls, TypeOK
  <2>2. \/ UNCHANGED <<stored, handles>>
        \/ /\ stored' = TRUE
           /\ handles' = [h \in Handles |-> [handles[h] EXCEPT !.latest = FALSE]]
    BY DEF Resize
  <2> QED
    BY <2>1, <2>2 DEF OpenFiles
<1>3. Aside(t)
  BY <1>1, AsideSame
<1>4. call' \in [Threads -> Call] => TypeOK'
  BY <1>1, <1>2 DEF Calls, TypeOK
<1>5. CASE Replies(t)
  BY <1>3, <1>4, <1>5, ReplyCalls
<1>6. CASE ~Replies(t)
  <2>1. Goes(t, "act") /\ call[t].hand # 0 /\ "act" \in Steps
    BY <1>6 DEF Resize, Steps
  <2>2. ASSUME Moved(t, "act", call[t].hand)
        PROVE  OperationAt(call'[t]) /\ HandAt(call'[t]) /\ Knows(t)'
    <3>1. OperationAt(call'[t]) /\ HandAt(call'[t])
      BY <1>1, <2>1, <2>2, CallFacts DEF OperationAt, HandAt, Moved
    <3>2. Knows(t)'
      BY <1>1, <2>2, CallFacts DEF Knows, Moved, ReplacesHandle, OperationAt
    <3> QED
      BY <3>1, <3>2
  <2> QED
    BY <1>3, <1>4, <2>1, <2>2, CallFacts, GoOnCalls
<1> QED
  BY <1>5, <1>6

(* PassFSItem.close.                                                       *)
LEMMA CloseKeepingCalls ==
    ASSUME Calls, NEW t \in Threads, CloseKeeping(t)
    PROVE  Calls'
<1> USE DEF At, Does
<1> DEFINE i == call[t].item
<1>1. /\ UNCHANGED <<current, stored, mounted, registry, handles, stopped, cache, known,
                     begun>>
      /\ call[t].step = "lock" /\ call[t].op \in {"close", "reclaim"} /\ lock[i] = Nil
      /\ opened' = [opened EXCEPT ![i] = call[t].modes]
  BY DEF CloseKeeping, Vault, Bridge, Volume
<1>2. i = t /\ i \in Items /\ ~call[t].keep
  BY <1>1, CallFacts DEF Knows, HandAt
<1>3. NoHandle \in ItemState
  BY HandlesAre DEF NoHandle, ItemState
<1>4. items' \in {[items EXCEPT ![i].modes = call[t].modes], [items EXCEPT ![i] = NoHandle]}
  BY DEF CloseKeeping
<1>5. items' \in [Items -> ItemState] /\ opened' \in [Items -> SUBSET Modes]
  BY <1>1, <1>3, <1>4, CallFacts DEF TypeOK, ItemState
<1>6. ASSUME UNCHANGED lock \/ lock' = Unlocked(t)
      PROVE  Aside(t)
  BY <1>1, <1>2, <1>4, <1>6, CallFacts, UnlockedIs DEF Aside, TypeOK
<1>7. call' \in [Threads -> Call] /\ lock' \in [Items -> Threads \cup {Nil}] => TypeOK'
  BY <1>1, <1>5 DEF Calls, TypeOK
<1>8. CASE call[t].modes # {}
  <2>1. Replies(t) /\ lock' = Unlocked(t)
    BY <1>8 DEF CloseKeeping, Ends
  <2> QED
    BY <1>6, <1>7, <2>1, UnlockedIs, ReplyCalls DEF Calls
<1>9. CASE call[t].modes = {} /\ items[i].handle # 0
  <2>1. Takes(t, "flush", items[i].handle) /\ UNCHANGED lock
    BY <1>9 DEF CloseKeeping
  <2>2. "flush" \in Steps /\ items[i].handle \in Numbers
    BY CallFacts DEF Steps
  <2>3. ASSUME Moved(t, "flush", items[i].handle)
        PROVE  OperationAt(call'[t]) /\ HandAt(call'[t]) /\ Knows(t)'
    <3>1. OperationAt(call'[t]) /\ HandAt(call'[t])
      BY <1>1, <2>3, CallFacts DEF OperationAt, HandAt, Moved
    <3>2. Knows(t)'
      BY <1>1, <1>2, <2>3, CallFacts DEF Knows, Moved, ReplacesHandle
    <3> QED
      BY <3>1, <3>2
  <2>4. call' \in [Threads -> Call] => TypeOK'
    BY <1>7, <2>1 DEF Calls, TypeOK
  <2> HIDE DEF i
  <2> QED
    BY <1>6, <2>1, <2>2, <2>3, <2>4, GoOnCalls
<1>10. CASE call[t].modes = {} /\ items[i].handle = 0
  <2>1. Continues(t)
    BY <1>10 DEF CloseKeeping
  <2>2. UNCHANGED lock \/ lock' = Unlocked(t)
    BY <2>1 DEF Continues, Ends
  <2> QED
    BY <1>1, <1>2, <1>6, <1>7, <2>1, <2>2, ContinuesCalls
<1> QED
  BY <1>8, <1>9, <1>10

(* passfs_bridge_flush.                                                    *)
LEMMA FlushHandleCalls ==
    ASSUME Calls, NEW t \in Threads, FlushHandle(t)
    PROVE  Calls'
<1> USE DEF At, Does
<1>1. /\ UNCHANGED <<current, mounted, registry, stopped, cache, items, lock, known,
                     opened, begun>>
      /\ call[t].step = "flush" /\ Goes(t, "drop") /\ "drop" \in Steps
  BY DEF FlushHandle, Volume, Kernel, Extension, Steps
<1>2. stored' \in BOOLEAN /\ handles' \in [Handles -> OpenFiles]
  <2>1. TypeOK
    BY DEF Calls
  <2>2. CASE call[t].hand \in registry /\ Open(call[t].hand)
    BY <2>1, <2>2, ClosedTyped DEF FlushHandle, TypeOK
  <2>3. CASE ~(call[t].hand \in registry /\ Open(call[t].hand))
    BY <2>1, <2>3 DEF FlushHandle, TypeOK
  <2> QED
    BY <2>2, <2>3
<1>3. ASSUME Moved(t, "drop", call[t].hand)
      PROVE  OperationAt(call'[t]) /\ HandAt(call'[t]) /\ Knows(t)'
  <2>1. OperationAt(call'[t]) /\ HandAt(call'[t])
    BY <1>1, <1>3, CallFacts DEF OperationAt, HandAt, Moved
  <2>2. Knows(t)'
    BY <1>1, <1>3, CallFacts DEF Knows, Moved, ReplacesHandle, OperationAt
  <2> QED
    BY <2>1, <2>2
<1>4. Aside(t)
  BY <1>1, AsideSame
<1>5. call' \in [Threads -> Call] => TypeOK'
  BY <1>1, <1>2 DEF Calls, TypeOK
<1> QED
  BY <1>1, <1>3, <1>4, <1>5, CallFacts, GoOnCalls

(* passfs_bridge_lookup.                                                   *)
LEMMA LookupCalls ==
    ASSUME Calls, NEW t \in Threads, Lookup(t)
    PROVE  Calls'
<1> USE DEF At, Does
<1>1. /\ UNCHANGED <<current, stored, mounted, registry, handles, stopped, cache, items,
                     lock, known, opened, begun>>
      /\ call[t].step = "lookup"
  BY DEF Lookup, Vault, Bridge, Volume, Kernel, Extension
<1>2. Aside(t)
  BY <1>1, AsideSame
<1>3. call' \in [Threads -> Call] => TypeOK'
  BY <1>1 DEF Calls, TypeOK
<1>4. CASE current # Nil
  <2>1. call' = [call EXCEPT ![t].step = "cache", ![t].item = current]
    BY <1>4 DEF Lookup
  <2>2. current \in Items /\ "cache" \in Steps /\ call \in [Threads -> Call]
    BY <1>4 DEF Calls, TypeOK, Steps
  <2>3. /\ call' \in [Threads -> Call] /\ Elsewhere(t)
        /\ call'[t].op = call[t].op /\ call'[t].step = "cache"
        /\ call'[t].hand = call[t].hand /\ call'[t].keep = call[t].keep
        /\ call'[t].modes = call[t].modes /\ call'[t].taken = call[t].taken
    BY <2>1, <2>2 DEF Call, Elsewhere
  <2>4. OperationAt(call'[t]) /\ HandAt(call'[t])
    BY <1>1, <2>3, CallFacts DEF OperationAt, HandAt
  <2>5. Knows(t)'
    BY <1>1, <2>3, CallFacts DEF Knows, ReplacesHandle, OperationAt, HandAt
  <2> QED
    BY <1>2, <1>3, <2>3, <2>4, <2>5, OthersKnow DEF Calls
<1>5. CASE current = Nil
  <2>1. Replies(t)
    BY <1>5 DEF Lookup
  <2> QED
    BY <1>2, <1>3, <2>1, ReplyCalls
<1> QED
  BY <1>4, <1>5

(* The end of item(path:attributes:).                                      *)
LEMMA FoundCalls ==
    ASSUME Calls, NEW t \in Threads, Found(t), call[t].step \in {"cache", "move"},
           UNCHANGED <<items, opened, stopped, lock>>,
           call' \in [Threads -> Call] /\ known' \in SUBSET Items => TypeOK'
    PROVE  Calls'
<1> USE DEF At, Does
<1>1. Aside(t)
  BY AsideSame
<1>2. known' \in SUBSET Items
  BY CallFacts DEF Found, TypeOK
<1>3. CASE Does(t, {"create"})
  <2>1. Goes(t, "adopt") /\ "adopt" \in Steps
    BY <1>3 DEF Found, Steps
  <2>2. ASSUME Moved(t, "adopt", call[t].hand)
        PROVE  OperationAt(call'[t]) /\ HandAt(call'[t]) /\ Knows(t)'
    <3>1. OperationAt(call'[t]) /\ HandAt(call'[t])
      BY <1>3, <2>2, CallFacts DEF OperationAt, HandAt, Moved
    <3>2. Knows(t)'
      BY <1>3, <2>2, CallFacts DEF Knows, Moved, ReplacesHandle, HandAt
    <3> QED
      BY <3>1, <3>2
  <2> QED
    BY <1>1, <1>2, <2>1, <2>2, CallFacts, GoOnCalls
<1>4. CASE ~Does(t, {"create"})
  <2>1. Replies(t)
    BY <1>4 DEF Found
  <2> QED
    BY <1>1, <1>2, <2>1, ReplyCalls
<1> QED
  BY <1>3, <1>4

(* PassFSVolume.item and PassFSItem.move.                                  *)
LEMMA CacheCalls ==
    ASSUME Calls, NEW t \in Threads, CacheItem(t) \/ Move(t)
    PROVE  Calls'
<1> USE DEF At, Does
<1>1. CASE CacheItem(t)
  <2>1. /\ UNCHANGED <<current, stored, mounted, registry, handles, stopped, items, lock,
                       opened, begun>>
        /\ call[t].step = "cache" /\ cache' = cache \cup {call[t].item}
    BY <1>1 DEF CacheItem, Vault, Bridge, Extension
  <2>2. cache' \in SUBSET Items
    BY <2>1, CallFacts DEF TypeOK
  <2>3. call' \in [Threads -> Call] /\ known' \in SUBSET Items => TypeOK'
    BY <2>1, <2>2 DEF Calls, TypeOK
  <2>4. CASE call[t].item \in cache
    <3>1. Goes(t, "move") /\ "move" \in Steps /\ known' = known
      BY <1>1, <2>4 DEF CacheItem, Steps
    <3>2. ASSUME Moved(t, "move", call[t].hand)
          PROVE  OperationAt(call'[t]) /\ HandAt(call'[t]) /\ Knows(t)'
      <4>1. OperationAt(call'[t]) /\ HandAt(call'[t])
        BY <2>1, <3>2, CallFacts DEF OperationAt, HandAt, Moved
      <4>2. Knows(t)'
        BY <2>1, <3>2, CallFacts DEF Knows, Moved, ReplacesHandle, OperationAt, HandAt
      <4> QED
        BY <4>1, <4>2
    <3>3. Aside(t) /\ known' \in SUBSET Items
      BY <2>1, <3>1, AsideSame DEF Calls, TypeOK
    <3> QED
      BY <2>3, <3>1, <3>2, <3>3, CallFacts, GoOnCalls
  <2>5. CASE call[t].item \notin cache
    <3>1. Found(t)
      BY <1>1, <2>5 DEF CacheItem
    <3> QED
      BY <2>1, <2>3, <3>1, FoundCalls
  <2> QED
    BY <2>4, <2>5
<1>2. CASE Move(t)
  <2>1. /\ UNCHANGED <<current, stored, mounted, registry, handles, stopped, cache, items,
                       lock, opened, begun>>
        /\ call[t].step = "move" /\ Found(t)
    BY <1>2 DEF Move, Vault, Bridge, Extension, Volume
  <2>2. call' \in [Threads -> Call] /\ known' \in SUBSET Items => TypeOK'
    BY <2>1 DEF Calls, TypeOK
  <2> QED
    BY <2>1, <2>2, FoundCalls
<1> QED
  BY <1>1, <1>2

(* PassFSItem.adopt.                                                       *)
LEMMA AdoptCalls ==
    ASSUME Calls, NEW t \in Threads, Adopt(t)
    PROVE  Calls'
<1> USE DEF At, Does
<1> DEFINE i == call[t].item
<1>1. /\ UNCHANGED <<current, stored, mounted, registry, handles, stopped, cache, lock,
                     opened, begun>>
      /\ call[t].step = "adopt" /\ lock[i] = Nil
      /\ items' = [items EXCEPT ![i] = [handle |-> call[t].hand, modes |-> Modes]]
      /\ known' = known \cup {i}
  BY DEF Adopt, Vault, Bridge, Volume
<1>2. items' \in [Items -> ItemState] /\ known' \in SUBSET Items
  BY <1>1, CallFacts DEF TypeOK, ItemState
<1>3. Aside(t)
  BY <1>1, CallFacts DEF Aside, TypeOK
<1>4. call' \in [Threads -> Call] => TypeOK'
  BY <1>1, <1>2 DEF Calls, TypeOK
<1>5. CASE items[i].handle # 0
  <2>1. Takes(t, "drop", items[i].handle) /\ "drop" \in Steps
    BY <1>5 DEF Adopt, Steps
  <2>2. ASSUME Moved(t, "drop", items[i].handle)
        PROVE  OperationAt(call'[t]) /\ HandAt(call'[t]) /\ Knows(t)'
    <3>1. OperationAt(call'[t]) /\ HandAt(call'[t])
      BY <1>1, <2>2, CallFacts DEF OperationAt, HandAt, Moved
    <3>2. Knows(t)'
      BY <1>1, <2>2, CallFacts DEF Knows, Moved, ReplacesHandle, OperationAt, HandAt
    <3> QED
      BY <3>1, <3>2
  <2>3. items[i].handle \in Numbers
    BY CallFacts
  <2> QED
    BY <1>3, <1>4, <2>1, <2>2, <2>3, GoOnCalls
<1>6. CASE items[i].handle = 0
  <2>1. Replies(t)
    BY <1>6 DEF Adopt
  <2> QED
    BY <1>3, <1>4, <2>1, ReplyCalls
<1> QED
  BY <1>5, <1>6

(* passfs_bridge_unlink and PassFSVolume.removeFromCache.                  *)
LEMMA RemoveCalls ==
    ASSUME Calls, NEW t \in Threads, Unlink(t) \/ Forget(t)
    PROVE  Calls'
<1> USE DEF At, Does
<1>1. UNCHANGED <<mounted, registry, handles, stopped, items, lock, opened, begun>>
  BY DEF Unlink, Forget, Vault, Bridge, Volume, Kernel, Extension
<1>2. Aside(t)
  BY <1>1, AsideSame
<1>3. /\ current' \in Items \cup {Nil} /\ stored' \in BOOLEAN
      /\ cache' \in SUBSET Items /\ known' \in SUBSET Items
  BY CallFacts DEF Unlink, Forget, Vault, Volume, Kernel, TypeOK
<1>4. call' \in [Threads -> Call] => TypeOK'
  BY <1>1, <1>3 DEF Calls, TypeOK
<1>5. CASE Replies(t)
  BY <1>2, <1>4, <1>5, ReplyCalls
<1>6. CASE ~Replies(t)
  <2>1. call[t].step = "unlink" /\ Goes(t, "forget") /\ "forget" \in Steps
    BY <1>6 DEF Unlink, Forget, Steps
  <2>2. ASSUME Moved(t, "forget", call[t].hand)
        PROVE  OperationAt(call'[t]) /\ HandAt(call'[t]) /\ Knows(t)'
    <3>1. OperationAt(call'[t]) /\ HandAt(call'[t])
      BY <2>1, <2>2, CallFacts DEF OperationAt, HandAt, Moved
    <3>2. Knows(t)'
      BY <2>1, <2>2, CallFacts DEF Knows, Moved, ReplacesHandle, OperationAt, HandAt
    <3> QED
      BY <3>1, <3>2
  <2> QED
    BY <1>2, <1>4, <2>1, <2>2, CallFacts, GoOnCalls
<1> QED
  BY <1>5, <1>6

(* PassFSVolume.shutdown and passfs_bridge_close_file_system.              *)
LEMMA ShutdownCalls ==
    ASSUME Calls, NEW t \in Threads,
           Stop(t) \/ CloseEach(t) \/ CloseFileSystem(t) \/ Sweep(t)
    PROVE  Calls'
<1> USE DEF At, Does
<1>1. call[t].op = "shutdown" /\ call \in [Threads -> Call]
  BY CallFacts DEF OperationAt, Stop, CloseEach, CloseFileSystem, Sweep, TypeOK
<1>2. ASSUME Elsewhere(t), Aside(t), TypeOK', call'[t].op = "shutdown",
             call'[t].step \in {"each", "flush", "unregister", "sweep"},
             call'[t].hand # 0 => call'[t].step = "flush", ~call'[t].keep,
             call'[t].taken # {} => call'[t].step = "sweep", stopped'
      PROVE  Calls'
  <2>1. OperationAt(call'[t]) /\ HandAt(call'[t])
    BY <1>2 DEF OperationAt, HandAt
  <2>2. Knows(t)'
    BY <1>1, <1>2, CallFacts DEF Knows, ReplacesHandle
  <2> QED
    BY <1>2, <2>1, <2>2, OthersKnow DEF Calls
<1>3. CASE Stop(t)
  <2>1. /\ UNCHANGED <<current, stored, mounted, registry, handles, items, lock, known,
                       opened, begun>>
        /\ call[t].step = "stop" /\ "each" \in Steps
        /\ stopped' = TRUE /\ cache' = {} /\ cache \in SUBSET Items
        /\ call' = [call EXCEPT ![t].step = "each", ![t].todo = cache]
    BY <1>3 DEF Stop, Vault, Bridge, Extension, Kernel, Calls, TypeOK, Steps
  <2>2. /\ call' \in [Threads -> Call] /\ Elsewhere(t)
        /\ call'[t].op = call[t].op /\ call'[t].step = "each"
        /\ call'[t].hand = call[t].hand /\ call'[t].keep = call[t].keep
        /\ call'[t].taken = call[t].taken
    BY <1>1, <2>1 DEF Call, Elsewhere
  <2>3. TypeOK'
    BY <2>1, <2>2 DEF Calls, TypeOK
  <2>4. Aside(t)
    BY <2>1 DEF Aside
  <2> QED
    BY <1>1, <1>2, <2>1, <2>2, <2>3, <2>4, CallFacts DEF HandAt
<1>4. CASE CloseEach(t) /\ Goes(t, "unregister") /\ UNCHANGED items
  <2>1. /\ UNCHANGED <<current, stored, mounted, registry, handles, stopped, cache, items,
                       lock, known, opened, begun>>
        /\ call[t].step = "each" /\ "unregister" \in Steps
    BY <1>4 DEF CloseEach, Vault, Bridge, Volume, Kernel, Steps
  <2>2. call' \in [Threads -> Call] /\ Elsewhere(t) /\ Moved(t, "unregister", call[t].hand)
    BY <1>4, <2>1, GoesIs DEF Calls
  <2>3. TypeOK'
    BY <2>1, <2>2 DEF Calls, TypeOK
  <2>4. Aside(t)
    BY <2>1, AsideSame
  <2> QED
    BY <1>1, <1>2, <2>1, <2>2, <2>3, <2>4, CallFacts DEF HandAt, Moved, Knows
<1>5. CASE CloseEach(t) /\ ~(Goes(t, "unregister") /\ UNCHANGED items)
  <2>1. PICK i \in call[t].todo :
           /\ lock[i] = Nil
           /\ items' = [items EXCEPT ![i] = NoHandle]
           /\ call' = [call EXCEPT ![t].todo = @ \ {i}, ![t].hand = items[i].handle,
                 ![t].step = IF items[i].handle # 0 THEN "flush" ELSE "each"]
    BY <1>5 DEF CloseEach
  <2>2. /\ UNCHANGED <<current, stored, mounted, registry, handles, stopped, cache, lock,
                       known, opened, begun>>
        /\ call[t].step = "each"
    BY <1>5 DEF CloseEach, Vault, Bridge, Volume, Kernel
  <2>3. /\ i \in Items /\ items[i].handle \in Numbers
        /\ NoHandle \in ItemState /\ items \in [Items -> ItemState]
    BY CallFacts, HandlesAre DEF TypeOK, Call, NoHandle, ItemState
  <2>4. PICK s \in Steps, h \in Numbers :
           /\ call' = [call EXCEPT ![t].todo = @ \ {i}, ![t].hand = h, ![t].step = s]
           /\ s \in {"flush", "each"} /\ (h # 0 => s = "flush")
    BY <2>1, <2>3 DEF Steps
  <2>5. /\ call' \in [Threads -> Call] /\ Elsewhere(t)
        /\ call'[t].op = call[t].op /\ call'[t].step = s
        /\ call'[t].hand = h /\ call'[t].keep = call[t].keep
        /\ call'[t].taken = call[t].taken
    BY <1>1, <2>4 DEF Call, Elsewhere
  <2>6. TypeOK'
    <3>1. items' \in [Items -> ItemState]
      BY <2>1, <2>3
    <3> QED
      BY <2>2, <2>5, <3>1 DEF Calls, TypeOK
  <2>7. Aside(t)
    BY <2>1, <2>2, <2>3 DEF Aside
  <2> QED
    BY <1>1, <1>2, <2>2, <2>4, <2>5, <2>6, <2>7, CallFacts DEF HandAt, Knows
<1>6. CASE CloseFileSystem(t)
  <2>1. /\ UNCHANGED <<current, stored, handles, stopped, cache, items, lock, known,
                       opened, begun>>
        /\ call[t].step = "unregister" /\ "sweep" \in Steps /\ mounted' = FALSE /\ registry' = {}
        /\ registry \in SUBSET Handles
        /\ call' = [call EXCEPT ![t].step = "sweep", ![t].taken = registry]
    BY <1>6 DEF CloseFileSystem, Vault, Volume, Extension, Kernel, Calls, TypeOK, Steps
  <2>2. /\ call' \in [Threads -> Call] /\ Elsewhere(t)
        /\ call'[t].op = call[t].op /\ call'[t].step = "sweep"
        /\ call'[t].hand = call[t].hand /\ call'[t].keep = call[t].keep
    BY <1>1, <2>1 DEF Call, Elsewhere
  <2>3. TypeOK'
    BY <2>1, <2>2 DEF Calls, TypeOK
  <2>4. Aside(t)
    BY <2>1 DEF Aside
  <2> QED
    BY <1>1, <1>2, <2>1, <2>2, <2>3, <2>4, CallFacts DEF HandAt, Knows
<1>7. CASE Sweep(t) /\ Replies(t) /\ UNCHANGED <<stored, handles>>
  <2>1. UNCHANGED <<current, mounted, registry, stopped, cache, items, lock, known,
                    opened, begun>>
    BY <1>7 DEF Sweep, Volume, Extension, Kernel
  <2>2. call' \in [Threads -> Call] => TypeOK'
    BY <1>7, <2>1 DEF Calls, TypeOK
  <2> QED
    BY <1>7, <2>1, <2>2, AsideSame, ReplyCalls
<1>8. CASE Sweep(t) /\ ~(Replies(t) /\ UNCHANGED <<stored, handles>>)
  <2>1. PICK h \in call[t].taken :
           /\ stored' = Stored(h) /\ handles' = Released(h)
           /\ call' = [call EXCEPT ![t].taken = @ \ {h}]
    BY <1>8 DEF Sweep
  <2>2. /\ UNCHANGED <<current, mounted, registry, stopped, cache, items, lock, known,
                       opened, begun>>
        /\ call[t].step = "sweep"
    BY <1>8 DEF Sweep, Volume, Extension, Kernel
  <2>3. h \in Handles
    BY CallFacts DEF Call
  <2>4. /\ call' \in [Threads -> Call] /\ Elsewhere(t)
        /\ call'[t].op = call[t].op /\ call'[t].step = call[t].step
        /\ call'[t].hand = call[t].hand /\ call'[t].keep = call[t].keep
    BY <1>1, <2>1 DEF Call, Elsewhere
  <2>5. TypeOK'
    BY <2>1, <2>2, <2>3, <2>4, ClosedTyped DEF Calls, TypeOK
  <2>6. Aside(t)
    BY <2>2, AsideSame
  <2> QED
    BY <1>1, <1>2, <2>2, <2>4, <2>5, <2>6, CallFacts DEF HandAt, Knows
<1> QED
  BY <1>3, <1>4, <1>5, <1>6, <1>7, <1>8

(* A step of a thread keeps what all of the calls know.                    *)
LEMMA StepCalls ==
    ASSUME Calls, NEW t \in Threads, Step(t)
    PROVE  Calls'
  BY FindFileSystemCalls, OpenFileCalls, RegisterBridgeHandleCalls, CloseHandleCalls,
     OpenSharedCalls, OpenAnewCalls, WithHandleCalls, PeekCalls, UseHandleCalls,
     ActCalls, ResizeCalls, CloseKeepingCalls, FlushHandleCalls, LookupCalls,
     CacheCalls, AdoptCalls, RemoveCalls, ShutdownCalls
  DEF Step

-----------------------------------------------------------------------------
(* The last write: what the handles hold and the vault has.                *)

(* A handle that is closed has stored its data.                            *)
LEMMA CloseData ==
    ASSUME TypeOK, Data, NEW h \in Handles, stored' = Stored(h), handles' = Released(h)
    PROVE  Data'
<1>1. /\ \A g \in Handles : handles'[g] = IF g = h THEN Closed ELSE handles[g]
      /\ ~Closed.open /\ ~Closed.dirty
  BY DEF TypeOK, Released, Closed
<1>2. /\ \A f, g \in Handles : (Open(f) /\ handles[f].writable /\ Open(g) => g = f)'
      /\ \A g \in Handles :
            (handles[g].dirty => Open(g) /\ handles[g].writable /\ handles[g].latest)'
  BY <1>1 DEF Data, Open
<1>3. WritesKept'
  <2>1. CASE handles[h].dirty
    BY <2>1 DEF Data, Stored, WritesKept
  <2>2. CASE ~handles[h].dirty
    BY <1>1, <2>2 DEF Data, Stored, WritesKept
  <2> QED
    BY <2>1, <2>2
<1> QED
  BY <1>2, <1>3 DEF Data

(* So has one that is flushed.                                             *)
LEMMA FlushData ==
    ASSUME TypeOK, Data, NEW h \in Handles, stored' = Stored(h),
           handles' = [handles EXCEPT ![h].dirty = FALSE]
    PROVE  Data'
<1>1. \A g \in Handles :
         /\ handles'[g].open = handles[g].open
         /\ handles'[g].writable = handles[g].writable
         /\ handles'[g].latest = handles[g].latest
         /\ handles'[g].dirty = IF g = h THEN FALSE ELSE handles[g].dirty
  BY DEF TypeOK, OpenFiles
<1>2. /\ \A f, g \in Handles : (Open(f) /\ handles[f].writable /\ Open(g) => g = f)'
      /\ \A g \in Handles :
            (handles[g].dirty => Open(g) /\ handles[g].writable /\ handles[g].latest)'
  BY <1>1 DEF Data, Open
<1>3. WritesKept'
  <2>1. CASE handles[h].dirty
    BY <2>1 DEF Data, Stored, WritesKept
  <2>2. CASE ~handles[h].dirty
    BY <1>1, <2>2 DEF Data, Stored, WritesKept
  <2> QED
    BY <2>1, <2>2
<1> QED
  BY <1>2, <1>3 DEF Data

(* The path lock keeps a new handle and a writer apart.                    *)
LEMMA OpenFileData ==
    ASSUME TypeOK, Data, NEW t \in Threads, OpenFile(t)
    PROVE  Data'
<1>1. CASE UNCHANGED handles
  BY <1>1 DEF OpenFile, Data, Open, WritesKept
<1>2. CASE ~UNCHANGED handles
  <2>1. PICK writable \in BOOLEAN :
           /\ PathFree(writable) /\ Unused # {} /\ stored' = stored
           /\ handles' = [handles EXCEPT ![Fresh] = [open |-> TRUE,
                 writable |-> writable, dirty |-> FALSE, latest |-> stored]]
    BY <1>2 DEF OpenFile
  <2>2. Fresh \in Handles /\ ~Open(Fresh)
    BY <2>1, FreshUnused
  <2>3. /\ \A g \in Handles : g # Fresh => handles'[g] = handles[g]
        /\ handles'[Fresh].writable = writable /\ ~handles'[Fresh].dirty
    BY <2>1, <2>2 DEF TypeOK
  <2>4. /\ \A f, g \in Handles : (Open(f) /\ handles[f].writable /\ Open(g) => g = f)'
        /\ \A g \in Handles :
              (handles[g].dirty => Open(g) /\ handles[g].writable /\ handles[g].latest)'
    BY <2>1, <2>3 DEF Data, Open, PathFree
  <2>5. WritesKept'
    BY <2>1, <2>2, <2>3 DEF Data, Open, WritesKept
  <2> QED
    BY <2>4, <2>5 DEF Data
<1> QED
  BY <1>1, <1>2

(* A write makes its handle the one that has the last write.               *)
LEMMA ActData ==
    ASSUME Calls, Data, NEW t \in Threads, Act(t)
    PROVE  Data'
<1> DEFINE a == call[t].hand
<1>1. a \in Handles
  BY CallFacts, HandlesAre DEF Act, At, HandAt
<1>2. CASE Open(a) /\ handles[a].writable /\ Writes(t)
  <2>1. handles' = [h \in Handles |-> IF h = a
                      THEN [handles[h] EXCEPT !.dirty = TRUE, !.latest = TRUE]
                      ELSE [handles[h] EXCEPT !.latest = FALSE]]
    BY <1>2 DEF Act
  <2>2. \A h \in Handles :
           /\ handles'[h].open = handles[h].open
           /\ handles'[h].writable = handles[h].writable
           /\ IF h = a THEN handles'[h].dirty /\ handles'[h].latest
                       ELSE handles'[h].dirty = handles[h].dirty
    BY <2>1 DEF Calls, TypeOK, OpenFiles
  <2>3. /\ \A f, g \in Handles : (Open(f) /\ handles[f].writable /\ Open(g) => g = f)'
        /\ \A g \in Handles :
              (handles[g].dirty => Open(g) /\ handles[g].writable /\ handles[g].latest)'
    BY <1>1, <1>2, <2>2 DEF Data, Open
  <2>4. WritesKept'
    BY <1>1, <1>2, <2>2 DEF Open, WritesKept
  <2> QED
    BY <2>3, <2>4 DEF Data
<1>3. CASE ~(Open(a) /\ handles[a].writable /\ Writes(t))
  <2>1. UNCHANGED <<stored, handles>>
    BY <1>3 DEF Act, Writes
  <2> QED
    BY <2>1 DEF Data, Open, WritesKept
<1> QED
  BY <1>2, <1>3

(* The volume resizes a file itself only when nobody has it open.          *)
LEMMA ResizeData ==
    ASSUME TypeOK, Data, NEW t \in Threads, Resize(t)
    PROVE  Data'
<1>1. CASE UNCHANGED <<stored, handles>>
  BY <1>1 DEF Data, Open, WritesKept
<1>2. CASE ~UNCHANGED <<stored, handles>>
  <2>1. /\ PathFree(TRUE) /\ stored' = TRUE
        /\ handles' = [h \in Handles |-> [handles[h] EXCEPT !.latest = FALSE]]
    BY <1>2 DEF Resize
  <2>2. \A h \in Handles : /\ handles'[h].open = handles[h].open
                           /\ handles'[h].dirty = handles[h].dirty
    BY <2>1 DEF TypeOK, OpenFiles
  <2> QED
    BY <2>1, <2>2 DEF Data, Open, PathFree, WritesKept
<1> QED
  BY <1>1, <1>2

(* No step loses the last write.                                           *)
LEMMA StepData ==
    ASSUME Calls, Data, NEW t \in Threads, Step(t)
    PROVE  Data'
<1>1. CASE UNCHANGED <<stored, handles>>
  BY <1>1 DEF Data, Open, WritesKept
<1>2. CASE OpenFile(t)
  BY <1>2, OpenFileData DEF Calls
<1>3. CASE CloseHandle(t)
  <2>1. CASE call[t].hand \in registry
    <3>1. call[t].hand \in Handles
      BY <2>1 DEF Calls, TypeOK
    <3> QED
      BY <1>3, <2>1, <3>1, CloseData DEF CloseHandle, Calls
  <2>2. CASE call[t].hand \notin registry
    BY <1>1, <1>3, <2>2 DEF CloseHandle
  <2> QED
    BY <2>1, <2>2
<1>4. CASE Act(t)
  BY <1>4, ActData
<1>5. CASE Resize(t)
  BY <1>5, ResizeData DEF Calls
<1>6. CASE FlushHandle(t)
  <2>1. CASE call[t].hand \in registry /\ Open(call[t].hand)
    <3>1. call[t].hand \in Handles
      BY <2>1 DEF Calls, TypeOK
    <3> QED
      BY <1>6, <2>1, <3>1, FlushData DEF FlushHandle, Calls
  <2>2. CASE ~(call[t].hand \in registry /\ Open(call[t].hand))
    BY <1>1, <1>6, <2>2 DEF FlushHandle
  <2> QED
    BY <2>1, <2>2
<1>7. CASE Unlink(t)
  BY <1>1, <1>7 DEF Unlink, Vault, Bridge, Data, Open, WritesKept
<1>8. CASE Sweep(t)
  <2>1. ASSUME NEW h \in call[t].taken, stored' = Stored(h), handles' = Released(h)
        PROVE  Data'
    <3>1. h \in Handles
      BY CallFacts DEF Call
    <3> QED
      BY <2>1, <3>1, CloseData DEF Calls
  <2> QED
    BY <1>1, <1>8, <2>1 DEF Sweep
<1>9. CASE \/ FindFileSystem(t) \/ RegisterBridgeHandle(t) \/ OpenShared(t)
           \/ OpenAnew(t) \/ WithHandle(t) \/ Peek(t) \/ UseHandle(t)
           \/ CloseKeeping(t) \/ Lookup(t) \/ CacheItem(t) \/ Move(t) \/ Adopt(t)
           \/ Forget(t) \/ Stop(t) \/ CloseEach(t) \/ CloseFileSystem(t)
  <2>1. UNCHANGED <<stored, handles>>
    BY <1>9 DEF FindFileSystem, RegisterBridgeHandle, OpenShared, OpenAnew, WithHandle,
       Peek, UseHandle, CloseKeeping, Lookup, CacheItem, Move, Adopt, Forget, Stop,
       CloseEach, CloseFileSystem, Vault, Bridge
  <2> QED
    BY <1>1, <2>1
<1> QED
  BY <1>2, <1>3, <1>4, <1>5, <1>6, <1>7, <1>8, <1>9 DEF Step

-----------------------------------------------------------------------------
(* Who has which handle.                                                   *)

Ownership == Registered /\ Held /\ Unshared

Owning(c) == c.hand # 0 /\ ~c.keep /\ c.op # "truncate"

(* Only shutdown takes handles out of the registry.                        *)
LEMMA TakenByStopper ==
    ASSUME Calls, NEW t \in Threads
    PROVE  call[t].taken # {} => t = Stopper /\ call[t].step = "sweep"
  BY CallFacts DEF HandAt, OperationAt, Knows, Does

(* A step that moves no handle.                                            *)
LEMMA QuietOwnership ==
    ASSUME Calls, Ownership, NEW t \in Threads, Elsewhere(t), registry' = registry,
           \A h \in Handles : handles'[h].open = handles[h].open,
           \A i \in Items : items'[i].handle = items[i].handle,
           \A h \in Handles : Owns(t, h)' <=> Owns(t, h),
           call'[t].taken = call[t].taken,
           call[t].step # "register", call'[t].step # "register"
    PROVE  Ownership'
<1> USE DEF At, Does, Elsewhere
<1>1. registry \in SUBSET Handles /\ \A u \in Threads : call[u] \in Call
  BY DEF Calls, TypeOK
<1>2. \A h \in Handles : Open(h)' <=> Open(h)
  BY DEF Open
<1>3. \A u \in Threads : /\ \A h \in Handles : Owns(u, h)' <=> Owns(u, h)
                         /\ call'[u].taken = call[u].taken
                         /\ call'[u].step = "register" =>
                               call[u].step = "register" /\ call'[u].hand = call[u].hand
                         /\ call[u].step = "register" =>
                               call'[u].step = "register" /\ call'[u].hand = call[u].hand
  BY DEF Owns
<1>4. \A u \in Threads : /\ call[u].step = "register" => call[u].hand \in Handles
                         /\ call[u].taken \in SUBSET Handles
  BY CallFacts, HandlesAre DEF HandAt, Call
<1>5. Stopper \in Threads
  BY DEF Threads
<1>6. Registered'
  BY <1>1, <1>2, <1>3, <1>4, <1>5 DEF Ownership, Registered
<1>7. Held'
  BY <1>2, <1>3, <1>5 DEF Ownership, Held
<1>8. Unshared'
  BY <1>3 DEF Ownership, Unshared
<1> QED
  BY <1>6, <1>7, <1>8 DEF Ownership

(* A call that returns and owns nothing.                                   *)
LEMMA ReplyOwnership ==
    ASSUME Calls, Ownership, NEW t \in Threads, Replies(t), registry' = registry,
           \A h \in Handles : handles'[h].open = handles[h].open,
           \A i \in Items : items'[i].handle = items[i].handle,
           ~Owning(call[t]), call[t].taken = {}, call[t].step # "register"
    PROVE  Ownership'
<1>1. Elsewhere(t) /\ call'[t] = Idle
  BY RepliesIs DEF Calls
<1>2. call'[t].taken = {} /\ call'[t].step = "idle" /\ call'[t].hand = 0
  BY <1>1, IdleFine
<1>3. \A h \in Handles : ~Owns(t, h) /\ ~Owns(t, h)'
  BY <1>2 DEF Owns, Owning, Does, Handles
<1> QED
  BY <1>1, <1>2, <1>3, QuietOwnership

(* A call that goes on with the handle it has.                             *)
LEMMA GoOnOwnership ==
    ASSUME Calls, Ownership, NEW t \in Threads, NEW s \in Steps, Goes(t, s),
           registry' = registry,
           \A h \in Handles : handles'[h].open = handles[h].open,
           \A i \in Items : items'[i].handle = items[i].handle,
           call[t].step # "register", s # "register"
    PROVE  Ownership'
<1>1. Elsewhere(t) /\ Moved(t, s, call[t].hand)
  BY GoesIs DEF Calls
<1>2. \A h \in Handles : Owns(t, h)' <=> Owns(t, h)
  BY <1>1 DEF Owns, Does, Moved
<1>3. call'[t].taken = call[t].taken /\ call'[t].step = s
  BY <1>1 DEF Moved
<1> QED
  BY <1>1, <1>2, <1>3, QuietOwnership

(* A call that owns nothing, before or after.                              *)
LEMMA PoorOwnership ==
    ASSUME Calls, Ownership, NEW t \in Threads, Elsewhere(t), registry' = registry,
           \A h \in Handles : handles'[h].open = handles[h].open,
           \A i \in Items : items'[i].handle = items[i].handle,
           ~Owning(call[t]), ~Owning(call'[t]), call'[t].taken = call[t].taken,
           call[t].step # "register", call'[t].step # "register"
    PROVE  Ownership'
<1>1. \A h \in Handles : ~Owns(t, h) /\ ~Owns(t, h)'
  BY DEF Owns, Owning, Does, Handles
<1> QED
  BY <1>1, QuietOwnership

(* The handle of an item becomes the call's.                               *)
LEMMA TakeOwnership ==
    ASSUME Calls, Ownership, NEW t \in Threads, Elsewhere(t), NEW i \in Items,
           items' = [items EXCEPT ![i] = NoHandle], UNCHANGED <<registry, handles>>,
           call'[t].hand = items[i].handle, ~call'[t].keep, call'[t].op # "truncate",
           ~Owning(call[t]), call'[t].taken = call[t].taken,
           call[t].step # "register", call'[t].step # "register"
    PROVE  Ownership'
<1> USE DEF At, Does, Elsewhere
<1>1. /\ \A u \in Threads : call[u].step = "register" => call[u].hand \in Handles
      /\ \A u \in Threads : u # t => call'[u] = call[u]
      /\ Stopper \in Threads
      /\ call'[Stopper].taken = call[Stopper].taken
  BY CallFacts, HandlesAre DEF HandAt, Threads
<1>2. \A j \in Items : items'[j].handle = IF j = i THEN 0 ELSE items[j].handle
  BY DEF Calls, TypeOK, NoHandle
<1>3. \A h \in Handles : /\ ~Owns(t, h) /\ h # 0
                         /\ Owns(t, h)' <=> h = items[i].handle
                         /\ \A u \in Threads : u # t => (Owns(u, h)' <=> Owns(u, h))
  BY DEF Owns, Owning, Handles
<1>4. Registered'
  BY <1>1 DEF Ownership, Registered, Open
<1>5. Held'
  BY <1>1, <1>2, <1>3 DEF Ownership, Held, Open
<1>6. Unshared'
  BY <1>2, <1>3 DEF Ownership, Unshared
<1> QED
  BY <1>4, <1>5, <1>6 DEF Ownership

(* The calls begin without a handle.                                       *)
LEMMA BeginOwnership ==
    ASSUME Calls, Ownership, NEW t \in Threads, NEW c, At(t, "idle"),
           call' = [call EXCEPT ![t] = c], UNCHANGED <<Bridge, Extension>>,
           c.hand = 0, c.taken = {}, c.step # "register"
    PROVE  Ownership'
<1>1. call[t] = Idle /\ call'[t] = c /\ Elsewhere(t)
  BY CallFacts DEF OperationAt, At, TypeOK, Elsewhere
<1>2. ~Owning(call[t]) /\ ~Owning(call'[t]) /\ call[t].taken = {} /\ call[t].step = "idle"
  BY <1>1, IdleFine DEF Owning
<1> QED
  BY <1>1, <1>2, PoorOwnership DEF Bridge, Extension

(* A new handle is the call's, which is about to register it.              *)
LEMMA OpenFileOwnership ==
    ASSUME Calls, Ownership, NEW t \in Threads, OpenFile(t)
    PROVE  Ownership'
<1> USE DEF At, Does
<1>1. /\ UNCHANGED <<registry, items>> /\ call[t].step = "open"
      /\ call[t].hand = 0 /\ call[t].taken = {} /\ ~Owning(call[t])
      /\ call[t].op # "truncate" /\ ~call[t].keep
  BY CallFacts DEF OpenFile, HandAt, OperationAt, Owning
<1>2. CASE Ends(t) /\ UNCHANGED <<current, handles>>
  BY <1>1, <1>2, ReplyOwnership DEF Ends
<1>3. CASE ~(Ends(t) /\ UNCHANGED <<current, handles>>)
  <2>1. PICK writable \in BOOLEAN :
           /\ handles' = [handles EXCEPT ![Fresh] = [open |-> TRUE,
                 writable |-> writable, dirty |-> FALSE, latest |-> stored]]
           /\ Unused # {} /\ Takes(t, "register", Fresh)
    BY <1>3 DEF OpenFile
  <2>2. /\ Fresh \in Handles /\ ~Open(Fresh) /\ Fresh \in Numbers
        /\ \A i \in Items : items[i].handle # Fresh
        /\ \A u \in Threads : call[u].hand # Fresh
        /\ "register" \in Steps
    BY <2>1, FreshUnused, HandlesAre DEF Steps
  <2>3. Elsewhere(t) /\ Moved(t, "register", Fresh)
    BY <2>1, <2>2, TakesIs DEF Calls
  <2>4. /\ \A h \in Handles : Open(h)' <=> (Open(h) \/ h = Fresh)
        /\ \A u \in Threads : u # t => call'[u] = call[u]
        /\ Stopper \in Threads /\ call'[Stopper].taken = call[Stopper].taken
        /\ \A u \in Threads : call'[u].taken = call[u].taken
    BY <2>1, <2>2, <2>3 DEF Open, Calls, TypeOK, Elsewhere, Moved, Threads
  <2>5. /\ \A h \in Handles : /\ Owns(t, h)' <=> h = Fresh
                              /\ ~Owns(t, h)
                              /\ \A u \in Threads : u # t => (Owns(u, h)' <=> Owns(u, h))
        /\ \A u \in Threads : ~Owns(u, Fresh)
        /\ call'[t].hand = Fresh /\ call'[t].step = "register"
    BY <1>1, <2>2, <2>3, <2>4 DEF Owns, Moved, Owning, Handles
  <2>6. Fresh \notin registry \cup call[Stopper].taken
    BY <2>2, <2>4 DEF Ownership, Registered
  <2>7. Registered'
    <3>1. \A u \in Threads : /\ call[u].step = "register" => call[u].hand \in Handles
                             /\ call[u].taken \in SUBSET Handles
      BY CallFacts, HandlesAre DEF HandAt, Call
    <3>2. registry \in SUBSET Handles
      BY DEF Calls, TypeOK
    <3> QED
      BY <1>1, <2>2, <2>4, <2>5, <2>6, <3>1, <3>2 DEF Ownership, Registered
  <2>8. Held'
    <3> SUFFICES ASSUME NEW h \in Handles, Open(h)'
                 PROVE  \/ /\ h \in registry
                           /\ \/ \E i \in Items : items[i].handle = h
                              \/ \E u \in Threads : Owns(u, h)'
                        \/ h \in call'[Stopper].taken
                        \/ \E u \in Threads : call'[u].hand = h /\ call'[u].step = "register"
      BY <1>1 DEF Held
    <3>1. CASE h = Fresh
      BY <2>5, <3>1
    <3>2. CASE h # Fresh
      BY <1>1, <2>4, <2>5, <3>2 DEF Ownership, Held
    <3> QED
      BY <3>1, <3>2
  <2>9. Unshared'
    BY <1>1, <2>2, <2>5 DEF Ownership, Unshared
  <2> QED
    BY <2>7, <2>8, <2>9 DEF Ownership
<1> QED
  BY <1>2, <1>3

(* An open leaves its handle to the item, the other calls keep theirs.     *)
LEMMA RegisterOwnership ==
    ASSUME Calls, Ownership, NEW t \in Threads, RegisterBridgeHandle(t)
    PROVE  Ownership'
<1> USE DEF At, Does
<1> DEFINE a == call[t].hand
<1>1. /\ UNCHANGED handles /\ registry' = registry \cup {a} /\ call[t].step = "register"
      /\ a \in Handles /\ ~call[t].keep /\ call[t].op # "truncate" /\ call[t].taken = {}
  BY CallFacts, HandlesAre DEF RegisterBridgeHandle, HandAt, OperationAt
<1>2. Owns(t, a) /\ a # 0
  BY <1>1 DEF Owns, Handles
<1>3. Open(a) /\ a \notin call[Stopper].taken /\ a \notin registry /\ Stopper \in Threads
  BY <1>1 DEF Ownership, Registered, Threads
<1>4. ASSUME NEW u \in Threads, u # t, call[u].step = "register"
      PROVE  call[u].hand # a /\ call[u].hand \in Handles
  <2>1. ~call[u].keep /\ call[u].op # "truncate" /\ call[u].hand \in Handles
    BY <1>4, CallFacts, HandlesAre DEF HandAt, OperationAt
  <2>2. Owns(u, call[u].hand)
    BY <2>1 DEF Owns
  <2> QED
    BY <1>2, <1>4, <2>1, <2>2 DEF Ownership, Unshared
<1>5. ASSUME Elsewhere(t), call'[t].step # "register", call'[t].taken = {}
      PROVE  Registered'
  <2>1. /\ \A u \in Threads : u # t => call'[u] = call[u]
        /\ call'[Stopper].taken = call[Stopper].taken
        /\ \A u \in Threads : call'[u].taken = call[u].taken
    BY <1>1, <1>3, <1>5 DEF Elsewhere
  <2>2. \A u \in Threads : call[u].taken # {} => u = Stopper
    BY TakenByStopper
  <2> QED
    BY <1>1, <1>3, <1>4, <1>5, <2>1, <2>2 DEF Ownership, Registered, Open
<1>6. CASE Does(t, {"open"})
  <2> DEFINE i == call[t].item
  <2>1. /\ items' = [items EXCEPT ![i] = [handle |-> a, modes |-> call[t].modes]]
        /\ Replies(t)
    BY <1>6 DEF RegisterBridgeHandle, Ends
  <2>2. i \in Items /\ items[i].handle = 0
    BY <1>1, <1>6, CallFacts DEF Knows, ReplacesHandle, NoHandle
  <2>3. \A j \in Items : items'[j].handle = IF j = i THEN a ELSE items[j].handle
    BY <2>1, <2>2 DEF Calls, TypeOK
  <2>4. /\ Elsewhere(t) /\ call'[t].step = "idle" /\ call'[t].taken = {}
        /\ call'[t].hand = 0
    BY <2>1, RepliesIs, IdleFine DEF Calls
  <2>5. \A h \in Handles : /\ ~Owns(t, h)' /\ (Owns(t, h) <=> h = a)
                           /\ \A u \in Threads : u # t => (Owns(u, h)' <=> Owns(u, h))
    BY <1>1, <2>4 DEF Owns, Elsewhere, Handles
  <2>6. Held'
    <3> SUFFICES ASSUME NEW h \in Handles, Open(h)
                 PROVE  \/ /\ h \in registry'
                           /\ \/ \E j \in Items : items'[j].handle = h
                              \/ \E u \in Threads : Owns(u, h)'
                        \/ h \in call'[Stopper].taken
                        \/ \E u \in Threads : call'[u].hand = h /\ call'[u].step = "register"
      BY <1>1 DEF Held, Open
    <3>1. CASE h = a
      BY <1>1, <2>2, <2>3, <3>1
    <3>2. CASE h # a
      BY <1>1, <1>3, <2>2, <2>3, <2>4, <2>5, <3>2 DEF Ownership, Held, Elsewhere, Handles
    <3> QED
      BY <3>1, <3>2
  <2>7. Unshared'
    BY <1>2, <2>2, <2>3, <2>5 DEF Ownership, Unshared
  <2> QED
    BY <1>5, <2>4, <2>6, <2>7 DEF Ownership
<1>7. CASE ~Does(t, {"open"})
  <2>1. PICK s \in {"cache", "use"} : Goes(t, s) /\ UNCHANGED items
    BY <1>7 DEF RegisterBridgeHandle, Extension
  <2>2. Elsewhere(t) /\ Moved(t, s, a)
    BY <2>1, GoesIs DEF Calls, Steps
  <2>3. \A h \in Handles : \A u \in Threads : Owns(u, h)' <=> Owns(u, h)
    BY <2>2 DEF Owns, Elsewhere, Moved
  <2>4. Held'
    BY <1>1, <1>2, <1>3, <2>1, <2>2, <2>3 DEF Ownership, Held, Open, Elsewhere, Moved
  <2>5. Unshared'
    BY <2>1, <2>3 DEF Ownership, Unshared
  <2> QED
    BY <1>1, <1>5, <2>1, <2>2, <2>4, <2>5 DEF Ownership, Moved
<1> QED
  BY <1>6, <1>7

(* A call that goes on without its handle.                                 *)
LEMMA ContinuesIs ==
    ASSUME Calls, NEW t \in Threads, Continues(t), call[t].taken = {}
    PROVE  /\ Elsewhere(t) /\ call'[t].hand = 0 /\ call'[t].taken = {}
           /\ call'[t].step \in {"find", "forget", "each", "idle"}
<1>1. CASE Does(t, {"open", "reclaim", "shutdown"})
  <2>1. PICK s \in {"find", "forget", "each"} : Takes(t, s, 0)
    BY <1>1 DEF Continues
  <2>2. s \in Steps /\ 0 \in Numbers
    BY HandlesAre DEF Steps
  <2> QED
    BY <2>1, <2>2, TakesIs DEF Calls, Moved
<1>2. CASE ~Does(t, {"open", "reclaim", "shutdown"})
  BY <1>2, RepliesIs, IdleFine DEF Calls, Continues, Ends
<1> QED
  BY <1>1, <1>2

(* A call closes the handle it owns; nobody else had it.                   *)
LEMMA CloseHandleOwnership ==
    ASSUME Calls, Ownership, NEW t \in Threads, CloseHandle(t)
    PROVE  Ownership'
<1> USE DEF At, Does
<1> DEFINE a == call[t].hand
<1>1. /\ UNCHANGED items /\ Continues(t) /\ call[t].step = "drop"
      /\ ~call[t].keep /\ call[t].taken = {} /\ call[t].op # "truncate"
  BY CallFacts DEF CloseHandle, HandAt, OperationAt
<1>2. /\ Elsewhere(t) /\ call'[t].hand = 0 /\ call'[t].taken = {}
      /\ call'[t].step # "register"
  BY <1>1, ContinuesIs
<1>3. /\ \A u \in Threads : u # t => call'[u] = call[u]
      /\ Stopper \in Threads /\ call'[Stopper].taken = call[Stopper].taken
      /\ \A u \in Threads : call'[u].taken = call[u].taken
  BY <1>1, <1>2 DEF Elsewhere, Threads
<1>4. \A h \in Handles : /\ ~Owns(t, h)' /\ (Owns(t, h) <=> h = a)
                         /\ \A u \in Threads : u # t => (Owns(u, h)' <=> Owns(u, h))
  BY <1>1, <1>2, <1>3 DEF Owns, Handles
<1>5. Unshared'
  BY <1>1, <1>4 DEF Ownership, Unshared
<1>6. \A u \in Threads : /\ call[u].step = "register" => call[u].hand \in Handles
                         /\ call[u].taken \in SUBSET Handles
  BY CallFacts, HandlesAre DEF HandAt, Call
<1>7. registry \in SUBSET Handles
  BY DEF Calls, TypeOK
<1>8. CASE a \in registry
  <2>1. registry' = registry \ {a} /\ handles' = Released(a) /\ a \in Handles
    BY <1>7, <1>8 DEF CloseHandle
  <2>2. \A h \in Handles : Open(h)' <=> Open(h) /\ h # a
    BY <2>1 DEF Calls, TypeOK, Released, Closed, Open
  <2>3. Registered'
    BY <1>2, <1>3, <1>6, <1>7, <1>8, <2>1, <2>2 DEF Ownership, Registered
  <2>4. Held'
    BY <1>1, <1>2, <1>3, <1>4, <2>1, <2>2 DEF Ownership, Held
  <2> QED
    BY <1>5, <2>3, <2>4 DEF Ownership
<1>9. CASE a \notin registry
  <2>1. UNCHANGED <<registry, handles>>
    BY <1>9 DEF CloseHandle
  <2>2. Registered'
    BY <1>2, <1>3, <2>1 DEF Ownership, Registered, Open
  <2>3. Held'
    BY <1>1, <1>2, <1>3, <1>4, <1>9, <2>1 DEF Ownership, Held, Open
  <2> QED
    BY <1>5, <2>2, <2>3 DEF Ownership
<1> QED
  BY <1>8, <1>9

(* A create leaves its handle to the item and closes the one it had.       *)
LEMMA AdoptOwnership ==
    ASSUME Calls, Ownership, NEW t \in Threads, Adopt(t)
    PROVE  Ownership'
<1> USE DEF At, Does
<1> DEFINE a == call[t].hand
           i == call[t].item
           b == items[i].handle
<1>1. /\ UNCHANGED <<registry, handles>> /\ call[t].step = "adopt"
      /\ items' = [items EXCEPT ![i] = [handle |-> a, modes |-> Modes]]
      /\ a \in Handles /\ i \in Items /\ b \in Numbers
      /\ ~call[t].keep /\ call[t].taken = {} /\ call[t].op = "create"
  BY CallFacts, HandlesAre DEF Adopt, HandAt, OperationAt, Bridge
<1>2. \A j \in Items : items'[j].handle = IF j = i THEN a ELSE items[j].handle
  BY <1>1 DEF Calls, TypeOK
<1>3. /\ Elsewhere(t) /\ call'[t].step # "register" /\ call'[t].taken = {}
      /\ call'[t].hand = b /\ (b # 0 => ~call'[t].keep /\ call'[t].op # "truncate")
  <2>1. CASE b # 0
    <3>1. Takes(t, "drop", b) /\ "drop" \in Steps
      BY <2>1 DEF Adopt, Steps
    <3> HIDE DEF b
    <3> QED
      BY <1>1, <3>1, TakesIs DEF Calls, Moved
  <2>2. CASE b = 0
    <3>1. Replies(t)
      BY <2>2 DEF Adopt
    <3> QED
      BY <2>2, <3>1, RepliesIs, IdleFine DEF Calls
  <2> QED
    BY <2>1, <2>2
<1>4. \A h \in Handles : /\ h # 0 /\ (Owns(t, h) <=> h = a) /\ (Owns(t, h)' <=> h = b)
                         /\ \A u \in Threads : u # t => (Owns(u, h)' <=> Owns(u, h))
  BY <1>1, <1>3 DEF Owns, Elsewhere, Handles
<1>5. /\ \A u \in Threads : u # t => call'[u] = call[u]
      /\ Stopper \in Threads /\ call'[Stopper].taken = call[Stopper].taken
      /\ \A u \in Threads : call'[u].taken = call[u].taken
  BY <1>1, <1>3 DEF Elsewhere, Threads
<1>6. Registered'
  BY <1>1, <1>3, <1>5 DEF Ownership, Registered, Open
<1>7. Held'
  <2> SUFFICES ASSUME NEW h \in Handles, Open(h)
               PROVE  \/ /\ h \in registry
                         /\ \/ \E j \in Items : items'[j].handle = h
                            \/ \E u \in Threads : Owns(u, h)'
                      \/ h \in call'[Stopper].taken
                      \/ \E u \in Threads : call'[u].hand = h /\ call'[u].step = "register"
    BY <1>1 DEF Held, Open
  <2>1. CASE h \in registry
    <3>1. CASE h = a
      BY <1>1, <1>2, <2>1, <3>1
    <3>2. CASE h = b
      BY <1>4, <2>1, <3>2
    <3>3. CASE h # a /\ h # b /\ h \in registry
      <4>1. \/ \E j \in Items : items[j].handle = h
            \/ \E u \in Threads : Owns(u, h)
            \/ h \in call[Stopper].taken
            \/ \E u \in Threads : call[u].hand = h /\ call[u].step = "register"
        BY DEF Ownership, Held
      <4> QED
        BY <1>1, <1>2, <1>4, <1>5, <2>1, <3>3, <4>1
    <3> QED
      BY <2>1, <3>1, <3>2, <3>3
  <2>2. CASE h \notin registry
    BY <1>1, <1>5, <2>2 DEF Ownership, Held
  <2> QED
    BY <2>1, <2>2
<1>8. Unshared'
  BY <1>1, <1>2, <1>4 DEF Ownership, Unshared
<1> QED
  BY <1>6, <1>7, <1>8 DEF Ownership

(* The end of the file system takes every handle out of the registry and   *)
(* closes what it took.                                                    *)
LEMMA SweepOwnership ==
    ASSUME Calls, Ownership, NEW t \in Threads, CloseFileSystem(t) \/ Sweep(t)
    PROVE  Ownership'
<1> USE DEF At, Does
<1>1. /\ UNCHANGED items /\ t = Stopper /\ call[t].hand = 0
      /\ call \in [Threads -> Call] /\ call[t].step \in {"unregister", "sweep"}
  BY CallFacts DEF CloseFileSystem, Sweep, HandAt, OperationAt, Knows, Extension, TypeOK
<1>2. \A u \in Threads : /\ call[u].step = "register" => call[u].hand \in Handles
                         /\ call[u].taken \in SUBSET Handles
                         /\ call[u].taken # {} => u = Stopper /\ call[u].step = "sweep"
  BY CallFacts, HandlesAre, TakenByStopper DEF HandAt, Call
<1>3. registry \in SUBSET Handles
  BY DEF Calls, TypeOK
<1>4. CASE CloseFileSystem(t)
  <2>1. /\ UNCHANGED handles /\ registry' = {}
        /\ call' = [call EXCEPT ![t].step = "sweep", ![t].taken = registry]
        /\ call[t].step = "unregister"
    BY <1>4 DEF CloseFileSystem
  <2>2. /\ Elsewhere(t) /\ call'[t].taken = registry /\ call'[t].step = "sweep"
        /\ call'[t].hand = 0
    BY <1>1, <1>3, <2>1 DEF Call, Elsewhere
  <2>3. \A h \in Handles : /\ ~Owns(t, h)' /\ ~Owns(t, h)
                           /\ \A u \in Threads : u # t => (Owns(u, h)' <=> Owns(u, h))
    BY <1>1, <2>2 DEF Owns, Elsewhere, Handles
  <2>4. Registered'
    BY <1>1, <1>2, <2>1, <2>2 DEF Ownership, Registered, Open, Elsewhere
  <2>5. Held'
    BY <1>1, <1>2, <2>1, <2>2 DEF Ownership, Held, Open, Elsewhere
  <2>6. Unshared'
    BY <1>1, <2>3 DEF Ownership, Unshared
  <2> QED
    BY <2>4, <2>5, <2>6 DEF Ownership
<1>5. CASE Sweep(t) /\ Replies(t) /\ UNCHANGED <<stored, handles>> /\ call[t].taken = {}
  BY <1>1, <1>5, ReplyOwnership DEF Sweep, Owning
<1>6. CASE Sweep(t) /\ ~(Replies(t) /\ UNCHANGED <<stored, handles>> /\ call[t].taken = {})
  <2>1. PICK a \in call[t].taken :
           handles' = Released(a) /\ call' = [call EXCEPT ![t].taken = @ \ {a}]
    BY <1>6 DEF Sweep
  <2>2. /\ UNCHANGED registry /\ call[t].step = "sweep" /\ a \in Handles
    BY <1>2, <1>6 DEF Sweep
  <2>3. /\ Elsewhere(t) /\ call'[t].taken = call[t].taken \ {a} /\ call'[t].step = "sweep"
        /\ call'[t].hand = 0
    BY <1>1, <2>1, <2>2 DEF Call, Elsewhere
  <2>4. \A h \in Handles : /\ ~Owns(t, h)' /\ ~Owns(t, h)
                           /\ \A u \in Threads : u # t => (Owns(u, h)' <=> Owns(u, h))
    BY <1>1, <2>3 DEF Owns, Elsewhere, Handles
  <2>5. \A h \in Handles : Open(h)' <=> Open(h) /\ h # a
    BY <2>1, <2>2 DEF Calls, TypeOK, Released, Closed, Open
  <2>6. a \notin registry /\ \A u \in Threads : call[u].step = "register" => call[u].hand # a
    BY <1>1, <2>1 DEF Ownership, Registered
  <2>7. Registered'
    BY <1>1, <1>2, <1>3, <2>2, <2>3, <2>5, <2>6 DEF Ownership, Registered, Elsewhere
  <2>8. Held'
    BY <1>1, <2>2, <2>3, <2>4, <2>5 DEF Ownership, Held, Elsewhere
  <2>9. Unshared'
    BY <1>1, <2>4 DEF Ownership, Unshared
  <2> QED
    BY <2>7, <2>8, <2>9 DEF Ownership
<1> QED
  BY <1>4, <1>5, <1>6

(* An item gives its handle to the call that will close it.                *)
LEMMA GiveUpOwnership ==
    ASSUME Calls, Ownership, NEW t \in Threads,
           OpenAnew(t) \/ CloseKeeping(t) \/ CloseEach(t)
    PROVE  Ownership'
<1> USE DEF At, Does
<1>1. /\ UNCHANGED <<registry, handles>> /\ call[t].step \in {"lock", "each"}
      /\ call[t].op \notin {"truncate"}
  BY CallFacts DEF OpenAnew, CloseKeeping, CloseEach, Bridge, OperationAt
<1>2. ~Owning(call[t]) /\ ~call[t].keep /\ call[t].taken = {} /\ call[t].hand = 0
  BY <1>1, CallFacts DEF HandAt, OperationAt, Owning
<1>3. items \in [Items -> ItemState] /\ call[t].item \in Items
  BY CallFacts DEF TypeOK
<1>4. ASSUME NEW s \in Steps, NEW i \in Items, Takes(t, s, items[i].handle),
             items' = [items EXCEPT ![i] = NoHandle], s # "register"
      PROVE  Ownership'
  <2>1. items[i].handle \in Numbers
    BY <1>3 DEF ItemState
  <2>2. Elsewhere(t) /\ Moved(t, s, items[i].handle)
    BY <1>4, <2>1, TakesIs DEF Calls
  <2> QED
    BY <1>1, <1>2, <1>4, <2>2, TakeOwnership DEF Moved
<1>5. CASE OpenAnew(t)
  <2>1. PICK s \in {"drop", "find"} : Takes(t, s, items[call[t].item].handle)
    BY <1>5 DEF OpenAnew
  <2>2. items' = [items EXCEPT ![call[t].item] = NoHandle] /\ s \in Steps
    BY <1>5 DEF OpenAnew, Steps
  <2> QED
    BY <1>3, <1>4, <2>1, <2>2
<1>6. CASE CloseKeeping(t)
  <2>1. CASE call[t].modes # {}
    <3>1. items' = [items EXCEPT ![call[t].item].modes = call[t].modes] /\ Replies(t)
      BY <1>6, <2>1 DEF CloseKeeping, Ends
    <3>2. \A i \in Items : items'[i].handle = items[i].handle
      BY <1>3, <3>1 DEF ItemState
    <3> QED
      BY <1>1, <1>2, <3>1, <3>2, ReplyOwnership
  <2>2. CASE call[t].modes = {} /\ items[call[t].item].handle # 0
    <3>1. /\ items' = [items EXCEPT ![call[t].item] = NoHandle] /\ "flush" \in Steps
          /\ Takes(t, "flush", items[call[t].item].handle)
      BY <1>6, <2>2 DEF CloseKeeping, Steps
    <3> QED
      BY <1>3, <1>4, <3>1
  <2>3. CASE call[t].modes = {} /\ items[call[t].item].handle = 0
    <3>1. items' = [items EXCEPT ![call[t].item] = NoHandle] /\ Continues(t)
      BY <1>6, <2>3 DEF CloseKeeping
    <3>2. \A i \in Items : items'[i].handle = items[i].handle
      BY <1>3, <2>3, <3>1 DEF NoHandle
    <3> QED
      BY <1>1, <1>2, <3>1, <3>2, ContinuesIs, PoorOwnership DEF Owning
  <2> QED
    BY <2>1, <2>2, <2>3
<1>7. CASE CloseEach(t) /\ Goes(t, "unregister") /\ UNCHANGED items
  BY <1>1, <1>7, GoOnOwnership DEF Steps
<1>8. CASE CloseEach(t) /\ ~(Goes(t, "unregister") /\ UNCHANGED items)
  <2>1. PICK i \in call[t].todo :
           /\ items' = [items EXCEPT ![i] = NoHandle]
           /\ call' = [call EXCEPT ![t].todo = @ \ {i}, ![t].hand = items[i].handle,
                 ![t].step = IF items[i].handle # 0 THEN "flush" ELSE "each"]
    BY <1>8 DEF CloseEach
  <2>2. i \in Items /\ call \in [Threads -> Call]
    BY CallFacts DEF Call, TypeOK
  <2>3. /\ Elsewhere(t) /\ call'[t].op = call[t].op
        /\ call'[t].hand = items[i].handle /\ call'[t].keep = call[t].keep
        /\ call'[t].taken = call[t].taken /\ call'[t].step \in {"flush", "each"}
    BY <2>1, <2>2 DEF Call, Elsewhere
  <2> QED
    BY <1>1, <1>2, <2>1, <2>2, <2>3, TakeOwnership
<1> QED
  BY <1>5, <1>6, <1>7, <1>8

(* The other steps of the extension and the bridge move no handle.         *)
LEMMA UseOwnership ==
    ASSUME Calls, Ownership, NEW t \in Threads,
           \/ FindFileSystem(t) \/ OpenShared(t) \/ WithHandle(t) \/ Peek(t)
           \/ UseHandle(t) \/ Act(t) \/ Resize(t) \/ FlushHandle(t)
    PROVE  Ownership'
<1> USE DEF At, Does
<1>1. UNCHANGED registry
  BY DEF FindFileSystem, OpenShared, WithHandle, Peek, UseHandle, Act, Resize,
     FlushHandle, Bridge
<1>2. call[t].step \in {"find", "lock", "peek", "use", "act", "resize", "flush"}
  BY DEF FindFileSystem, OpenShared, WithHandle, Peek, UseHandle, Act, Resize, FlushHandle
<1>3. call[t].taken = {} /\ call \in [Threads -> Call]
  BY <1>2, CallFacts DEF HandAt, TypeOK
<1>4. \A i \in Items : items'[i].handle = items[i].handle
  <2>1. CASE OpenShared(t)
    BY <2>1, CallFacts DEF OpenShared, TypeOK, ItemState
  <2>2. CASE ~OpenShared(t)
    BY <2>2 DEF FindFileSystem, WithHandle, Peek, UseHandle, Act, Resize, FlushHandle,
       Extension
  <2> QED
    BY <2>1, <2>2
<1>5. \A h \in Handles : handles'[h].open = handles[h].open
  <2>1. handles \in [Handles -> OpenFiles]
    BY DEF Calls, TypeOK
  <2>2. CASE Act(t)
    <3>1. \/ UNCHANGED handles
          \/ handles' = [h \in Handles |-> IF h = call[t].hand
                THEN [handles[h] EXCEPT !.dirty = TRUE, !.latest = TRUE]
                ELSE [handles[h] EXCEPT !.latest = FALSE]]
      BY <2>2 DEF Act
    <3> QED
      BY <2>1, <3>1 DEF OpenFiles
  <2>3. CASE Resize(t)
    BY <2>1, <2>3 DEF Resize, OpenFiles
  <2>4. CASE FlushHandle(t)
    <3>1. UNCHANGED handles \/ handles' = [handles EXCEPT ![call[t].hand].dirty = FALSE]
      BY <2>4 DEF FlushHandle
    <3> QED
      BY <2>1, <3>1 DEF OpenFiles
  <2>5. CASE ~Act(t) /\ ~Resize(t) /\ ~FlushHandle(t)
    BY <2>5 DEF FindFileSystem, OpenShared, WithHandle, Peek, UseHandle, Bridge
  <2> QED
    BY <2>2, <2>3, <2>4, <2>5
<1>6. CASE Replies(t)
  <2>1. ~Owning(call[t])
    <3>1. CASE call[t].step \in {"find", "lock", "peek", "resize"}
      BY <3>1, CallFacts DEF HandAt, OperationAt, Owning
    <3>2. CASE call[t].step \in {"use", "act", "flush"}
      <4>1. call'[t] = Idle /\ Idle.step = "idle"
        BY <1>6, RepliesIs, IdleFine DEF Calls
      <4>2. call'[t].step # "drop" /\ call'[t].step # "act"
        BY <4>1
      <4>3. ASSUME NEW s \in {"drop", "act"}
            PROVE  ~Goes(t, s)
        BY <1>3, <4>2 DEF Goes, Call
      <4> QED
        BY <3>2, <4>3 DEF Owning, FindFileSystem, OpenShared, WithHandle, Peek,
           UseHandle, Act, Resize, FlushHandle
    <3> QED
      BY <1>2, <3>1, <3>2
  <2> QED
    BY <1>1, <1>2, <1>3, <1>4, <1>5, <1>6, <2>1, ReplyOwnership
<1>7. CASE \E s \in Steps \ {"register"} : Goes(t, s)
  BY <1>1, <1>2, <1>4, <1>5, <1>7, GoOnOwnership
<1>8. CASE WithHandle(t)
  <2> DEFINE h == items[call[t].item].handle
             s == IF h # 0 THEN "use" ELSE "find"
             k == h # 0
  <2>1. call' = [call EXCEPT ![t].step = s, ![t].hand = h, ![t].keep = k]
    BY <1>8 DEF WithHandle
  <2>2. /\ Elsewhere(t) /\ call'[t].step = s /\ call'[t].hand = h /\ call'[t].keep = k
        /\ call'[t].taken = call[t].taken
    <3> HIDE DEF h, s, k
    <3> QED
      BY <1>3, <2>1 DEF Call, Elsewhere
  <2>3. call[t].step = "lock" /\ ~Owning(call[t]) /\ ~Owning(call'[t])
    BY <1>8, <2>2, CallFacts DEF WithHandle, HandAt, OperationAt, Owning
  <2> QED
    BY <1>1, <1>4, <1>5, <2>2, <2>3, PoorOwnership
<1>9. CASE Peek(t)
  <2>1. Takes(t, "find", items[call[t].item].handle) /\ "find" \in Steps
    BY <1>9 DEF Peek, Steps
  <2>2. Elsewhere(t) /\ Moved(t, "find", items[call[t].item].handle)
    BY <2>1, CallFacts, TakesIs
  <2>3. call[t].step = "peek" /\ call[t].op = "truncate"
    BY <1>9, CallFacts DEF Peek, OperationAt
  <2> QED
    BY <1>1, <1>4, <1>5, <2>2, <2>3, PoorOwnership DEF Moved, Owning
<1>10. ASSUME ~WithHandle(t), ~Peek(t)
       PROVE  Replies(t) \/ \E s \in Steps \ {"register"} : Goes(t, s)
  <2>1. {"lookup", "resize", "unlink", "open", "act", "drop"} \subseteq Steps \ {"register"}
    BY DEF Steps
  <2>2. \/ Replies(t)
        \/ \E s \in {"lookup", "resize", "unlink", "open", "act", "drop"} : Goes(t, s)
    BY <1>10 DEF FindFileSystem, OpenShared, UseHandle, Act, Resize, FlushHandle, Ends
  <2> QED
    BY <2>1, <2>2
<1> QED
  BY <1>6, <1>7, <1>8, <1>9, <1>10

(* Nor do those of the volume.                                             *)
LEMMA VolumeOwnership ==
    ASSUME Calls, Ownership, NEW t \in Threads,
           \/ Lookup(t) \/ CacheItem(t) \/ Move(t) \/ Unlink(t) \/ Forget(t) \/ Stop(t)
    PROVE  Ownership'
<1> USE DEF At, Does
<1>1. UNCHANGED <<registry, handles, items>>
  BY DEF Lookup, CacheItem, Move, Unlink, Forget, Stop, Bridge, Extension
<1>2. call[t].step \in {"lookup", "cache", "move", "unlink", "forget", "stop"}
  BY DEF Lookup, CacheItem, Move, Unlink, Forget, Stop
<1>3. call[t].taken = {} /\ call \in [Threads -> Call]
  BY <1>2, CallFacts DEF HandAt, TypeOK
<1>4. CASE Replies(t)
  <2>1. ~(CacheItem(t) \/ Move(t)) => ~Owning(call[t])
    BY CallFacts DEF Lookup, Unlink, Forget, Stop, HandAt, OperationAt, Owning
  <2>2. CacheItem(t) \/ Move(t) => ~Owning(call[t])
    <3>1. call'[t] = Idle /\ Idle.step = "idle"
      BY <1>4, RepliesIs, IdleFine DEF Calls
    <3>2. ASSUME NEW s \in {"move", "adopt"}
          PROVE  ~Goes(t, s)
      BY <1>3, <3>1 DEF Goes, Call
    <3> QED
      BY <1>2, <3>2, CallFacts DEF CacheItem, Move, Found, HandAt, OperationAt, Owning
  <2> QED
    BY <1>1, <1>2, <1>3, <1>4, <2>1, <2>2, ReplyOwnership
<1>5. CASE \E s \in Steps \ {"register"} : Goes(t, s)
  BY <1>1, <1>2, <1>5, GoOnOwnership
<1>6. CASE Lookup(t) /\ ~Replies(t)
  <2>1. call' = [call EXCEPT ![t].step = "cache", ![t].item = current]
    BY <1>6 DEF Lookup
  <2>2. /\ Elsewhere(t) /\ call'[t].step = "cache" /\ call'[t].hand = call[t].hand
        /\ call'[t].taken = call[t].taken
    BY <1>3, <2>1 DEF Call, Elsewhere
  <2>3. ~Owning(call[t]) /\ ~Owning(call'[t])
    BY <1>6, <2>2, CallFacts DEF Lookup, HandAt, OperationAt, Owning
  <2> QED
    BY <1>1, <1>2, <2>2, <2>3, PoorOwnership
<1>7. CASE Stop(t)
  <2>1. call' = [call EXCEPT ![t].step = "each", ![t].todo = cache]
    BY <1>7 DEF Stop
  <2>2. /\ Elsewhere(t) /\ call'[t].step = "each" /\ call'[t].hand = call[t].hand
        /\ call'[t].taken = call[t].taken
    BY <1>3, <2>1 DEF Call, Elsewhere
  <2>3. ~Owning(call[t]) /\ ~Owning(call'[t])
    BY <1>7, <2>2, CallFacts DEF Stop, HandAt, OperationAt, Owning
  <2> QED
    BY <1>1, <1>2, <2>2, <2>3, PoorOwnership
<1>8. ASSUME ~Lookup(t), ~Stop(t)
      PROVE  Replies(t) \/ \E s \in Steps \ {"register"} : Goes(t, s)
  <2>1. {"move", "adopt", "forget"} \subseteq Steps \ {"register"}
    BY DEF Steps
  <2>2. Replies(t) \/ \E s \in {"move", "adopt", "forget"} : Goes(t, s)
    BY <1>8 DEF CacheItem, Move, Found, Unlink, Forget
  <2> QED
    BY <2>1, <2>2
<1> QED
  BY <1>4, <1>5, <1>6, <1>7, <1>8

(* No step strands a handle, or gives one to two.                          *)
LEMMA StepOwnership ==
    ASSUME Calls, Ownership, NEW t \in Threads, Step(t)
    PROVE  Ownership'
  BY OpenFileOwnership, RegisterOwnership, CloseHandleOwnership, AdoptOwnership,
     SweepOwnership, GiveUpOwnership, UseOwnership, VolumeOwnership
  DEF Step

-----------------------------------------------------------------------------
(* The handles of writers.                                                 *)

Promises(c) == Creates(c) \/ OpensToWrite(c)

(* A step that changes no item, and no handle in what matters.             *)
LEMMA QuietWriters ==
    ASSUME Calls, Writers, NEW t \in Threads, Elsewhere(t),
           UNCHANGED <<items, opened, stopped>>,
           \A h \in Handles : /\ handles'[h].open = handles[h].open
                              /\ handles'[h].writable = handles[h].writable,
           Promises(call'[t]) => Promises(call[t]) /\ call'[t].hand = call[t].hand
    PROVE  Writers'
<1>1. \A h \in Numbers : CanWrite(h)' <=> CanWrite(h)
  BY HandlesAre DEF CanWrite, Open
<1>2. /\ \A i \in Items : items[i].handle \in Numbers
      /\ \A u \in Threads : call[u].hand \in Numbers
  BY CallFacts DEF Calls, TypeOK, ItemState
<1>3. \A u \in Threads : Promises(call'[u]) =>
         Promises(call[u]) /\ call'[u].hand = call[u].hand
  BY DEF Elsewhere
<1> QED
  BY <1>1, <1>2, <1>3 DEF Writers, Promises

(* Once the volume stops nothing is promised.                              *)
LEMMA StoppedWriters == ASSUME stopped' PROVE Writers'
  BY DEF Writers

(* A call at its beginning has promised nothing.                           *)
LEMMA BeginWriters ==
    ASSUME Calls, Writers, NEW t \in Threads, NEW c, call' = [call EXCEPT ![t] = c],
           UNCHANGED <<Bridge, Volume, Extension, Kernel>>,
           c.step \notin {"register", "cache", "move", "adopt"}
    PROVE  Writers'
<1>1. call'[t] = c /\ Elsewhere(t)
  BY DEF Calls, TypeOK, Elsewhere
<1>2. ~Promises(call'[t])
  BY <1>1 DEF Promises, Creates, OpensToWrite
<1> QED
  BY <1>1, <1>2, QuietWriters DEF Bridge, Volume, Extension, Kernel

(* A call that returns has nothing more to do.                             *)
LEMMA ReplyPromises ==
    ASSUME Calls, NEW t \in Threads, Replies(t)
    PROVE  Elsewhere(t) /\ ~Promises(call'[t])
  BY RepliesIs, IdleFine DEF Calls, Promises, Creates, OpensToWrite

(* A new handle is what its opener asked for.                              *)
LEMMA OpenFileWriters ==
    ASSUME Calls, Writers, NEW t \in Threads, OpenFile(t)
    PROVE  Writers'
<1> USE DEF At, Does
<1>1. UNCHANGED <<items, opened, stopped>>
  BY DEF OpenFile, Volume, Kernel
<1>2. CASE Ends(t) /\ UNCHANGED <<current, handles>>
  BY <1>1, <1>2, ReplyPromises, QuietWriters DEF Ends
<1>3. CASE ~(Ends(t) /\ UNCHANGED <<current, handles>>)
  <2>1. PICK writable \in BOOLEAN, f \in Handles :
           /\ handles' = [handles EXCEPT ![f] = [open |-> TRUE,
                 writable |-> writable, dirty |-> FALSE, latest |-> stored]]
           /\ Takes(t, "register", f)
           /\ call[t].op = "create" \/ "write" \in call[t].modes => writable
           /\ \A i \in Items : items[i].handle # f
           /\ \A u \in Threads : call[u].hand # f
    <3>1. /\ Unused # {} /\ Takes(t, "register", Fresh)
          /\ \E writable \in BOOLEAN :
                /\ handles' = [handles EXCEPT ![Fresh] = [open |-> TRUE,
                      writable |-> writable, dirty |-> FALSE, latest |-> stored]]
                /\ call[t].op = "create" \/ "write" \in call[t].modes => writable
      BY <1>3 DEF OpenFile
    <3> QED
      BY <3>1, FreshUnused
  <2>2. f \in Numbers /\ f # 0 /\ "register" \in Steps
    BY HandlesAre DEF Steps, Handles
  <2>3. Elsewhere(t) /\ Moved(t, "register", f)
    BY <2>1, <2>2, TakesIs DEF Calls
  <2>4. /\ \A h \in Numbers : h # f => (CanWrite(h)' <=> CanWrite(h))
        /\ writable => CanWrite(f)'
    BY <2>1, <2>2, HandlesAre DEF CanWrite, Open, Calls, TypeOK
  <2>5. Promises(call[t])' => CanWrite(call[t].hand)'
    BY <2>1, <2>3, <2>4 DEF Promises, Creates, OpensToWrite, Moved
  <2>6. ASSUME NEW u \in Threads, u # t, Promises(call[u])', ~stopped
        PROVE  CanWrite(call[u].hand)'
    <3>1. call'[u] = call[u] /\ call[u].hand \in Numbers /\ call[u].hand # f
      BY <2>1, <2>3, <2>6, CallFacts DEF Elsewhere
    <3>2. CanWrite(call[u].hand)
      BY <2>6, <3>1 DEF Writers, Promises, Creates, OpensToWrite
    <3> QED
      BY <2>4, <3>1, <3>2 DEF CanWrite, Open
  <2>7. \A i \in Items : items[i].handle \in Numbers
    BY DEF Calls, TypeOK, ItemState
  <2>8. \A i \in Items : CanWrite(items[i].handle) => CanWrite(items[i].handle)'
    BY <1>1, <2>1, <2>4, <2>7 DEF CanWrite, Open
  <2> QED
    BY <1>1, <2>5, <2>6, <2>8 DEF Writers, Promises
<1> QED
  BY <1>2, <1>3

(* An open that registers its handle keeps what it promised.               *)
LEMMA RegisterWriters ==
    ASSUME Calls, Writers, NEW t \in Threads, RegisterBridgeHandle(t)
    PROVE  Writers'
<1> USE DEF At, Does
<1>1. UNCHANGED <<handles, stopped>> /\ call[t].step = "register"
  BY DEF RegisterBridgeHandle, Volume
<1>2. CASE Does(t, {"open"})
  <2> DEFINE i == call[t].item
  <2>1. /\ items' = [items EXCEPT ![i] = [handle |-> call[t].hand,
                                          modes |-> call[t].modes]]
        /\ opened' = [opened EXCEPT ![i] = @ \cup call[t].modes]
        /\ Replies(t)
    BY <1>2 DEF RegisterBridgeHandle, Ends
  <2>2. i \in Items /\ items[i].modes = {}
    BY <1>1, <1>2, CallFacts DEF Knows, ReplacesHandle, NoHandle
  <2>3. /\ \A j \in Items \ {i} : items'[j] = items[j] /\ opened'[j] = opened[j]
        /\ items'[i].handle = call[t].hand /\ items'[i].modes = call[t].modes
        /\ opened'[i] = opened[i] \cup call[t].modes
    BY <2>1, <2>2 DEF Calls, TypeOK
  <2>4. ~stopped /\ "write" \in call[t].modes => CanWrite(call[t].hand)
    BY <1>1, <1>2 DEF Writers, OpensToWrite
  <2>5. Elsewhere(t) /\ ~Promises(call'[t])
    BY <2>1, ReplyPromises
  <2>6. \A h : CanWrite(h)' <=> CanWrite(h)
    BY <1>1 DEF CanWrite, Open
  <2> QED
    BY <1>1, <2>2, <2>3, <2>4, <2>5, <2>6 DEF Writers, Promises, Elsewhere
<1>3. CASE ~Does(t, {"open"})
  <2>1. PICK s \in {"cache", "use"} : Goes(t, s) /\ UNCHANGED <<items, opened>>
    BY <1>3 DEF RegisterBridgeHandle, Extension
  <2>2. Elsewhere(t) /\ Moved(t, s, call[t].hand)
    BY <2>1, GoesIs DEF Calls, Steps
  <2>3. Promises(call'[t]) => Promises(call[t]) /\ call'[t].hand = call[t].hand
    BY <1>1, <2>1, <2>2 DEF Promises, Creates, OpensToWrite, Moved
  <2> QED
    BY <1>1, <2>1, <2>2, <2>3, QuietWriters
<1> QED
  BY <1>2, <1>3

(* The handle a call closes is nobody else's, so no writer loses it.       *)
LEMMA CloseHandleWriters ==
    ASSUME Calls, Ownership, Writers, NEW t \in Threads, CloseHandle(t)
    PROVE  Writers'
<1> USE DEF At, Does
<1> DEFINE a == call[t].hand
<1>1. /\ UNCHANGED <<items, opened, stopped>> /\ Continues(t) /\ call[t].step = "drop"
      /\ ~call[t].keep /\ call[t].taken = {} /\ call[t].op # "truncate"
  BY CallFacts DEF CloseHandle, HandAt, OperationAt, Volume, Kernel
<1>2. Elsewhere(t) /\ ~Promises(call'[t])
  BY <1>1, ContinuesIs DEF Promises, Creates, OpensToWrite
<1>3. CASE a \in registry
  <2>1. handles' = Released(a) /\ a \in Handles
    BY <1>3 DEF CloseHandle, Calls, TypeOK
  <2>2. \A h \in Numbers : h # a => (CanWrite(h)' <=> CanWrite(h))
    BY <2>1, HandlesAre DEF CanWrite, Open, Released, Calls, TypeOK
  <2>3. Owns(t, a)
    BY <1>1 DEF Owns
  <2>4. \A i \in Items : items[i].handle # a /\ items[i].handle \in Numbers
    BY <2>1, <2>3 DEF Ownership, Unshared, Calls, TypeOK, ItemState
  <2>5. ASSUME NEW u \in Threads, u # t, Promises(call[u])
        PROVE  call[u].hand # a /\ call[u].hand \in Numbers
    <3>1. ~call[u].keep /\ call[u].op # "truncate" /\ call[u].hand \in Numbers
      BY <2>5, CallFacts DEF Promises, Creates, OpensToWrite, HandAt
    <3>2. Owns(u, call[u].hand)
      BY <3>1 DEF Owns
    <3> QED
      BY <2>1, <2>3, <2>5, <3>1, <3>2 DEF Ownership, Unshared
  <2> QED
    BY <1>1, <1>2, <2>2, <2>4, <2>5 DEF Writers, Promises, Elsewhere
<1>4. CASE a \notin registry
  <2>1. UNCHANGED handles
    BY <1>4 DEF CloseHandle
  <2> QED
    BY <1>1, <1>2, <2>1, QuietWriters
<1> QED
  BY <1>3, <1>4

(* A writer shares only the handle of a writer, and an item that has a     *)
(* writer never gives its handle up for another.                           *)
LEMMA ItemWriters ==
    ASSUME Calls, Writers, NEW t \in Threads,
           OpenShared(t) \/ OpenAnew(t) \/ CloseKeeping(t) \/ Adopt(t)
    PROVE  Writers'
<1> USE DEF At, Does
<1> DEFINE i == call[t].item
<1>1. UNCHANGED <<handles, stopped>>
  BY DEF OpenShared, OpenAnew, CloseKeeping, Adopt, Bridge, Volume
<1>2. /\ items \in [Items -> ItemState] /\ opened \in [Items -> SUBSET Modes]
      /\ i \in Items /\ "write" \in Modes
  BY CallFacts DEF TypeOK, Modes
<1>3. \A h : CanWrite(h)' <=> CanWrite(h)
  BY <1>1 DEF CanWrite, Open
<1>4. ASSUME Elsewhere(t), ~Promises(call'[t]),
             \A j \in Items \ {i} : items'[j] = items[j] /\ opened'[j] = opened[j],
             ~stopped /\ "write" \in opened'[i] => "write" \in items'[i].modes,
             ~stopped /\ "write" \in items'[i].modes => CanWrite(items'[i].handle)
      PROVE  Writers'
  BY <1>1, <1>2, <1>3, <1>4 DEF Writers, Promises, Elsewhere
<1>5. CASE OpenShared(t)
  <2>1. /\ items' = [items EXCEPT ![i].modes = @ \cup call[t].modes]
        /\ opened' = [opened EXCEPT ![i] = @ \cup call[t].modes]
        /\ Shares(i, call[t].modes) /\ Replies(t)
    BY <1>5 DEF OpenShared
  <2>2. /\ \A j \in Items \ {i} : items'[j] = items[j] /\ opened'[j] = opened[j]
        /\ items'[i].handle = items[i].handle
        /\ items'[i].modes = items[i].modes \cup call[t].modes
        /\ opened'[i] = opened[i] \cup call[t].modes
    BY <1>2, <2>1 DEF ItemState
  <2> QED
    BY <1>2, <1>4, <2>1, <2>2, ReplyPromises DEF Writers, Shares
<1>6. CASE OpenAnew(t)
  <2>1. /\ items' = [items EXCEPT ![i] = NoHandle] /\ opened' = opened
        /\ ~Shares(i, call[t].modes)
        /\ call[t].step = "lock" /\ call[t].op = "open"
    BY <1>6 DEF OpenAnew, Kernel
  <2>2. PICK s \in {"drop", "find"} : Takes(t, s, items[i].handle)
    BY <1>6 DEF OpenAnew
  <2>3. Elsewhere(t) /\ Moved(t, s, items[i].handle)
    BY <1>2, <2>2, TakesIs DEF Calls, Steps, ItemState
  <2>4. ~Promises(call'[t])
    BY <2>2, <2>3 DEF Promises, Creates, OpensToWrite, Moved
  <2>5. /\ \A j \in Items \ {i} : items'[j] = items[j] /\ opened'[j] = opened[j]
        /\ items'[i].modes = {}
    BY <1>2, <2>1 DEF NoHandle
  <2>6. ~stopped => "write" \notin opened[i]
    BY <1>2, <2>1 DEF Writers, Shares, CanWrite
  <2> QED
    BY <1>4, <2>1, <2>3, <2>4, <2>5, <2>6
<1>7. CASE CloseKeeping(t)
  <2>1. /\ opened' = [opened EXCEPT ![i] = call[t].modes]
        /\ call[t].step = "lock" /\ call[t].op \in {"close", "reclaim"}
        /\ IF call[t].modes # {} THEN items' = [items EXCEPT ![i].modes = call[t].modes]
                                 ELSE items' = [items EXCEPT ![i] = NoHandle]
    BY <1>7 DEF CloseKeeping
  <2>2. i = t /\ call[t].modes \subseteq opened[i]
    BY <2>1, CallFacts DEF Knows, HandAt
  <2>3. /\ \A j \in Items \ {i} : items'[j] = items[j] /\ opened'[j] = opened[j]
        /\ opened'[i] = call[t].modes /\ items'[i].modes = call[t].modes
        /\ call[t].modes # {} => items'[i].handle = items[i].handle
    <3> HIDE DEF i
    <3>1. CASE call[t].modes # {}
      BY <1>2, <2>1, <3>1 DEF ItemState
    <3>2. CASE call[t].modes = {}
      BY <1>2, <2>1, <3>2 DEF NoHandle
    <3> QED
      BY <3>1, <3>2
  <2>4. Elsewhere(t) /\ ~Promises(call'[t])
    <3>1. CASE Replies(t)
      BY <3>1, ReplyPromises
    <3>2. CASE Takes(t, "flush", items[i].handle)
      BY <1>2, <3>2, TakesIs DEF Calls, Steps, ItemState, Moved, Promises, Creates,
         OpensToWrite
    <3>3. CASE Continues(t)
      <4>1. call[t].taken = {}
        BY <2>1, CallFacts DEF HandAt
      <4> QED
        BY <3>3, <4>1, ContinuesIs DEF Promises, Creates, OpensToWrite
    <3> QED
      BY <1>7, <3>1, <3>2, <3>3 DEF CloseKeeping, Ends
  <2> QED
    BY <1>2, <1>4, <2>2, <2>3, <2>4 DEF Writers
<1>8. CASE Adopt(t)
  <2>1. /\ items' = [items EXCEPT ![i] = [handle |-> call[t].hand, modes |-> Modes]]
        /\ opened' = opened /\ call[t].step = "adopt" /\ call[t].op = "create"
    BY <1>8, CallFacts DEF Adopt, OperationAt
  <2>2. ~stopped => CanWrite(call[t].hand)
    BY <2>1 DEF Writers, Creates
  <2>3. Elsewhere(t) /\ ~Promises(call'[t])
    <3>1. CASE Replies(t)
      BY <3>1, ReplyPromises
    <3>2. CASE Takes(t, "drop", items[i].handle)
      BY <1>2, <3>2, TakesIs DEF Calls, Steps, ItemState, Moved, Promises, Creates,
         OpensToWrite
    <3> QED
      BY <1>8, <3>1, <3>2 DEF Adopt
  <2>4. /\ \A j \in Items \ {i} : items'[j] = items[j] /\ opened'[j] = opened[j]
        /\ items'[i].modes = Modes /\ items'[i].handle = call[t].hand
    BY <1>2, <2>1
  <2> QED
    BY <1>2, <1>4, <2>2, <2>3, <2>4
<1> QED
  BY <1>5, <1>6, <1>7, <1>8

(* The other steps, while the volume runs, change nothing a writer has.    *)
LEMMA OtherWriters ==
    ASSUME Calls, Writers, NEW t \in Threads,
           \/ FindFileSystem(t) \/ WithHandle(t) \/ Peek(t) \/ UseHandle(t) \/ Act(t)
           \/ Resize(t) \/ FlushHandle(t) \/ Lookup(t) \/ CacheItem(t) \/ Move(t)
           \/ Unlink(t) \/ Forget(t)
    PROVE  Writers'
<1> USE DEF At, Does
<1>1. UNCHANGED <<items, opened, stopped>>
  BY DEF FindFileSystem, WithHandle, Peek, UseHandle, Act, Resize, FlushHandle, Lookup,
     CacheItem, Move, Unlink, Forget, Extension, Kernel, Volume
<1>2. \A h \in Handles : /\ handles'[h].open = handles[h].open
                         /\ handles'[h].writable = handles[h].writable
  <2>1. handles \in [Handles -> OpenFiles]
    BY DEF Calls, TypeOK
  <2>2. CASE Act(t)
    <3>1. \/ UNCHANGED handles
          \/ handles' = [h \in Handles |-> IF h = call[t].hand
                THEN [handles[h] EXCEPT !.dirty = TRUE, !.latest = TRUE]
                ELSE [handles[h] EXCEPT !.latest = FALSE]]
      BY <2>2 DEF Act
    <3> QED
      BY <2>1, <3>1 DEF OpenFiles
  <2>3. CASE Resize(t)
    BY <2>1, <2>3 DEF Resize, OpenFiles
  <2>4. CASE FlushHandle(t)
    <3>1. UNCHANGED handles \/ handles' = [handles EXCEPT ![call[t].hand].dirty = FALSE]
      BY <2>4 DEF FlushHandle
    <3> QED
      BY <2>1, <3>1 DEF OpenFiles
  <2>5. CASE ~Act(t) /\ ~Resize(t) /\ ~FlushHandle(t)
    BY <2>5 DEF FindFileSystem, WithHandle, Peek, UseHandle, Lookup, CacheItem, Move,
       Unlink, Forget, Bridge
  <2> QED
    BY <2>2, <2>3, <2>4, <2>5
<1>3. call \in [Threads -> Call]
  BY DEF Calls, TypeOK
<1>4. ASSUME Elsewhere(t),
             call'[t].step \notin {"register", "cache", "move", "adopt"}
      PROVE  Writers'
  <2>1. ~Promises(call'[t])
    BY <1>4 DEF Promises, Creates, OpensToWrite
  <2> QED
    BY <1>1, <1>2, <1>4, <2>1, QuietWriters
<1>5. CASE Replies(t)
  BY <1>1, <1>2, <1>5, ReplyPromises, QuietWriters
<1>6. ASSUME NEW s \in Steps, Goes(t, s),
             s \in {"lookup", "resize", "unlink", "open", "act", "drop", "forget"}
      PROVE  Writers'
  BY <1>4, <1>6, GoesIs DEF Calls, Moved
<1>7. CASE CacheItem(t) \/ Move(t)
  <2>1. Replies(t) \/ \E s \in {"move", "adopt"} : Goes(t, s)
    BY <1>7 DEF CacheItem, Move, Found
  <2>2. ASSUME NEW s \in {"move", "adopt"}, Goes(t, s)
        PROVE  Writers'
    <3>1. Elsewhere(t) /\ Moved(t, s, call[t].hand)
      BY <2>2, GoesIs DEF Calls, Steps
    <3>2. call[t].step \in {"cache", "move"}
      BY <1>7 DEF CacheItem, Move
    <3>3. Promises(call'[t]) => Promises(call[t]) /\ call'[t].hand = call[t].hand
      BY <2>2, <3>1, <3>2 DEF Promises, Creates, OpensToWrite, Moved
    <3> QED
      BY <1>1, <1>2, <3>1, <3>3, QuietWriters
  <2> QED
    BY <1>5, <2>1, <2>2
<1>8. CASE WithHandle(t)
  <2> DEFINE h == items[call[t].item].handle
             s == IF h # 0 THEN "use" ELSE "find"
             k == h # 0
  <2>1. call' = [call EXCEPT ![t].step = s, ![t].hand = h, ![t].keep = k]
    BY <1>8 DEF WithHandle
  <2>2. Elsewhere(t) /\ call'[t].step = s
    <3> HIDE DEF h, s, k
    <3> QED
      BY <1>3, <2>1 DEF Call, Elsewhere
  <2> QED
    BY <1>4, <2>2
<1>9. CASE Peek(t)
  <2>1. Takes(t, "find", items[call[t].item].handle) /\ "find" \in Steps
    BY <1>9 DEF Peek, Steps
  <2>2. Elsewhere(t) /\ Moved(t, "find", items[call[t].item].handle)
    BY <2>1, CallFacts, TakesIs
  <2> QED
    BY <1>4, <2>2 DEF Moved
<1>10. CASE Lookup(t) /\ ~Replies(t)
  <2>1. call' = [call EXCEPT ![t].step = "cache", ![t].item = current]
    BY <1>10 DEF Lookup
  <2>2. Elsewhere(t) /\ call'[t].op = call[t].op
    BY <1>3, <2>1 DEF Call, Elsewhere
  <2>3. call[t].op = "lookup"
    BY <1>10, CallFacts DEF Lookup, OperationAt
  <2>4. ~Promises(call'[t])
    BY <2>2, <2>3 DEF Promises, Creates, OpensToWrite
  <2> QED
    BY <1>1, <1>2, <2>2, <2>4, QuietWriters
<1>11. ASSUME ~(CacheItem(t) \/ Move(t)), ~WithHandle(t), ~Peek(t), ~Lookup(t)
       PROVE  Replies(t) \/ \E s \in Steps : /\ Goes(t, s)
                 /\ s \in {"lookup", "resize", "unlink", "open", "act", "drop", "forget"}
  <2>1. {"lookup", "resize", "unlink", "open", "act", "drop", "forget"} \subseteq Steps
    BY DEF Steps
  <2>2. \/ Replies(t)
        \/ \E s \in {"lookup", "resize", "unlink", "open", "act", "drop", "forget"} :
              Goes(t, s)
    BY <1>11 DEF FindFileSystem, UseHandle, Act, Resize, FlushHandle, Unlink, Forget, Ends
  <2> QED
    BY <2>1, <2>2
<1> QED
  BY <1>5, <1>6, <1>7, <1>8, <1>9, <1>10, <1>11

(* A volume that is being shut down has stopped.                           *)
LEMMA ShutdownWriters ==
    ASSUME Calls, NEW t \in Threads,
           Stop(t) \/ CloseEach(t) \/ CloseFileSystem(t) \/ Sweep(t)
    PROVE  Writers'
<1>1. CASE Stop(t)
  BY <1>1, StoppedWriters DEF Stop
<1>2. CASE CloseEach(t) \/ CloseFileSystem(t) \/ Sweep(t)
  <2>1. stopped
    BY <1>2, CallFacts
    DEF CloseEach, CloseFileSystem, Sweep, At, OperationAt, Knows, Does
  <2>2. stopped' = stopped
    BY <1>2 DEF CloseEach, CloseFileSystem, Sweep, Volume
  <2> QED
    BY <2>1, <2>2, StoppedWriters
<1> QED
  BY <1>1, <1>2

(* No step takes a writer's handle away.                                   *)
LEMMA StepWriters ==
    ASSUME Calls, Ownership, Writers, NEW t \in Threads, Step(t)
    PROVE  Writers'
  BY OpenFileWriters, RegisterWriters, CloseHandleWriters, ItemWriters, OtherWriters,
     ShutdownWriters
  DEF Step

-----------------------------------------------------------------------------
(* The theorems.                                                           *)

(* When loadResource returns at most one handle is open, for reading, and  *)
(* the item the kernel opened has it.                                      *)
LEMMA InitIInv == Init => IInv
<1> SUFFICES ASSUME Init PROVE IInv
  OBVIOUS
<1>1. PICK modes \in SUBSET {"read"} :
         /\ current = First /\ stored = TRUE
         /\ mounted = TRUE /\ registry = {h \in {1} : modes # {}}
         /\ handles = [h \in Handles |-> [Closed EXCEPT !.open =
                                             h \in {g \in {1} : modes # {}}]]
         /\ stopped = FALSE /\ cache = {First}
         /\ items = [i \in Items |-> IF i = First /\ modes # {}
                       THEN [handle |-> 1, modes |-> modes] ELSE NoHandle]
         /\ lock = [i \in Items |-> Nil]
         /\ known = {First} /\ opened = [i \in Items |-> items[i].modes]
         /\ call = [t \in Threads |-> Idle] /\ begun = 0
  BY DEF Init
<1>2. /\ 1 \in Handles /\ 1 \in Numbers /\ 0 \in Numbers /\ modes \in SUBSET Modes
      /\ \A h \in Handles : h # 0
  BY CallersAssumption DEF Handles, Numbers, Modes
<1>3. /\ handles \in [Handles -> OpenFiles]
      /\ \A h \in Handles : /\ handles[h].open <=> h = 1 /\ modes # {}
                            /\ ~handles[h].writable /\ ~handles[h].dirty
  <2>1. /\ Closed \in OpenFiles /\ ~Closed.writable /\ ~Closed.dirty
    BY DEF Closed, OpenFiles
  <2>2. ASSUME NEW x \in BOOLEAN
        PROVE  /\ [Closed EXCEPT !.open = x] \in OpenFiles
               /\ [Closed EXCEPT !.open = x].open = x
               /\ ~[Closed EXCEPT !.open = x].writable
               /\ ~[Closed EXCEPT !.open = x].dirty
    BY <2>1 DEF OpenFiles
  <2>3. handles = [h \in Handles |-> handles[h]]
    BY <1>1
  <2>4. ASSUME NEW h \in Handles
        PROVE  /\ handles[h] \in OpenFiles
               /\ handles[h].open <=> h = 1 /\ modes # {}
               /\ ~handles[h].writable /\ ~handles[h].dirty
    <3> DEFINE x == h \in {g \in {1} : modes # {}}
    <3>1. handles[h] = [Closed EXCEPT !.open = x] /\ x \in BOOLEAN
      BY <1>1
    <3>2. x <=> h = 1 /\ modes # {}
      OBVIOUS
    <3> HIDE DEF x
    <3> QED
      BY <2>2, <3>1, <3>2
  <2> QED
    BY <2>3, <2>4
<1>4. /\ items \in [Items -> ItemState]
      /\ \A i \in Items : /\ items[i].handle = IF i = First /\ modes # {} THEN 1 ELSE 0
                          /\ "write" \notin items[i].modes
                          /\ items[i].modes \in SUBSET Modes
    BY <1>1, <1>2 DEF ItemState, NoHandle
<1>5. \A t \in Threads : call[t] = Idle
  BY <1>1
<1>6. TypeOK
  BY <1>1, <1>2, <1>3, <1>4, IdleFine, CallersAssumption DEF TypeOK
<1>7. Shape /\ Knowledge
  BY <1>5, IdleFine DEF Shape, Knowledge, Knows, ReplacesHandle, At, Does
<1>8. Data
  BY <1>1, <1>3 DEF Data, Open, WritesKept
<1>9. Registered
  BY <1>1, <1>2, <1>3, <1>5, IdleFine DEF Registered, Open, At
<1>10. Held
  BY <1>1, <1>3, <1>4, CallersAssumption DEF Held, Open
<1>11. Unshared
  <2>1. \A t \in Threads, h \in Handles : ~Owns(t, h)
    BY <1>2, <1>5, IdleFine DEF Owns
  <2> QED
    BY <1>2, <1>4, <2>1 DEF Unshared
<1>12. Writers
  BY <1>1, <1>4, <1>5, IdleFine DEF Writers, Creates, OpensToWrite
<1> QED
  BY <1>6, <1>7, <1>8, <1>9, <1>10, <1>11, <1>12 DEF IInv

(* The kernel's calls begin with nothing.                                  *)
LEMMA KernelIInv ==
    ASSUME IInv,
           \/ \E t \in Callers, op \in Operations \ {"close", "reclaim", "shutdown"},
                 i \in Items, modes \in SUBSET Modes : Begin(t, op, i, modes)
           \/ \E i \in Items : BeginReclaim(i)
           \/ \E i \in Items : \E modes \in SUBSET Modes : BeginClose(i, modes)
           \/ BeginShutdown
    PROVE  IInv'
<1>1. Calls /\ Ownership /\ Data /\ Writers
  BY DEF IInv, Calls, Ownership
<1>2. Calls'
  BY <1>1, KernelCalls
<1>3. UNCHANGED <<Vault, Bridge, Volume, Extension, Kernel>>
  BY DEF Begin, BeginReclaim, BeginClose, BeginShutdown
<1>4. Data'
  BY <1>1, <1>3 DEF Data, Open, WritesKept, Vault, Bridge
<1>5. ASSUME NEW t \in Threads, NEW c, At(t, "idle"), call' = [call EXCEPT ![t] = c],
             c.hand = 0, c.taken = {}, c.step \in {"lock", "peek", "find", "stop"}
      PROVE  Ownership' /\ Writers'
  <2>1. UNCHANGED <<Bridge, Extension>> /\ UNCHANGED <<Bridge, Volume, Extension, Kernel>>
    BY <1>3
  <2>2. c.step \notin {"register", "cache", "move", "adopt"} /\ c.step # "register"
    BY <1>5
  <2> QED
    BY <1>1, <1>5, <2>1, <2>2, BeginOwnership, BeginWriters
<1>6. ASSUME NEW t \in Callers, NEW op \in Operations \ {"close", "reclaim", "shutdown"},
             NEW i \in Items, NEW modes \in SUBSET Modes, Begin(t, op, i, modes)
      PROVE  Ownership' /\ Writers'
  <2> DEFINE c == [Idle EXCEPT !.op = op, !.step = FirstStep(op),
                               !.item = i, !.modes = modes]
  <2>1. FirstStep(op) \in {"lock", "peek", "find"}
    BY DEF FirstStep, Operations
  <2>2. c.hand = 0 /\ c.taken = {} /\ c.step = FirstStep(op)
    BY IdleFine DEF Call
  <2>3. At(t, "idle") /\ call' = [call EXCEPT ![t] = c] /\ t \in Threads
    BY <1>6 DEF Begin, Threads
  <2> HIDE DEF c
  <2> QED
    BY <1>5, <2>1, <2>2, <2>3
<1>7. ASSUME NEW i \in Items, BeginReclaim(i)
      PROVE  Ownership' /\ Writers'
  <2> DEFINE c == [Idle EXCEPT !.op = "reclaim", !.step = "lock", !.item = i]
  <2>1. c.hand = 0 /\ c.taken = {} /\ c.step = "lock"
    BY IdleFine DEF Call
  <2>2. At(i, "idle") /\ call' = [call EXCEPT ![i] = c] /\ i \in Threads
    BY <1>7 DEF BeginReclaim, Threads
  <2> HIDE DEF c
  <2> QED
    BY <1>5, <2>1, <2>2
<1>8. ASSUME NEW i \in Items, NEW modes \in SUBSET Modes, BeginClose(i, modes)
      PROVE  Ownership' /\ Writers'
  <2> DEFINE c == [Idle EXCEPT !.op = "close", !.step = "lock",
                               !.item = i, !.modes = modes]
  <2>1. c.hand = 0 /\ c.taken = {} /\ c.step = "lock"
    BY IdleFine DEF Call
  <2>2. At(i, "idle") /\ call' = [call EXCEPT ![i] = c] /\ i \in Threads
    BY <1>8 DEF BeginClose, Threads
  <2> HIDE DEF c
  <2> QED
    BY <1>5, <2>1, <2>2
<1>9. ASSUME BeginShutdown
      PROVE  Ownership' /\ Writers'
  <2> DEFINE c == [Idle EXCEPT !.op = "shutdown", !.step = "stop"]
  <2>1. c.hand = 0 /\ c.taken = {} /\ c.step = "stop"
    BY IdleFine DEF Call
  <2>2. At(Stopper, "idle") /\ call' = [call EXCEPT ![Stopper] = c] /\ Stopper \in Threads
    BY <1>9 DEF BeginShutdown, Threads
  <2> HIDE DEF c
  <2> QED
    BY <1>5, <2>1, <2>2
<1> QED
  BY <1>2, <1>4, <1>6, <1>7, <1>8, <1>9 DEF IInv, Calls, Ownership

(* Every step keeps the invariant.                                         *)
LEMMA NextIInv == IInv /\ [Next]_vars => IInv'
<1> SUFFICES ASSUME IInv, [Next]_vars PROVE IInv'
  OBVIOUS
<1>1. ASSUME NEW t \in Threads, Step(t)
      PROVE  IInv'
  <2>1. Calls /\ Ownership /\ Data /\ Writers
    BY DEF IInv, Calls, Ownership
  <2>2. Calls' /\ Ownership' /\ Data' /\ Writers'
    BY <1>1, <2>1, StepCalls, StepOwnership, StepData, StepWriters
  <2> QED
    BY <2>2 DEF IInv, Calls, Ownership
<1>2. CASE UNCHANGED vars
  BY <1>2 DEF vars, IInv, TypeOK, Shape, Knowledge, Knows, Data, WritesKept, Registered,
     Held, Owns, Unshared, Writers, CanWrite, Open, At, Does
<1> QED
  BY <1>1, <1>2, KernelIInv DEF Next

(* The invariant of the extension and the bridge.                          *)
LEMMA Invariance == Spec => []IInv
  BY InitIInv, NextIInv, PTL DEF Spec

(* Every variable of the extension and the bridge keeps its type, and no   *)
(* step uses a handle number that was never given.                         *)
THEOREM TypeCorrect == Spec => []TypeOK
<1>1. IInv => TypeOK
  BY DEF IInv
<1> QED
  BY <1>1, Invariance, PTL

(* The last acknowledged write is in the vault or in an open handle that   *)
(* will store it: PassFSItem.close, an upgrade of the handle, truncations  *)
(* beside it and the shutdown of the volume lose none.                     *)
THEOREM NoWriteLost == Spec => []WritesKept
<1>1. IInv => WritesKept
  BY DEF IInv, Data
<1> QED
  BY <1>1, Invariance, PTL

(* Every OpenFile that is open is in the registry and has an item or a     *)
(* call that will close it, or is being registered or swept: neither a     *)
(* create that races an open, an upgrade that fails nor                    *)
(* passfs_bridge_close_file_system strands one with its path lock.         *)
THEOREM NoHandleStranded == Spec => []HandlesHeld
<1>1. IInv => HandlesHeld
  <2> SUFFICES ASSUME IInv PROVE HandlesHeld
    OBVIOUS
  <2>1. Stopper \in Threads
    BY DEF Threads
  <2> QED
    BY <2>1 DEF IInv, Registered, Held, HandlesHeld, Owns
<1> QED
  BY <1>1, Invariance, PTL

(* While the volume runs, an item the kernel has open for writing has a    *)
(* handle that is open and can write, whatever order openers come and go.  *)
THEOREM WritersKeepHandle == Spec => []WriterHasHandle
<1>1. IInv => WriterHasHandle
  BY DEF IInv, Writers, CanWrite, WriterHasHandle
<1> QED
  BY <1>1, Invariance, PTL
=============================================================================
