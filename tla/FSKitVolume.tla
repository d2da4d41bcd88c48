---------------------------- MODULE FSKitVolume ----------------------------
(***************************************************************************)
(* The macOS frontend: the FSKit extension (PassFSVolume, PassFSItem), the *)
(* registry of the Go bridge and, of the volume behind it, what the two    *)
(* depend on: the path lock a handle keeps, its unsaved data, and the      *)
(* namespace lock unlink tries.  FSKit calls from several threads; a       *)
(* PassFSItem keeps one handle for all of the openers of a file, under a   *)
(* lock that stays taken while the bridge asks for authorization.          *)
(*                                                                         *)
(* The items are the successive inodes of one path, so an item that was    *)
(* removed can still hold a handle when the path is created again.         *)
(***************************************************************************)
EXTENDS Naturals, FiniteSets

CONSTANTS
    Items,                \* the inodes the path may have, one after another
    First,                \* the one it has when the volume is loaded
    Callers,              \* the threads of the calls that open and use items
    Nil,
    SerializedDirectory,  \* a name is not looked up while it is being created
    MaxCalls,             \* bound on the calls of the Callers
    MaxHandles            \* bound on the handles in use at a time

(* The calls that end the use of an item, and the end of the volume, do    *)
(* not count: there is always a thread for them, named after the item.     *)
Stopper == "stopper"
Threads == Callers \cup Items \cup {Stopper}

ASSUME CallersAssumption ==
    /\ First \in Items /\ MaxCalls \in Nat /\ MaxHandles \in Nat \ {0}
    /\ SerializedDirectory \in BOOLEAN
    /\ Callers \cap Items = {} /\ Stopper \notin Callers \cup Items
    /\ Nil \notin Threads

Modes == {"read", "write"}
Handles == 1 .. MaxHandles

VARIABLES
    current,     \* the inode the path has in the vault, or Nil
    stored,      \* history: the vault has the last acknowledged write
    mounted,     \* the bridge's registry has the file system
    registry,    \* the handles in the bridge's registry
    handles,     \* the OpenFile of each handle number
    stopped,     \* PassFSVolume.stopped
    cache,       \* PassFSVolume.itemCache
    items,       \* openHandle and openModes of each PassFSItem
    lock,        \* the thread in each PassFSItem's lock
    known,       \* the items the kernel has a vnode for
    opened,      \* the modes the kernel has each item open with
    call,        \* the call of each thread
    begun        \* how many calls the Callers have begun

vars == <<current, stored, mounted, registry, handles, stopped, cache,
          items, lock, known, opened, call, begun>>

Operations == {"lookup", "open", "read", "write", "truncate", "create",
               "remove", "close", "reclaim", "shutdown"}

(* hand is the handle a call works on, keep says that it is not the        *)
(* call's own, todo are the items shutdown still has to close, taken the   *)
(* handles that passfs_bridge_close_file_system took out of the registry.  *)
Idle == [op |-> "lookup", step |-> "idle", item |-> First, modes |-> {},
         hand |-> 0, keep |-> FALSE, todo |-> {}, taken |-> {}]

(* latest: a handle has the last acknowledged write in its data.           *)
Closed == [open |-> FALSE, writable |-> FALSE, dirty |-> FALSE, latest |-> FALSE]
NoHandle == [handle |-> 0, modes |-> {}]

(* loadResource has opened the bridge, the kernel has looked First up and  *)
(* perhaps opened it for reading.                                          *)
Init ==
    \E modes \in SUBSET {"read"} :
    LET used == {h \in {1} : modes # {}} IN
    /\ current = First /\ stored = TRUE
    /\ mounted = TRUE /\ registry = used
    /\ handles = [h \in Handles |-> [Closed EXCEPT !.open = h \in used]]
    /\ stopped = FALSE /\ cache = {First}
    /\ items = [i \in Items |-> IF i = First /\ modes # {}
                                THEN [handle |-> 1, modes |-> modes] ELSE NoHandle]
    /\ lock = [i \in Items |-> Nil]
    /\ known = {First} /\ opened = [i \in Items |-> items[i].modes]
    /\ call = [t \in Threads |-> Idle] /\ begun = 0

Vault == <<current, stored>>
Bridge == <<mounted, registry, handles>>
Volume == <<stopped, cache>>
Extension == <<items, lock>>
Kernel == <<known, opened>>

At(t, step) == call[t].step = step
Does(t, ops) == call[t].op \in ops
Goes(t, step) == call' = [call EXCEPT ![t].step = step]
Takes(t, step, h) == call' = [call EXCEPT ![t].step = step, ![t].hand = h]
Replies(t) == call' = [call EXCEPT ![t] = Idle]

(* A call that ends gives the lock up that it may have.                    *)
Unlocked(t) == [i \in Items |-> IF lock[i] = t THEN Nil ELSE lock[i]]
Ends(t) == Replies(t) /\ lock' = Unlocked(t)

Busy(i, ops) == \E t \in Threads : ~At(t, "idle") /\ call[t].item = i /\ Does(t, ops)

-----------------------------------------------------------------------------
(* The kernel's side: which calls FSKit makes.  Opens, closes, removals    *)
(* and the reclaim of one vnode follow one another; reads, writes and      *)
(* truncations run beside them.  A getAttributes of an item with a handle  *)
(* is a read; of one without, it changes nothing.                          *)

Ordered == {"open", "close", "remove", "reclaim"}

InDirectory(ops) == \E t \in Threads : ~At(t, "idle") /\ Does(t, ops)

MayCall(op, i) ==
    CASE op = "lookup" -> i = First /\ (SerializedDirectory => ~InDirectory({"create"}))
      [] op = "open" -> i \in known /\ ~Busy(i, Ordered)
      [] op = "read" -> "read" \in opened[i] \/ items[i].handle # 0
      [] op = "write" -> "write" \in opened[i]
      [] op = "truncate" -> i \in known
      [] op = "create" -> /\ i \notin known \cup cache \cup {current}
                          /\ ~Busy(i, Operations) /\ items[i].handle = 0
                          /\ SerializedDirectory => ~InDirectory({"lookup", "create"})
      [] op = "remove" -> i \in known /\ i = current /\ ~Busy(i, Ordered)

FirstStep(op) ==
    CASE op \in {"open", "read", "write"} -> "lock"
      [] op = "truncate" -> "peek"
      [] OTHER -> "find"

Begin(t, op, i, modes) ==
    /\ At(t, "idle") /\ begun < MaxCalls
    /\ MayCall(op, i)
    /\ modes # {} <=> op = "open"
    /\ call' = [call EXCEPT ![t] = [Idle EXCEPT !.op = op, !.step = FirstStep(op),
                                               !.item = i, !.modes = modes]]
    /\ begun' = begun + 1
    /\ UNCHANGED <<Vault, Bridge, Volume, Extension, Kernel>>

(* modes are the ones to keep.                                             *)
BeginClose(i, modes) ==
    /\ At(i, "idle")
    /\ opened[i] # {} /\ ~Busy(i, Ordered)
    /\ modes \subseteq opened[i] /\ modes # opened[i]
    /\ call' = [call EXCEPT ![i] = [Idle EXCEPT !.op = "close", !.step = "lock",
                                                    !.item = i, !.modes = modes]]
    /\ UNCHANGED <<Vault, Bridge, Volume, Extension, Kernel, begun>>

BeginReclaim(i) ==
    /\ At(i, "idle")
    /\ i \in known /\ opened[i] = {} /\ ~Busy(i, Operations)
    /\ call' = [call EXCEPT ![i] = [Idle EXCEPT !.op = "reclaim", !.step = "lock",
                                                    !.item = i]]
    /\ UNCHANGED <<Vault, Bridge, Volume, Extension, Kernel, begun>>

(* deactivate, unmount or unloadResource                                   *)
BeginShutdown ==
    /\ At(Stopper, "idle") /\ ~stopped
    /\ call' = [call EXCEPT ![Stopper] = [Idle EXCEPT !.op = "shutdown", !.step = "stop"]]
    /\ UNCHANGED <<Vault, Bridge, Volume, Extension, Kernel, begun>>

-----------------------------------------------------------------------------
(* The volume behind the bridge.                                           *)

Open(h) == handles[h].open

(* acquirePathLock: a writer excludes everybody.                           *)
PathFree(writable) ==
    \A h \in Handles : Open(h) => ~writable /\ ~handles[h].writable

(* namespaceMu: writable handles hold it for reading, and so does an open  *)
(* that waits for the path lock or for authorization.                      *)
NamespaceFree ==
    /\ \A h \in Handles : Open(h) => ~handles[h].writable
    /\ \A t \in Threads : ~At(t, "open") /\ ~At(t, "resize")

(* The bridge never gives a number twice; here one that nobody holds any   *)
(* more is as good as a new one.                                           *)
Unused ==
    {h \in Handles : /\ ~Open(h)
                     /\ \A i \in Items : items[i].handle # h
                     /\ \A t \in Threads : call[t].hand # h}

Fresh == CHOOSE h \in Unused : TRUE

(* Mutant: a handle that is closed forgets what it had not flushed.        *)
StoredNever(h) == stored

(* OpenFile.Close stores what is dirty; so does Flush.                     *)
Stored(h) == IF handles[h].dirty THEN handles[h].latest ELSE stored
Released(h) == [handles EXCEPT ![h] = Closed]

-----------------------------------------------------------------------------
(* PassFSBridge.open and PassFSBridgeHandle.close.                         *)

(* bridgeFileSystem, or EBADF.                                             *)
FindFileSystem(t) ==
    /\ At(t, "find")
    /\ IF mounted
         THEN /\ Goes(t, CASE Does(t, {"lookup"}) -> "lookup"
                           [] Does(t, {"truncate"}) -> "resize"
                           [] Does(t, {"remove"}) -> "unlink"
                           [] OTHER -> "open")
              /\ UNCHANGED lock
         ELSE Ends(t)
    /\ UNCHANGED <<Vault, Bridge, Volume, items, Kernel, begun>>

(* FileSystem.Open and Create wait for the path lock; the file may be gone *)
(* or there already, and authorization may be refused.                     *)
OpenFile(t) ==
    /\ At(t, "open")
    /\ LET creates == Does(t, {"create"})
           writable == creates \/ Does(t, {"write"}) \/ "write" \in call[t].modes
       IN  /\ PathFree(writable)
           /\ \/ /\ Unused # {}
                 /\ IF creates THEN current = Nil ELSE current # Nil
                 /\ handles' = [handles EXCEPT ![Fresh] = [open |-> TRUE,
                       writable |-> writable, dirty |-> FALSE, latest |-> stored]]
                 /\ Takes(t, "register", Fresh)
                 /\ current' = IF creates THEN call[t].item ELSE current
                 /\ UNCHANGED lock
              \/ /\ Ends(t)
                 /\ UNCHANGED <<current, handles>>
    /\ UNCHANGED <<stored, mounted, registry, Volume, items, Kernel, begun>>

(* registerBridgeHandle; open puts the handle in the item and returns.     *)
RegisterBridgeHandle(t) ==
    /\ At(t, "register")
    /\ registry' = registry \cup {call[t].hand}
    /\ IF Does(t, {"open"})
         THEN LET i == call[t].item IN
              /\ items' = [items EXCEPT ![i] = [handle |-> call[t].hand,
                                                modes |-> call[t].modes]]
              /\ opened' = [opened EXCEPT ![i] = @ \cup call[t].modes]
              /\ Ends(t)
         ELSE /\ Goes(t, IF Does(t, {"create"}) THEN "cache" ELSE "use")
              /\ UNCHANGED <<Extension, opened>>
    /\ UNCHANGED <<Vault, mounted, handles, Volume, known, begun>>

(* What follows when a call has given a handle up, or has none.            *)
Continues(t) ==
    IF Does(t, {"open", "reclaim", "shutdown"})
      THEN /\ Takes(t, CASE Does(t, {"open"}) -> "find"
                         [] Does(t, {"reclaim"}) -> "forget"
                         [] OTHER -> "each", 0)
           /\ UNCHANGED lock
      ELSE Ends(t)

(* passfs_bridge_close: takeBridgeHandle and OpenFile.Close, whose error   *)
(* nobody learns of; nothing if the file system was closed before.         *)
CloseHandle(t) ==
    /\ At(t, "drop")
    /\ LET h == call[t].hand IN
         IF h \in registry
           THEN /\ stored' = Stored(h)
                /\ handles' = Released(h)
                /\ registry' = registry \ {h}
           ELSE UNCHANGED <<stored, handles, registry>>
    /\ Continues(t)
    /\ UNCHANGED <<current, mounted, Volume, items, Kernel, begun>>

-----------------------------------------------------------------------------
(* PassFSItem.                                                             *)

(* Mutant: a handle that is there is shared whatever it was opened for.    *)
SharesAny(i, modes) == items[i].handle # 0

(* open: the handle there is serves the new opener too, unless it is the   *)
(* first to write.                                                         *)
Shares(i, modes) ==
    /\ items[i].handle # 0
    /\ "write" \notin modes \/ "write" \in items[i].modes

OpenShared(t) ==
    /\ At(t, "lock") /\ Does(t, {"open"})
    /\ LET i == call[t].item IN
         /\ lock[i] = Nil
         /\ Shares(i, call[t].modes)
         /\ items' = [items EXCEPT ![i].modes = @ \cup call[t].modes]
         /\ opened' = [opened EXCEPT ![i] = @ \cup call[t].modes]
    /\ Replies(t)
    /\ UNCHANGED <<Vault, Bridge, Volume, lock, known, begun>>

(* Mutant: the old handle stays until the new one is there.                *)
OpenAnewKeeps(t) ==
    /\ At(t, "lock") /\ Does(t, {"open"})
    /\ lock[call[t].item] = Nil
    /\ ~Shares(call[t].item, call[t].modes)
    /\ lock' = [lock EXCEPT ![call[t].item] = t]
    /\ Goes(t, "find")
    /\ UNCHANGED <<Vault, Bridge, Volume, items, Kernel, begun>>

(* The old handle would keep the path lock, so it goes first.              *)
OpenAnew(t) ==
    /\ At(t, "lock") /\ Does(t, {"open"})
    /\ LET i == call[t].item IN
         /\ lock[i] = Nil
         /\ ~Shares(i, call[t].modes)
         /\ lock' = [lock EXCEPT ![i] = t]
         /\ items' = [items EXCEPT ![i] = NoHandle]
         /\ Takes(t, IF items[i].handle # 0 THEN "drop" ELSE "find", items[i].handle)
    /\ UNCHANGED <<Vault, Bridge, Volume, Kernel, begun>>

(* withHandle: the item's handle, or one for this call only.               *)
WithHandle(t) ==
    /\ At(t, "lock") /\ Does(t, {"read", "write"})
    /\ LET i == call[t].item IN
         /\ lock[i] = Nil
         /\ lock' = [lock EXCEPT ![i] = t]
         /\ call' = [call EXCEPT
               ![t].step = IF items[i].handle # 0 THEN "use" ELSE "find",
               ![t].hand = items[i].handle,
               ![t].keep = items[i].handle # 0]
    /\ UNCHANGED <<Vault, Bridge, Volume, items, Kernel, begun>>

(* handleIdentifier, which setAttributes reads without keeping the lock.   *)
Peek(t) ==
    /\ At(t, "peek")
    /\ lock[call[t].item] = Nil
    /\ Takes(t, "find", items[call[t].item].handle)
    /\ UNCHANGED <<Vault, Bridge, Volume, Extension, Kernel, begun>>

(* bridgeHandle, or EBADF.                                                 *)
UseHandle(t) ==
    /\ At(t, "use")
    /\ IF call[t].hand \in registry \/ ~call[t].keep
         THEN /\ Goes(t, IF call[t].hand \in registry THEN "act" ELSE "drop")
              /\ UNCHANGED lock
         ELSE Ends(t)
    /\ UNCHANGED <<Vault, Bridge, Volume, items, Kernel, begun>>

Writes(t) == Does(t, {"write", "truncate"}) /\ handles[call[t].hand].writable

(* OpenFile.Read, Write, Attributes and SetAttributes, on a handle that    *)
(* may have been released since it was found.                              *)
Act(t) ==
    /\ At(t, "act")
    /\ IF Open(call[t].hand) /\ Writes(t)
         THEN /\ stored' = FALSE
              /\ handles' = [h \in Handles |-> IF h = call[t].hand
                    THEN [handles[h] EXCEPT !.dirty = TRUE, !.latest = TRUE]
                    ELSE [handles[h] EXCEPT !.latest = FALSE]]
         ELSE UNCHANGED <<stored, handles>>
    /\ IF call[t].keep \/ Does(t, {"truncate"})
         THEN Ends(t) ELSE Goes(t, "drop") /\ UNCHANGED lock
    /\ UNCHANGED <<current, mounted, registry, Volume, items, Kernel, begun>>

(* FileSystem.SetAttributes with a handle of the item; or without one: the *)
(* volume opens, resizes, flushes and closes the file itself.              *)
Resize(t) ==
    /\ At(t, "resize")
    /\ \/ /\ call[t].hand # 0
          /\ IF call[t].hand \in registry THEN Goes(t, "act") ELSE Replies(t)
          /\ UNCHANGED <<stored, handles>>
       \/ /\ call[t].hand = 0 /\ PathFree(TRUE)
          /\ Replies(t)
          /\ \/ /\ current # Nil
                /\ stored' = TRUE
                /\ handles' = [h \in Handles |-> [handles[h] EXCEPT !.latest = FALSE]]
             \/ UNCHANGED <<stored, handles>>
    /\ UNCHANGED <<current, mounted, registry, Volume, Extension, Kernel, begun>>

(* close(keeping:)                                                         *)
CloseKeeping(t) ==
    /\ At(t, "lock") /\ Does(t, {"close", "reclaim"})
    /\ LET i == call[t].item IN
         /\ lock[i] = Nil
         /\ opened' = [opened EXCEPT ![i] = call[t].modes]
         /\ IF call[t].modes # {}
              THEN items' = [items EXCEPT ![i].modes = call[t].modes] /\ Ends(t)
              ELSE /\ items' = [items EXCEPT ![i] = NoHandle]
                   /\ IF items[i].handle # 0
                        THEN Takes(t, "flush", items[i].handle) /\ UNCHANGED lock
                        ELSE Continues(t)
    /\ UNCHANGED <<Vault, Bridge, Volume, known, begun>>

(* passfs_bridge_flush; the handle is closed, or deinit closes it.         *)
FlushHandle(t) ==
    /\ At(t, "flush")
    /\ LET h == call[t].hand IN
         IF h \in registry /\ Open(h)
           THEN /\ stored' = Stored(h)
                /\ handles' = [handles EXCEPT ![h].dirty = FALSE]
           ELSE UNCHANGED <<stored, handles>>
    /\ Goes(t, "drop")
    /\ UNCHANGED <<current, mounted, registry, Volume, Extension, Kernel, begun>>

-----------------------------------------------------------------------------
(* PassFSVolume.                                                           *)

(* cacheLock, which is kept while the path of a cached item is updated:    *)
(* that needs the item's lock.                                             *)
CacheFree == \A t \in Threads : ~At(t, "move")

(* Volume.Lookup: the inode the path has, which may be stale when used.    *)
Lookup(t) ==
    /\ At(t, "lookup")
    /\ IF current # Nil
         THEN call' = [call EXCEPT ![t].step = "cache", ![t].item = current]
         ELSE Replies(t)
    /\ UNCHANGED <<Vault, Bridge, Volume, Extension, Kernel, begun>>

(* What a lookup or a create does with the item it got.                    *)
Found(t) ==
    IF Does(t, {"create"})
      THEN Goes(t, "adopt") /\ UNCHANGED known
      ELSE Replies(t) /\ known' = known \cup {call[t].item}

(* item(path:attributes:) after a lookup or a create.                      *)
CacheItem(t) ==
    /\ At(t, "cache") /\ CacheFree
    /\ IF call[t].item \in cache
         THEN Goes(t, "move") /\ UNCHANGED known
         ELSE Found(t)
    /\ cache' = cache \cup {call[t].item}
    /\ UNCHANGED <<Vault, Bridge, stopped, Extension, opened, begun>>

(* PassFSItem.move, in the cache's lock.                                   *)
Move(t) ==
    /\ At(t, "move")
    /\ lock[call[t].item] = Nil
    /\ Found(t)
    /\ UNCHANGED <<Vault, Bridge, Volume, Extension, opened, begun>>

Adopt(t) ==
    /\ At(t, "adopt")
    /\ LET i == call[t].item IN
         /\ lock[i] = Nil
         /\ items' = [items EXCEPT ![i] = [handle |-> call[t].hand, modes |-> Modes]]
         /\ IF items[i].handle # 0 THEN Takes(t, "drop", items[i].handle) ELSE Replies(t)
         /\ known' = known \cup {i}
    /\ UNCHANGED <<Vault, Bridge, Volume, lock, opened, begun>>

(* removeItem: Unlink only tries the namespace lock.                       *)
Unlink(t) ==
    /\ At(t, "unlink")
    /\ \/ /\ NamespaceFree /\ current # Nil
          /\ current' = Nil /\ stored' = TRUE
          /\ Goes(t, "forget")
       \/ /\ Replies(t)
          /\ UNCHANGED Vault
    /\ UNCHANGED <<Bridge, Volume, Extension, Kernel, begun>>

(* removeFromCache                                                         *)
Forget(t) ==
    /\ At(t, "forget") /\ CacheFree
    /\ cache' = cache \ {call[t].item}
    /\ known' = IF Does(t, {"reclaim"}) THEN known \ {call[t].item} ELSE known
    /\ Replies(t)
    /\ UNCHANGED <<Vault, Bridge, stopped, Extension, opened, begun>>

(* shutdown                                                                *)
Stop(t) ==
    /\ At(t, "stop") /\ CacheFree
    /\ stopped' = TRUE /\ cache' = {}
    /\ call' = [call EXCEPT ![t].step = "each", ![t].todo = cache]
    /\ UNCHANGED <<Vault, Bridge, Extension, Kernel, begun>>

CloseEach(t) ==
    /\ At(t, "each")
    /\ \/ \E i \in call[t].todo :
             /\ lock[i] = Nil
             /\ items' = [items EXCEPT ![i] = NoHandle]
             /\ call' = [call EXCEPT ![t].todo = @ \ {i}, ![t].hand = items[i].handle,
                   ![t].step = IF items[i].handle # 0 THEN "flush" ELSE "each"]
       \/ call[t].todo = {} /\ Goes(t, "unregister") /\ UNCHANGED items
    /\ UNCHANGED <<Vault, Bridge, Volume, lock, Kernel, begun>>

(* passfs_bridge_close_file_system                                         *)
CloseFileSystem(t) ==
    /\ At(t, "unregister")
    /\ mounted' = FALSE /\ registry' = {}
    /\ call' = [call EXCEPT ![t].step = "sweep", ![t].taken = registry]
    /\ UNCHANGED <<Vault, handles, Volume, Extension, Kernel, begun>>

(* Mutant: the handles are only taken out of the registry.                 *)
SweepNothing(t) ==
    /\ At(t, "sweep")
    /\ Replies(t)
    /\ UNCHANGED <<Vault, Bridge, Volume, Extension, Kernel, begun>>

Sweep(t) ==
    /\ At(t, "sweep")
    /\ \/ \E h \in call[t].taken :
             /\ stored' = Stored(h)
             /\ handles' = Released(h)
             /\ call' = [call EXCEPT ![t].taken = @ \ {h}]
       \/ call[t].taken = {} /\ Replies(t) /\ UNCHANGED <<stored, handles>>
    /\ UNCHANGED <<current, mounted, registry, Volume, Extension, Kernel, begun>>

-----------------------------------------------------------------------------
Step(t) ==
    \/ FindFileSystem(t) \/ OpenFile(t) \/ RegisterBridgeHandle(t) \/ CloseHandle(t)
    \/ OpenShared(t) \/ OpenAnew(t) \/ WithHandle(t) \/ Peek(t) \/ UseHandle(t)
    \/ Act(t) \/ Resize(t) \/ CloseKeeping(t) \/ FlushHandle(t)
    \/ Lookup(t) \/ CacheItem(t) \/ Move(t) \/ Adopt(t) \/ Unlink(t) \/ Forget(t)
    \/ Stop(t) \/ CloseEach(t) \/ CloseFileSystem(t) \/ Sweep(t)

Next ==
    \/ \E t \in Callers, op \in Operations \ {"close", "reclaim", "shutdown"},
         i \in Items, modes \in SUBSET Modes : Begin(t, op, i, modes)
    \/ \E i \in Items : BeginReclaim(i) \/ \E modes \in SUBSET Modes : BeginClose(i, modes)
    \/ BeginShutdown
    \/ \E t \in Threads : Step(t)

(* A call goes on when it can.  Clients close what they opened, and the    *)
(* kernel reclaims an item that a create left with a handle and nobody     *)
(* opened, and every item of a volume that stops.  The calls are finitely  *)
(* many, so no step of theirs needs fairness of its own.                   *)
Progress ==
    \/ \E t \in Threads : Step(t)
    \/ \E i \in Items : BeginClose(i, {})
    \/ \E i \in Items : (stopped \/ items[i].handle # 0) /\ BeginReclaim(i)

Spec == Init /\ [][Next]_vars /\ WF_vars(Progress)

-----------------------------------------------------------------------------
(* Every OpenFile that is open can still be closed: an item or a running   *)
(* call has its number, and the registry or the closing call has it; and   *)
(* the registry has no number of a closed one.  A handle registered while  *)
(* the file system is being closed, an upgrade that fails or a create that *)
(* races an open must not strand one: it would keep its path lock, and its *)
(* plaintext, for ever.                                                    *)
HandlesHeld ==
    /\ \A h \in registry : Open(h)
    /\ \A h \in Handles : Open(h) =>
        \/ /\ h \in registry
           /\ \/ \E i \in Items : items[i].handle = h
              \/ \E t \in Threads : call[t].hand = h
        \/ \E t \in Threads : \/ h \in call[t].taken
                              \/ call[t].hand = h /\ At(t, "register")

(* While the volume runs, an item the kernel has open for writing has a    *)
(* handle that can write, whatever order its openers came and went in.     *)
WriterHasHandle ==
    \A i \in Items : "write" \in opened[i] /\ ~stopped =>
        items[i].handle # 0 /\ handles[items[i].handle].writable
                            /\ Open(items[i].handle)

(* The last write that was acknowledged is in the vault or in a handle     *)
(* that will still store it, also while the volume is being shut down.     *)
WritesKept ==
    stored \/ \E h \in Handles : handles[h].open /\ handles[h].dirty /\ handles[h].latest

(* Once shutdown has begun every call returns, whoever holds which item    *)
(* and which path, and no handle stays open: neither one that an open or a *)
(* create was about to register nor one of an item that had left the       *)
(* cache.  Shutdown can begin at any time, so calls that wait for one      *)
(* another would break this too.                                           *)
ShutdownCompletes ==
    stopped ~> /\ \A t \in Threads : At(t, "idle")
               /\ \A h \in Handles : ~Open(h)

=============================================================================
