---------------------------- MODULE VaultContract ----------------------------
(***************************************************************************)
(* What the object store promises the rest of PassFS about the contents of *)
(* each object: a write or a removal is a request to replace the contents. *)
(* While it is in progress the object holds what it held before or what    *)
(* the request asks for, never anything else; a request that returns       *)
(* without an error has taken effect; one that fails, or whose process     *)
(* dies, leaves one of the two; and nothing else changes an object.        *)
(***************************************************************************)
CONSTANTS Objects, Contents, None

VARIABLES
    store,    \* store[o]: the plaintext o can be decrypted to, or None
    request,  \* request[o]: {} or the one replacement in progress
    outcome   \* outcome[o]: how the last request on o ended

vars == <<store, request, outcome>>

Values == Contents \cup {None}

Init ==
    /\ store = [o \in Objects |-> None]
    /\ request = [o \in Objects |-> {}]
    /\ outcome = [o \in Objects |-> "none"]

Begin(o) ==
    /\ request[o] = {}
    /\ \E v \in Values :
          /\ request'[o] = {[from |-> store[o], to |-> v]}
          /\ store'[o] \in {store[o], v}
    /\ outcome'[o] = "none"

Progress(o) ==
    /\ \E r \in request[o] : store'[o] \in {r.from, r.to}
    /\ request'[o] = request[o]
    /\ outcome'[o] = outcome[o]

Finish(o) ==
    /\ \E r \in request[o] :
          \/ store'[o] = r.to /\ outcome'[o] = "ok"
          \/ store'[o] \in {r.from, r.to} /\ outcome'[o] = "error"
    /\ request'[o] = {}

(* A request refused before it changes anything.                           *)
Refuse(o) ==
    /\ request[o] = {} /\ request'[o] = {}
    /\ store'[o] = store[o]
    /\ outcome'[o] = "error"

Unaffected(o) ==
    /\ store'[o] = store[o]
    /\ request'[o] = request[o]
    /\ outcome'[o] = outcome[o]

(* One step may end the requests of several objects: a process dies.       *)
Next == \A o \in Objects :
    Begin(o) \/ Progress(o) \/ Finish(o) \/ Refuse(o) \/ Unaffected(o)

Spec == Init /\ [][Next]_vars
=============================================================================
