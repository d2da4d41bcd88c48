------------------------- MODULE AuthorizationProofs -------------------------
(***************************************************************************)
(* Proofs about Authorization, for any numbers of requests, processes,     *)
(* objects and sessions, any configuration and any bounds on durations and *)
(* waiting callbacks.                                                      *)
(*                                                                         *)
(* The inductive invariant has one part per group of variables behind      *)
(* unlockMu.  The part that makes CacheIsCurrent inductive is about        *)
(* requests: one that will cache its answer holds unlockMu from the lookup *)
(* to the insertion, so neither a discard nor a new configuration comes in *)
(* between.  IdentityExpires needs facts about the latest expiry of a set  *)
(* of authorizations: that it exists, that dropping expired ones does not  *)
(* change it, and how it counts down.                                      *)
(***************************************************************************)
EXTENDS Authorization, WellFoundedInduction, TLAPS

CacheOK ==
    /\ unlockFor \in 0 .. MaxDuration /\ unlockScope \in Scopes
    /\ cachedIdentity \in BOOLEAN
    /\ authorized = [k \in DOMAIN authorized |-> authorized[k]]
    /\ DOMAIN authorized \subseteq AuthorizationKeys
    /\ \A k \in DOMAIN authorized : authorized[k] \in Entry
    /\ unlockTimer \in -1 .. MaxDuration
    /\ callbacks \in 0 .. MaxCallbacks
    /\ watched \subseteq AuthorizationKeys
    /\ CacheIsCurrent
    /\ IdentityExpires

SessionsOK ==
    /\ DOMAIN sessions \subseteq Tokens
    /\ \A t \in DOMAIN sessions : sessions[t] \in Session
    /\ done \in [Tokens -> {"none", "open", "closed"}]
    /\ DOMAIN monitor \subseteq Tokens
    /\ \A t \in DOMAIN monitor : monitor[t] \in [ownerPID : Pids, exited : BOOLEAN]
    /\ alive \subseteq Pids
    /\ SessionsOpen

(* A begin command has a caller and a token; what waits to be inserted is  *)
(* a session; an answer that will be cached belongs to the holder of       *)
(* unlockMu, is what the configuration allows and is not outdated.         *)
RequestOK(r) ==
    LET q == request[r] IN
    /\ q \in RequestState
    /\ q.kind # "open" => q.pid \in Pids /\ q.token \in Tokens
    /\ q.step = "insert" => q.kind # "open"
    /\ q.step \in {"check", "prompt"} => q.stale = {}
    /\ q.step = "granted" => q.scoped # Nil
    /\ q.step \in {"prompt", "granted"} /\ q.scoped # Nil =>
         /\ holder = r /\ q.stale = {}
         /\ q.scoped[1] = unlockScope /\ unlockFor > 0

RequestsOK ==
    /\ holder \in Requests \cup {Nil}
    /\ request = [r \in Requests |-> request[r]]
    /\ \A r \in Requests : RequestOK(r)

IInv == CacheOK /\ SessionsOK /\ RequestsOK

-----------------------------------------------------------------------------
(* The latest expiry of a set of authorizations.                           *)

(* Every nonempty set of natural numbers has a least one.                  *)
LEMMA LeastNumber ==
    ASSUME NEW T \in SUBSET Nat, T # {}
    PROVE  \E x \in T : \A y \in T : x <= y
  <1>1. PICK R : R = OpToRel(<, Nat)
    OBVIOUS
  <1>2. R = {ss \in Nat \X Nat : ss[1] < ss[2]}
    BY <1>1 DEF OpToRel
  <1>3. PICK x \in T : \A y \in T : ~ (<<y, x>> \in R)
    BY <1>1, NatLessThanWellFounded, WFMin
  <1>4. \A y \in T : ~(y < x)
    BY <1>2, <1>3
  <1>5. \A y \in T : x <= y
    BY <1>4
  <1> QED
    BY <1>5

(* A nonempty set of bounded durations has a longest one.                  *)
LEMMA LongestDuration ==
    ASSUME NEW S \in SUBSET (0 .. MaxDuration), S # {}
    PROVE  Max(S) \in S /\ \A y \in S : y <= Max(S)
  <1>1. MaxDuration \in Nat
    BY AuthorizationAssumption
  <1> DEFINE T == {MaxDuration - x : x \in S}
  <1>2. \A x \in S : MaxDuration - x \in Nat
    BY <1>1
  <1>3. T \in SUBSET Nat
    BY <1>2
  <1>4. T # {}
    OBVIOUS
  <1>5. PICK t \in T : \A y \in T : t <= y
    BY <1>3, <1>4, LeastNumber
  <1>6. PICK x \in S : t = MaxDuration - x
    OBVIOUS
  <1>7. ASSUME NEW y \in S PROVE x >= y
    <2>1. MaxDuration - y \in T
      OBVIOUS
    <2>2. MaxDuration - x <= MaxDuration - y
      BY <1>5, <1>6, <2>1
    <2>3. x \in Int /\ y \in Int
      BY <1>1
    <2> QED
      BY <1>1, <2>2, <2>3
  <1> QED
    BY <1>7 DEF Max

(* What Latest is: the time left of some authorization, none has more.     *)
LEMMA LatestIs ==
    ASSUME NEW f, \A k \in DOMAIN f : f[k].left \in 0 .. MaxDuration, DOMAIN f # {}
    PROVE  /\ Latest(f) \in 0 .. MaxDuration
           /\ \E k \in DOMAIN f : Latest(f) = f[k].left
           /\ \A k \in DOMAIN f : f[k].left <= Latest(f)
  <1> DEFINE S == {f[k].left : k \in DOMAIN f}
  <1>1. S \in SUBSET (0 .. MaxDuration) /\ S # {}
    OBVIOUS
  <1>2. Max(S) \in S /\ \A y \in S : y <= Max(S)
    BY <1>1, LongestDuration
  <1>3. Latest(f) = Max(S)
    BY DEF Latest
  <1> QED
    BY <1>1, <1>2, <1>3

(* Only one number is the latest.                                          *)
LEMMA LatestUnique ==
    ASSUME NEW f, \A k \in DOMAIN f : f[k].left \in 0 .. MaxDuration,
           NEW m, \E k \in DOMAIN f : m = f[k].left,
           \A k \in DOMAIN f : f[k].left <= m
    PROVE  Latest(f) = m
  <1>1. MaxDuration \in Nat
    BY AuthorizationAssumption
  <1>2. DOMAIN f # {}
    OBVIOUS
  <1> QED
    BY <1>1, <1>2, LatestIs

(* A function is the empty one exactly when its domain is empty.           *)
LEMMA EmptyFunction ==
    ASSUME NEW f, f = [k \in DOMAIN f |-> f[k]]
    PROVE  f = <<>> <=> DOMAIN f = {}
  OBVIOUS

-----------------------------------------------------------------------------
(* What the steps that share code do to each part.                         *)

(* The parts that a step leaves alone.                                     *)
LEMMA CacheFrame ==
    ASSUME CacheOK, UNCHANGED <<config, cache, callbacks>>
    PROVE  CacheOK'
  BY DEF CacheOK, CacheIsCurrent, IdentityExpires, config, cache

(* What touches no session, monitor or process keeps the facts about       *)
(* sessions.                                                               *)
LEMMA SessionFrame ==
    ASSUME SessionsOK, UNCHANGED <<sessions, done, monitor, alive>>
    PROVE  SessionsOK'
  BY DEF SessionsOK, SessionsOpen

(* What touches neither requests nor the configuration keeps theirs.       *)
LEMMA RequestFrame ==
    ASSUME RequestsOK, UNCHANGED <<config, holder, request>>
    PROVE  RequestsOK'
  BY DEF RequestsOK, RequestOK, config

(* Discarding: the cache, its timer and the identity go together.          *)
LEMMA ClearCacheKeeps ==
    ASSUME CacheOK, ClearCache, UNCHANGED callbacks,
           unlockFor' \in 0 .. MaxDuration, unlockScope' \in Scopes
    PROVE  CacheOK'
  <1>1. DOMAIN authorized' = {} /\ authorized' = [k \in DOMAIN authorized' |-> authorized'[k]]
    BY DEF ClearCache
  <1>2. -1 \in -1 .. MaxDuration
    BY AuthorizationAssumption
  <1>3. CacheIsCurrent' /\ IdentityExpires'
    BY <1>1 DEF ClearCache, CacheIsCurrent, IdentityExpires
  <1> QED
    BY <1>1, <1>2, <1>3 DEF CacheOK, ClearCache

(* Scheduling the expiry of entries that are current.                      *)
LEMMA ScheduleKeeps ==
    ASSUME CacheOK, NEW entries, NEW identity \in BOOLEAN,
           ScheduleIdentityExpiry(entries, identity),
           entries = [k \in DOMAIN entries |-> entries[k]],
           DOMAIN entries \subseteq AuthorizationKeys,
           \A k \in DOMAIN entries :
              /\ entries[k] \in Entry /\ entries[k].stale = {}
              /\ k[1] = unlockScope /\ entries[k].left <= unlockFor /\ unlockFor > 0,
           watched' \subseteq AuthorizationKeys, callbacks' \in 0 .. MaxCallbacks,
           UNCHANGED config
    PROVE  CacheOK'
  <1>1. entries = <<>> <=> DOMAIN entries = {}
    BY EmptyFunction
  <1>2. \A k \in DOMAIN entries : entries[k].left \in 0 .. MaxDuration
    BY DEF Entry
  <1>3. entries # <<>> => Latest(entries) \in 0 .. MaxDuration
    BY <1>1, <1>2, LatestIs
  <1>4. /\ authorized' = entries
        /\ unlockTimer' = IF entries = <<>> THEN -1 ELSE Latest(entries)
        /\ cachedIdentity' = (identity /\ entries # <<>>)
    BY DEF ScheduleIdentityExpiry
  <1>5. unlockTimer' \in -1 .. MaxDuration
    BY <1>3, <1>4, AuthorizationAssumption
  <1>6. Latest(authorized)' = Latest(entries)
    BY <1>4 DEF Latest
  <1>7. IdentityExpires'
    BY <1>4, <1>6 DEF IdentityExpires
  <1>8. CacheIsCurrent'
    BY <1>4 DEF CacheIsCurrent, config
  <1> QED
    BY <1>4, <1>5, <1>7, <1>8 DEF CacheOK, config

(* What removeExpiredAuthorizationsLocked leaves.                          *)
LEMMA UnexpiredIs ==
    ASSUME CacheOK
    PROVE  /\ Unexpired = [k \in DOMAIN Unexpired |-> Unexpired[k]]
           /\ DOMAIN Unexpired \subseteq DOMAIN authorized
           /\ DOMAIN Unexpired = {k \in DOMAIN authorized : authorized[k].left > 0}
           /\ \A k \in DOMAIN Unexpired : Unexpired[k] = authorized[k]
  BY DEF Unexpired

(* Dropping expired authorizations does not change when the last expires.  *)
LEMMA UnexpiredLatest ==
    ASSUME CacheOK, Unexpired # <<>>
    PROVE  Latest(Unexpired) = Latest(authorized)
  <1>1. \A k \in DOMAIN authorized : authorized[k].left \in 0 .. MaxDuration
    BY DEF CacheOK, Entry
  <1>2. DOMAIN Unexpired # {}
    BY UnexpiredIs, EmptyFunction
  <1>3. \A k \in DOMAIN Unexpired : Unexpired[k].left \in 0 .. MaxDuration
    BY <1>1, UnexpiredIs
  <1>4. DOMAIN authorized # {}
    BY <1>2, UnexpiredIs
  <1>5. PICK k \in DOMAIN authorized : Latest(authorized) = authorized[k].left
    BY <1>1, <1>4, LatestIs
  <1>6. \A x \in DOMAIN authorized : authorized[x].left <= Latest(authorized)
    BY <1>1, <1>4, LatestIs
  <1>7. Latest(authorized) > 0
    BY <1>1, <1>2, <1>5, <1>6, UnexpiredIs, AuthorizationAssumption
  <1>8. k \in DOMAIN Unexpired
    BY <1>5, <1>7, UnexpiredIs
  <1> QED
    BY <1>3, <1>5, <1>6, <1>8, UnexpiredIs, LatestUnique

(* The lookup drops expired authorizations and keeps the timer.            *)
LEMMA DropExpiredKeeps ==
    ASSUME CacheOK, DropExpired, UNCHANGED <<config, callbacks>>
    PROVE  CacheOK'
  <1>1. /\ authorized' = Unexpired
        /\ cachedIdentity' = (cachedIdentity /\ Unexpired # <<>>)
        /\ watched' = watched \cap DOMAIN Unexpired
        /\ UNCHANGED <<unlockTimer, unlockFor, unlockScope, callbacks>>
    BY DEF DropExpired, config
  <1>2. Latest(authorized)' = Latest(Unexpired)
    BY <1>1 DEF Latest
  <1>3. IdentityExpires'
    BY <1>1, <1>2, UnexpiredLatest DEF CacheOK, IdentityExpires
  <1>4. CacheIsCurrent'
    BY <1>1, UnexpiredIs DEF CacheOK, CacheIsCurrent
  <1> QED
    BY <1>1, <1>3, <1>4, UnexpiredIs DEF CacheOK

(* Closing the sessions of S closes their channels and nobody else's.      *)
LEMMA CloseKeeps ==
    ASSUME SessionsOK, NEW S, Close(S), alive' \subseteq Pids,
           DOMAIN monitor' \subseteq Tokens,
           \A t \in DOMAIN monitor' : monitor'[t] \in [ownerPID : Pids, exited : BOOLEAN]
    PROVE  SessionsOK'
  <1>1. /\ DOMAIN sessions' = DOMAIN sessions \ S
        /\ \A t \in DOMAIN sessions' : sessions'[t] = sessions[t]
    BY DEF Close, Without, Restrict
  <1>2. done' = [t \in Tokens |-> IF t \in S THEN "closed" ELSE done[t]]
    BY DEF Close
  <1>3. done' \in [Tokens -> {"none", "open", "closed"}]
    BY <1>2 DEF SessionsOK
  <1>4. SessionsOpen'
    BY <1>1, <1>2 DEF SessionsOK, SessionsOpen
  <1> QED
    BY <1>1, <1>3, <1>4 DEF SessionsOK

(* Only request r and what it holds change.                                *)
LEMMA RequestSteps ==
    ASSUME RequestsOK, NEW r \in Requests, NEW q,
           request' = [request EXCEPT ![r] = q],
           UNCHANGED config,
           \/ holder' = holder
           \/ holder \in {Nil, r} /\ holder' \in Requests \cup {Nil},
           RequestOK(r)'
    PROVE  RequestsOK'
  <1>1. holder' \in Requests \cup {Nil}
    BY DEF RequestsOK
  <1>2. /\ request' = [x \in Requests |-> request'[x]]
        /\ \A x \in Requests : x # r => request'[x] = request[x]
    BY DEF RequestsOK
  <1>3. ASSUME NEW x \in Requests, x # r PROVE RequestOK(x)'
    <2>1. request'[x] = request[x] /\ UNCHANGED <<unlockFor, unlockScope>>
      BY <1>2, <1>3 DEF config
    <2>2. holder = x => holder' = x
      BY <1>3, AuthorizationAssumption
    <2> QED
      BY <1>3, <2>1, <2>2 DEF RequestsOK, RequestOK
  <1> QED
    BY <1>1, <1>2, <1>3 DEF RequestsOK

(* Idle is a fine state of a request.                                      *)
LEMMA IdleOK ==
    ASSUME NEW r \in Requests, request'[r] = Idle
    PROVE  RequestOK(r)'
  <1>1. Idle \in RequestState
    BY DEF Idle, RequestState
  <1> QED
    BY <1>1 DEF RequestOK, Idle

(* A request that has the identity ends, or goes on to insert a session.   *)
LEMMA ProceedOK ==
    ASSUME RequestsOK, NEW r \in Requests, NEW stale \in SUBSET Discards,
           Proceed(r, stale)
    PROVE  RequestOK(r)'
  <1>1. RequestOK(r) /\ request[r] \in RequestState
    BY DEF RequestsOK, RequestOK
  <1>2. CASE request[r].kind = "open"
    <2>1. request'[r] = Idle
      BY <1>2 DEF Proceed, RequestsOK
    <2> QED
      BY <2>1, IdleOK
  <1>3. CASE request[r].kind # "open"
    <2>1. request'[r] = [request[r] EXCEPT !.step = "insert", !.scoped = Nil,
                                           !.stale = stale]
      BY <1>3 DEF Proceed, RequestsOK
    <2>2. /\ request'[r] \in RequestState /\ request'[r].step = "insert"
          /\ request'[r].kind = request[r].kind
          /\ request'[r].pid = request[r].pid
          /\ request'[r].token = request[r].token
      BY <1>1, <2>1 DEF RequestState
    <2> QED
      BY <1>1, <1>3, <2>2 DEF RequestOK
  <1> QED
    BY <1>2, <1>3

(* A discard outdates approvals; none of them is going to be cached.       *)
LEMMA OutdateKeeps ==
    ASSUME RequestsOK, NEW d \in Discards, holder = Nil, request' = Outdate(d),
           UNCHANGED <<config, holder>>
    PROVE  RequestsOK'
  <1>1. request' = [r \in Requests |-> request'[r]]
    BY DEF Outdate
  <1>2. ASSUME NEW r \in Requests PROVE RequestOK(r)'
    <2>1. RequestOK(r) /\ request[r] \in RequestState
      BY DEF RequestsOK, RequestOK
    <2>2. CASE request[r].step \in {"granted", "insert"}
      <3>1. request'[r] = [request[r] EXCEPT !.stale = @ \cup {d}]
        BY <2>2 DEF Outdate
      <3>2. request[r].step = "insert"
        BY <2>1, <2>2, AuthorizationAssumption DEF RequestOK
      <3>3. /\ request'[r] \in RequestState /\ request'[r].step = "insert"
            /\ request'[r].kind = request[r].kind
            /\ request'[r].pid = request[r].pid
            /\ request'[r].token = request[r].token
        BY <2>1, <3>1, <3>2 DEF RequestState
      <3> QED
        BY <2>1, <3>2, <3>3 DEF RequestOK
    <2>3. CASE request[r].step \notin {"granted", "insert"}
      <3>1. request'[r] = request[r]
        BY <2>3 DEF Outdate
      <3> QED
        BY <2>1, <3>1 DEF RequestOK, config
    <2> QED
      BY <2>2, <2>3
  <1> QED
    BY <1>1, <1>2 DEF RequestsOK

-----------------------------------------------------------------------------
(* One lemma per action.                                                   *)

(* The broker starts without cache, sessions or requests.                  *)
LEMMA InitIInv == Init => IInv
  <1> SUFFICES ASSUME Init PROVE IInv
    OBVIOUS
  <1> USE DEF Init
  <1>1. DOMAIN <<>> = {} /\ <<>> = [k \in {} |-> <<>>[k]]
    OBVIOUS
  <1>2. -1 \in -1 .. MaxDuration /\ 0 \in 0 .. MaxCallbacks
    BY AuthorizationAssumption
  <1>3. CacheOK
    BY <1>1, <1>2 DEF CacheOK, CacheIsCurrent, IdentityExpires
  <1>4. SessionsOK
    BY <1>1 DEF SessionsOK, SessionsOpen
  <1>5. Idle \in RequestState
    BY DEF Idle, RequestState
  <1>6. \A r \in Requests : RequestOK(r)
    BY <1>5 DEF RequestOK, Idle
  <1>7. RequestsOK
    BY <1>6 DEF RequestsOK
  <1> QED
    BY <1>3, <1>4, <1>7 DEF IInv

(* A request begins at the check, with nothing decided.                    *)
LEMMA StartKeeps ==
    ASSUME IInv, NEW r \in Requests, NEW kind \in {"open", "edit", "encrypt"},
           NEW key \in Keys \cup {Nil}, NEW pid \in Pids \cup {Nil},
           NEW token \in Tokens \cup {Nil}, Start(r, kind, key, pid, token)
    PROVE  IInv'
  <1>1. UNCHANGED <<config, holder, cache, callbacks, sessions, done, monitor, alive>>
    BY DEF Start
  <1>2. PICK q : q = [Idle EXCEPT !.step = "check", !.kind = kind, !.key = key,
                                  !.pid = pid, !.token = token]
    OBVIOUS
  <1>3. /\ q \in RequestState /\ q.step = "check" /\ q.stale = {}
        /\ q.kind = kind /\ q.pid = pid /\ q.token = token
    BY <1>2 DEF Idle, RequestState
  <1>4. kind # "open" => pid \in Pids /\ token \in Tokens
    BY DEF Start
  <1>5. request' = [request EXCEPT ![r] = q]
    BY <1>2 DEF Start
  <1>6. request'[r] = q
    BY <1>5 DEF IInv, RequestsOK
  <1>7. RequestOK(r)'
    BY <1>3, <1>4, <1>6 DEF RequestOK
  <1>8. RequestsOK'
    BY <1>1, <1>5, <1>7, RequestSteps DEF IInv
  <1> QED
    BY <1>1, <1>8, CacheFrame, SessionFrame DEF IInv

(* Proceeding when the lock is free or given up.                           *)
LEMMA ProceedKeeps ==
    ASSUME RequestsOK, NEW r \in Requests, NEW stale \in SUBSET Discards,
           Proceed(r, stale), UNCHANGED config,
           holder' = holder \/ (holder = r /\ holder' = Nil)
    PROVE  RequestsOK'
  <1>1. RequestOK(r)'
    BY ProceedOK
  <1>2. PICK q : request' = [request EXCEPT ![r] = q]
    BY DEF Proceed
  <1> QED
    BY <1>1, <1>2, RequestSteps

(* A request that a session serves goes on; sessions of dead owners may    *)
(* end.                                                                    *)
LEMMA CheckSessionsKeeps ==
    ASSUME IInv, NEW r \in Requests, CheckSessions(r)
    PROVE  IInv'
  <1>1. UNCHANGED <<config, holder, cache, callbacks, monitor, alive>>
    BY DEF CheckSessions
  <1>2. PICK t \in DOMAIN sessions, S \in SUBSET DOMAIN sessions :
                                  Close(S) /\ Proceed(r, sessions[t].stale)
    <2>1. /\ ActiveEncrypt(r) \subseteq DOMAIN sessions
          /\ ActiveEdit(r) \subseteq DOMAIN sessions
          /\ DeadEncrypt(r) \subseteq DOMAIN sessions
          /\ DeadEdit(r) \subseteq DOMAIN sessions
      BY DEF ActiveEncrypt, ActiveEdit, DeadEncrypt, DeadEdit, Dead, OfKind
    <2>2. CASE \E t \in ActiveEncrypt(r), met \in SUBSET DeadEncrypt(r) :
                  Close(met) /\ Proceed(r, sessions[t].stale)
      <3>1. PICK t \in ActiveEncrypt(r), met \in SUBSET DeadEncrypt(r) :
                  Close(met) /\ Proceed(r, sessions[t].stale)
        BY <2>2
      <3>2. t \in DOMAIN sessions /\ met \in SUBSET DOMAIN sessions
        BY <2>1
      <3> QED
        BY <3>1, <3>2
    <2>3. CASE \E t \in ActiveEdit(r), met \in SUBSET DeadEdit(r) :
                  Close(met \cup DeadEncrypt(r)) /\ Proceed(r, sessions[t].stale)
      <3>1. PICK t \in ActiveEdit(r), met \in SUBSET DeadEdit(r) :
                  Close(met \cup DeadEncrypt(r)) /\ Proceed(r, sessions[t].stale)
        BY <2>3
      <3>2. /\ t \in DOMAIN sessions
            /\ met \cup DeadEncrypt(r) \in SUBSET DOMAIN sessions
        BY <2>1
      <3> QED
        BY <3>1, <3>2
    <2> QED
      BY <2>2, <2>3 DEF CheckSessions
  <1>3. sessions[t].stale \in SUBSET Discards
    BY DEF IInv, SessionsOK, Session
  <1>4. SessionsOK'
    BY <1>1, <1>2, CloseKeeps DEF IInv, SessionsOK
  <1>5. RequestsOK'
    BY <1>1, <1>2, <1>3, ProceedKeeps DEF IInv
  <1> QED
    BY <1>1, <1>4, <1>5, CacheFrame DEF IInv

(* The key an answer will be cached under.                                 *)
LEMMA AuthorizationKeyIs ==
    ASSUME IInv, NEW r \in Requests, CacheLocked(r),
           NEW key, key = AuthorizationKey(request[r].key, request[r].pid)
    PROVE  key \in AuthorizationKeys /\ key # Nil /\ key[1] = unlockScope /\ unlockFor > 0
  <1>1. request[r].key \in Keys \cup {Nil} /\ request[r].pid \in Pids \cup {Nil}
    BY DEF IInv, RequestsOK, RequestOK, RequestState
  <1>2. key # Nil /\ unlockFor > 0
    BY DEF CacheLocked
  <1>3. \/ key = <<"file", request[r].key>> /\ unlockScope = "file"
           /\ request[r].key # Nil
        \/ key = <<"process", request[r].pid>> /\ unlockScope = "process"
           /\ request[r].pid # Nil
        \/ key = <<"vault", Nil>> /\ unlockScope = "vault"
    BY <1>2 DEF AuthorizationKey
  <1> QED
    BY <1>1, <1>2, <1>3 DEF AuthorizationKeys

(* Where no session serves, those of dead owners end and no other.         *)
LEMMA NoSessionKeeps ==
    ASSUME IInv, NEW r \in Requests, NoSession(r), UNCHANGED <<monitor, alive>>
    PROVE  SessionsOK'
  BY CloseKeeps DEF NoSession, IInv, SessionsOK

(* The request that asks the user.                                         *)
LEMMA PromptingIs ==
    ASSUME IInv, NEW r \in Requests, request[r].step = "check",
           NEW scoped \in AuthorizationKeys \cup {Nil}, Prompting(r, scoped)
    PROVE  /\ \E q : request' = [request EXCEPT ![r] = q]
           /\ request'[r] \in RequestState /\ request'[r].step = "prompt"
           /\ request'[r].scoped = scoped /\ request'[r].stale = {}
           /\ request'[r].kind = request[r].kind
           /\ request'[r].pid = request[r].pid /\ request'[r].token = request[r].token
  <1>1. RequestOK(r) /\ request[r] \in RequestState
    BY DEF IInv, RequestsOK, RequestOK
  <1>2. request'[r] = [request[r] EXCEPT !.step = "prompt", !.scoped = scoped]
    BY DEF Prompting, IInv, RequestsOK
  <1>3. request[r].stale = {}
    BY <1>1 DEF RequestOK
  <1>4. /\ request'[r] \in RequestState /\ request'[r].step = "prompt"
        /\ request'[r].scoped = scoped /\ request'[r].stale = {}
        /\ request'[r].kind = request[r].kind
        /\ request'[r].pid = request[r].pid /\ request'[r].token = request[r].token
    BY <1>1, <1>2, <1>3 DEF RequestState
  <1>5. \E q : request' = [request EXCEPT ![r] = q]
    BY DEF Prompting
  <1> QED
    BY <1>4, <1>5

(* The lookup uses a live authorization, or asks with unlockMu locked.     *)
LEMMA CheckCacheKeeps ==
    ASSUME IInv, NEW r \in Requests, CheckCache(r)
    PROVE  IInv'
  <1>1. /\ NoSession(r) /\ CacheLocked(r) /\ DropExpired
        /\ UNCHANGED <<config, callbacks, monitor, alive>>
        /\ request[r].step = "check" /\ holder = Nil
    BY DEF CheckCache, NoSession, Checking
  <1>2. CacheOK' /\ SessionsOK'
    BY <1>1, DropExpiredKeeps, NoSessionKeeps DEF IInv
  <1>3. PICK key : key = AuthorizationKey(request[r].key, request[r].pid)
    OBVIOUS
  <1>4. CASE key \in DOMAIN Unexpired /\ Proceed(r, Unexpired[key].stale) /\ UNCHANGED holder
    <2>1. Unexpired[key] \in Entry
      BY <1>4, UnexpiredIs DEF IInv, CacheOK
    <2>2. Unexpired[key].stale \in SUBSET Discards
      BY <2>1 DEF Entry
    <2>3. RequestsOK'
      BY <1>1, <1>4, <2>2, ProceedKeeps DEF IInv
    <2> QED
      BY <1>2, <2>3 DEF IInv
  <1>5. CASE Prompting(r, key) /\ holder' = r
    <2>1. key \in AuthorizationKeys /\ key # Nil /\ key[1] = unlockScope /\ unlockFor > 0
      BY <1>1, <1>3, AuthorizationKeyIs
    <2>2. /\ \E q : request' = [request EXCEPT ![r] = q]
          /\ request'[r] \in RequestState /\ request'[r].step = "prompt"
          /\ request'[r].scoped = key /\ request'[r].stale = {}
          /\ request'[r].kind = request[r].kind
          /\ request'[r].pid = request[r].pid /\ request'[r].token = request[r].token
      BY <1>1, <1>5, <2>1, PromptingIs
    <2>3. RequestOK(r)'
      BY <1>1, <1>5, <2>1, <2>2 DEF IInv, RequestsOK, RequestOK, config
    <2>4. RequestsOK'
      BY <1>1, <1>5, <2>2, <2>3, RequestSteps DEF IInv
    <2> QED
      BY <1>2, <2>4 DEF IInv
  <1> QED
    BY <1>3, <1>4, <1>5 DEF CheckCache

(* A request whose answer is not cached goes to the prompt.                *)
LEMMA CheckUncachedKeeps ==
    ASSUME IInv, NEW r \in Requests, CheckUncached(r)
    PROVE  IInv'
  <1>1. /\ NoSession(r) /\ Prompting(r, Nil)
        /\ UNCHANGED <<config, holder, cache, callbacks, monitor, alive>>
        /\ request[r].step = "check"
    BY DEF CheckUncached, NoSession, Checking
  <1>2. CacheOK' /\ SessionsOK'
    BY <1>1, CacheFrame, NoSessionKeeps DEF IInv
  <1>3. /\ \E q : request' = [request EXCEPT ![r] = q]
        /\ request'[r] \in RequestState /\ request'[r].step = "prompt"
        /\ request'[r].scoped = Nil /\ request'[r].stale = {}
        /\ request'[r].kind = request[r].kind
        /\ request'[r].pid = request[r].pid /\ request'[r].token = request[r].token
    BY <1>1, PromptingIs
  <1>4. RequestOK(r)'
    BY <1>3 DEF IInv, RequestsOK, RequestOK
  <1>5. RequestsOK'
    BY <1>1, <1>3, <1>4, RequestSteps DEF IInv
  <1> QED
    BY <1>2, <1>5 DEF IInv

(* A refusal ends the request and frees the lock it may have.              *)
LEMMA PromptRefusedKeeps ==
    ASSUME IInv, NEW r \in Requests, PromptRefused(r)
    PROVE  IInv'
  <1>1. /\ UNCHANGED <<config, cache, callbacks, sessions, done, monitor, alive>>
        /\ request' = [request EXCEPT ![r] = Idle]
        /\ holder' = holder \/ (holder = r /\ holder' = Nil)
    BY DEF PromptRefused
  <1>2. request'[r] = Idle
    BY <1>1 DEF IInv, RequestsOK
  <1>3. RequestsOK'
    BY <1>1, <1>2, IdleOK, RequestSteps DEF IInv
  <1> QED
    BY <1>1, <1>3, CacheFrame, SessionFrame DEF IInv

(* An approval waits to be stored, or is used at once.                     *)
LEMMA PromptApprovedKeeps ==
    ASSUME IInv, NEW r \in Requests, PromptApproved(r)
    PROVE  IInv'
  <1>1. /\ UNCHANGED <<config, holder, cache, callbacks, sessions, done, monitor, alive>>
        /\ request[r].step = "prompt"
    BY DEF PromptApproved
  <1>2. CASE request[r].scoped = Nil
    <2>1. Proceed(r, {})
      BY <1>2 DEF PromptApproved
    <2> QED
      BY <1>1, <2>1, ProceedKeeps, CacheFrame, SessionFrame DEF IInv
  <1>3. CASE request[r].scoped # Nil
    <2>1. request' = [request EXCEPT ![r] = [@ EXCEPT !.step = "granted"]]
      BY <1>3 DEF PromptApproved
    <2>2. RequestOK(r) /\ request[r] \in RequestState
      BY DEF IInv, RequestsOK, RequestOK
    <2>3. request'[r] = [request[r] EXCEPT !.step = "granted"]
      BY <2>1 DEF IInv, RequestsOK
    <2>4. /\ request'[r] \in RequestState /\ request'[r].step = "granted"
          /\ request'[r].scoped = request[r].scoped
          /\ request'[r].stale = request[r].stale
          /\ request'[r].kind = request[r].kind
          /\ request'[r].pid = request[r].pid /\ request'[r].token = request[r].token
      BY <2>2, <2>3 DEF RequestState
    <2>5. RequestOK(r)'
      BY <1>1, <1>3, <2>2, <2>4 DEF RequestOK, config
    <2>6. RequestsOK'
      BY <1>1, <2>1, <2>5, RequestSteps DEF IInv
    <2> QED
      BY <1>1, <2>6, CacheFrame, SessionFrame DEF IInv
  <1> QED
    BY <1>2, <1>3

(* The approval was asked for under the lock that is still held: it is     *)
(* current, and so is the cache with it.                                   *)
LEMMA StoreAuthorizationKeeps ==
    ASSUME IInv, NEW r \in Requests, StoreAuthorization(r)
    PROVE  IInv'
  <1>1. /\ UNCHANGED <<config, callbacks, sessions, done, monitor, alive>>
        /\ request[r].step = "granted" /\ Proceed(r, request[r].stale)
        /\ holder' = Nil
    BY DEF StoreAuthorization
  <1>2. RequestOK(r) /\ request[r] \in RequestState
    BY DEF IInv, RequestsOK, RequestOK
  <1>3. /\ request[r].scoped # Nil /\ holder = r /\ request[r].stale = {}
        /\ request[r].scoped[1] = unlockScope /\ unlockFor > 0
    BY <1>1, <1>2 DEF RequestOK
  <1>4. request[r].scoped \in AuthorizationKeys
    BY <1>2, <1>3 DEF RequestState
  <1>5. RequestsOK'
    BY <1>1, <1>3, ProceedKeeps DEF IInv
  <1>6. PICK key, entry : /\ key = request[r].scoped
                          /\ entry = [left |-> unlockFor, stale |-> request[r].stale]
    OBVIOUS
  <1>7. entry \in Entry /\ entry.stale = {} /\ entry.left = unlockFor
    BY <1>3, <1>6 DEF Entry, IInv, CacheOK
  <1>8. PICK entries : entries = With(authorized, key, entry)
    OBVIOUS
  <1>9. /\ DOMAIN entries = DOMAIN authorized \cup {key}
        /\ entries = [k \in DOMAIN entries |-> entries[k]]
        /\ entries[key] = entry
        /\ \A k \in DOMAIN authorized : k # key => entries[k] = authorized[k]
    BY <1>8 DEF With
  <1>10. \A k \in DOMAIN entries :
              /\ entries[k] \in Entry /\ entries[k].stale = {}
              /\ k[1] = unlockScope /\ entries[k].left <= unlockFor /\ unlockFor > 0
    BY <1>3, <1>6, <1>7, <1>9, AuthorizationAssumption DEF IInv, CacheOK, CacheIsCurrent
  <1>11. /\ ScheduleIdentityExpiry(entries, TRUE)
         /\ watched' \subseteq AuthorizationKeys
    BY <1>4, <1>6, <1>8 DEF StoreAuthorization, IInv, CacheOK
  <1>12. DOMAIN entries \subseteq AuthorizationKeys /\ callbacks' \in 0 .. MaxCallbacks
    BY <1>1, <1>4, <1>6, <1>9 DEF IInv, CacheOK
  <1>13. CacheOK'
    BY <1>1, <1>9, <1>10, <1>11, <1>12, ScheduleKeeps DEF IInv
  <1> QED
    BY <1>1, <1>5, <1>13, SessionFrame DEF IInv

(* The inserted session is the caller's and its channel is new.            *)
LEMMA InsertSessionKeeps ==
    ASSUME IInv, NEW r \in Requests, InsertSession(r)
    PROVE  IInv'
  <1>1. /\ UNCHANGED <<config, holder, cache, callbacks, alive>>
        /\ request[r].step = "insert" /\ request' = [request EXCEPT ![r] = Idle]
    BY DEF InsertSession
  <1>2. RequestOK(r) /\ request[r] \in RequestState
    BY DEF IInv, RequestsOK, RequestOK
  <1>3. request[r].kind # "open" /\ request[r].pid \in Pids /\ request[r].token \in Tokens
    BY <1>1, <1>2 DEF RequestOK
  <1>4. PICK t, s, m :
          /\ t = request[r].token
          /\ s = [kind |-> request[r].kind, key |-> request[r].key,
                  ownerPID |-> request[r].pid, stale |-> request[r].stale]
          /\ m = [ownerPID |-> request[r].pid, exited |-> FALSE]
    OBVIOUS
  <1>5. s \in Session /\ m \in [ownerPID : Pids, exited : BOOLEAN]
    BY <1>2, <1>3, <1>4 DEF Session, RequestState
  <1>6. /\ sessions' = With(sessions, t, s) /\ monitor' = With(monitor, t, m)
        /\ done' = [done EXCEPT ![t] = "open"]
    BY <1>4 DEF InsertSession
  <1>7. SessionsOK'
    BY <1>1, <1>3, <1>4, <1>5, <1>6 DEF IInv, SessionsOK, SessionsOpen, With
  <1>8. request'[r] = Idle
    BY <1>1 DEF IInv, RequestsOK
  <1>9. RequestsOK'
    BY <1>1, <1>8, IdleOK, RequestSteps DEF IInv
  <1> QED
    BY <1>1, <1>7, <1>9, CacheFrame DEF IInv

(* The owner ends a session: token and channel go together.                *)
LEMMA EndSessionKeeps ==
    ASSUME IInv, NEW t \in Tokens, EndSession(t)
    PROVE  IInv'
  <1>1. /\ UNCHANGED <<config, holder, cache, callbacks, monitor, alive, request>>
        /\ Close({t})
    BY DEF EndSession
  <1>2. SessionsOK'
    BY <1>1, CloseKeeps DEF IInv, SessionsOK
  <1> QED
    BY <1>1, <1>2, CacheFrame, RequestFrame DEF IInv

(* A monitor whose session has ended returns.                              *)
LEMMA MonitorReturnsKeeps ==
    ASSUME IInv, NEW t \in Tokens, MonitorReturns(t)
    PROVE  IInv'
  <1>1. /\ UNCHANGED <<config, holder, cache, callbacks, sessions, done, alive, request>>
        /\ monitor' = Without(monitor, {t})
    BY DEF MonitorReturns
  <1>2. SessionsOK'
    BY <1>1 DEF IInv, SessionsOK, SessionsOpen, Without, Restrict
  <1> QED
    BY <1>1, <1>2, CacheFrame, RequestFrame DEF IInv

(* A monitor notices that the process of its session has ended.            *)
LEMMA MonitorSeesExitKeeps ==
    ASSUME IInv, NEW t \in Tokens, MonitorSeesExit(t)
    PROVE  IInv'
  <1>1. /\ UNCHANGED <<config, holder, cache, callbacks, sessions, done, alive, request>>
        /\ t \in DOMAIN monitor /\ monitor' = [monitor EXCEPT ![t].exited = TRUE]
    BY DEF MonitorSeesExit
  <1>2. SessionsOK'
    BY <1>1 DEF IInv, SessionsOK, SessionsOpen
  <1> QED
    BY <1>1, <1>2, CacheFrame, RequestFrame DEF IInv

(* A monitor ends the session of an exited owner unless it is gone.        *)
LEMMA MonitorEndsSessionKeeps ==
    ASSUME IInv, NEW t \in Tokens, MonitorEndsSession(t)
    PROVE  IInv'
  <1>1. /\ UNCHANGED <<config, holder, cache, callbacks, alive, request>>
        /\ Close({t} \cap DOMAIN sessions) /\ monitor' = Without(monitor, {t})
    BY DEF MonitorEndsSession
  <1>2. /\ DOMAIN monitor' \subseteq Tokens
        /\ \A x \in DOMAIN monitor' : monitor'[x] \in [ownerPID : Pids, exited : BOOLEAN]
    BY <1>1 DEF IInv, SessionsOK, Without, Restrict
  <1>3. SessionsOK'
    BY <1>1, <1>2, CloseKeeps DEF IInv, SessionsOK
  <1> QED
    BY <1>1, <1>3, CacheFrame, RequestFrame DEF IInv

(* Every session is closed, once, and the cache is emptied.                *)
LEMMA LockKeeps ==
    ASSUME IInv, Lock
    PROVE  IInv'
  <1>1. /\ holder = Nil /\ ClearCache /\ Close(DOMAIN sessions)
        /\ request' = Outdate("lock")
        /\ UNCHANGED <<config, holder, callbacks, monitor, alive>>
    BY DEF Lock
  <1>2. CacheOK'
    BY <1>1, ClearCacheKeeps DEF IInv, CacheOK, config
  <1>3. SessionsOK'
    BY <1>1, CloseKeeps DEF IInv, SessionsOK
  <1>4. RequestsOK'
    BY <1>1, OutdateKeeps DEF IInv, Discards
  <1> QED
    BY <1>2, <1>3, <1>4 DEF IInv

(* A new prompter discards the cache and outdates waiting approvals.       *)
LEMMA ConfigurePrompterKeeps ==
    ASSUME IInv, ConfigurePrompter
    PROVE  IInv'
  <1>1. /\ holder = Nil /\ ClearCache /\ request' = Outdate("prompter")
        /\ UNCHANGED <<config, holder, callbacks, sessions, done, monitor, alive>>
    BY DEF ConfigurePrompter
  <1>2. CacheOK'
    BY <1>1, ClearCacheKeeps DEF IInv, CacheOK, config
  <1>3. RequestsOK'
    BY <1>1, OutdateKeeps DEF IInv, Discards
  <1> QED
    BY <1>1, <1>2, <1>3, SessionFrame DEF IInv

(* The configuration changes only when no request is going to cache an     *)
(* answer.                                                                 *)
LEMMA ConfigureAuthorizationKeeps ==
    ASSUME IInv, NEW duration \in 0 .. MaxDuration, NEW scope \in Scopes,
           ConfigureAuthorization(duration, scope)
    PROVE  IInv'
  <1>1. /\ holder = Nil /\ ClearCache /\ unlockFor' = duration /\ unlockScope' = scope
        /\ UNCHANGED <<holder, callbacks, sessions, done, monitor, alive, request>>
    BY DEF ConfigureAuthorization
  <1>2. CacheOK'
    BY <1>1, ClearCacheKeeps DEF IInv
  <1>3. RequestsOK'
    BY <1>1, AuthorizationAssumption DEF IInv, RequestsOK, RequestOK
  <1> QED
    BY <1>1, <1>2, <1>3, SessionFrame DEF IInv

(* A timer that ran down has become a callback.                            *)
LEMMA TimerFiresKeeps ==
    ASSUME IInv, TimerFires
    PROVE  IInv'
  <1>1. /\ callbacks < MaxCallbacks /\ unlockTimer' = -1 /\ callbacks' = callbacks + 1
        /\ UNCHANGED <<config, holder, cachedIdentity, authorized, sessions, done,
                       monitor, watched, alive, request>>
    BY DEF TimerFires
  <1>2. callbacks' \in 0 .. MaxCallbacks /\ callbacks' > 0 /\ unlockTimer' \in -1 .. MaxDuration
    BY <1>1, AuthorizationAssumption DEF IInv, CacheOK
  <1>3. CacheIsCurrent' /\ IdentityExpires'
    BY <1>1, <1>2 DEF IInv, CacheOK, CacheIsCurrent, IdentityExpires, config
  <1>4. CacheOK'
    BY <1>1, <1>2, <1>3 DEF IInv, CacheOK, config
  <1> QED
    BY <1>1, <1>4, SessionFrame, RequestFrame DEF IInv

(* The callback schedules the expiry of what it left.                      *)
LEMMA ExpireCachedIdentityKeeps ==
    ASSUME IInv, ExpireCachedIdentity
    PROVE  IInv'
  <1>1. /\ callbacks > 0 /\ callbacks' \in {callbacks, callbacks - 1}
        /\ ScheduleIdentityExpiry(Unexpired, cachedIdentity)
        /\ watched' = watched \cap DOMAIN Unexpired
        /\ UNCHANGED <<config, holder, sessions, done, monitor, alive, request>>
    BY DEF ExpireCachedIdentity
  <1>2. callbacks' \in 0 .. MaxCallbacks
    BY <1>1, AuthorizationAssumption DEF IInv, CacheOK
  <1>3. PICK entries : entries = Unexpired
    OBVIOUS
  <1>4. /\ entries = [k \in DOMAIN entries |-> entries[k]]
        /\ DOMAIN entries \subseteq AuthorizationKeys
        /\ \A k \in DOMAIN entries :
              /\ entries[k] \in Entry /\ entries[k].stale = {}
              /\ k[1] = unlockScope /\ entries[k].left <= unlockFor /\ unlockFor > 0
    BY <1>3, UnexpiredIs DEF IInv, CacheOK, CacheIsCurrent
  <1>5. cachedIdentity \in BOOLEAN /\ watched' \subseteq AuthorizationKeys
    BY <1>1 DEF IInv, CacheOK
  <1>6. CacheOK'
    BY <1>1, <1>2, <1>3, <1>4, <1>5, ScheduleKeeps DEF IInv
  <1> QED
    BY <1>1, <1>6, SessionFrame, RequestFrame DEF IInv

(* The watcher of a process drops the authorization of that process only.  *)
LEMMA ExpireProcessAuthorizationKeeps ==
    ASSUME IInv, NEW key \in AuthorizationKeys, ExpireProcessAuthorization(key)
    PROVE  IInv'
  <1>1. /\ ScheduleIdentityExpiry(Without(authorized, {key}), cachedIdentity)
        /\ watched' = watched \ {key}
        /\ UNCHANGED <<config, holder, callbacks, sessions, done, monitor, alive, request>>
    BY DEF ExpireProcessAuthorization
  <1>2. PICK entries : entries = Without(authorized, {key})
    OBVIOUS
  <1>3. /\ entries = [k \in DOMAIN entries |-> entries[k]]
        /\ DOMAIN entries = DOMAIN authorized \ {key}
        /\ \A k \in DOMAIN entries : entries[k] = authorized[k]
    BY <1>2 DEF Without, Restrict
  <1>4. /\ DOMAIN entries \subseteq AuthorizationKeys
        /\ \A k \in DOMAIN entries :
              /\ entries[k] \in Entry /\ entries[k].stale = {}
              /\ k[1] = unlockScope /\ entries[k].left <= unlockFor /\ unlockFor > 0
    BY <1>3 DEF IInv, CacheOK, CacheIsCurrent
  <1>5. /\ cachedIdentity \in BOOLEAN /\ watched' \subseteq AuthorizationKeys
        /\ callbacks' \in 0 .. MaxCallbacks
    BY <1>1 DEF IInv, CacheOK
  <1>6. CacheOK'
    BY <1>1, <1>2, <1>3, <1>4, <1>5, ScheduleKeeps DEF IInv
  <1> QED
    BY <1>1, <1>6, SessionFrame, RequestFrame DEF IInv

(* A watcher whose authorization has run out stops.                        *)
LEMMA WatcherStopsKeeps ==
    ASSUME IInv, NEW key \in AuthorizationKeys, WatcherStops(key)
    PROVE  IInv'
  <1>1. /\ watched' = watched \ {key}
        /\ UNCHANGED <<config, holder, cachedIdentity, authorized, unlockTimer,
                       callbacks, sessions, done, monitor, alive, request>>
    BY DEF WatcherStops
  <1>2. CacheOK'
    BY <1>1 DEF IInv, CacheOK, CacheIsCurrent, IdentityExpires, config
  <1> QED
    BY <1>1, <1>2, SessionFrame, RequestFrame DEF IInv

(* Time passes for the timer as for the last authorization.                *)
LEMMA TickKeeps ==
    ASSUME IInv, Tick
    PROVE  IInv'
  <1>1. /\ authorized' = [k \in DOMAIN authorized |->
                            [authorized[k] EXCEPT !.left = Less(@)]]
        /\ unlockTimer' = Less(unlockTimer)
        /\ UNCHANGED <<config, holder, cachedIdentity, callbacks, sessions, done,
                       monitor, watched, alive, request>>
    BY DEF Tick
  <1>2. /\ MaxDuration \in Nat /\ DOMAIN authorized' = DOMAIN authorized
        /\ authorized' = [k \in DOMAIN authorized' |-> authorized'[k]]
    BY <1>1, AuthorizationAssumption
  <1>3. ASSUME NEW k \in DOMAIN authorized
        PROVE  /\ authorized[k].left \in 0 .. MaxDuration
               /\ authorized'[k] \in Entry /\ authorized'[k].stale = authorized[k].stale
               /\ authorized'[k].left = Less(authorized[k].left)
               /\ authorized'[k].left <= authorized[k].left
    <2>1. authorized[k] \in Entry /\ authorized[k].left \in 0 .. MaxDuration
      BY DEF IInv, CacheOK, Entry
    <2>2. /\ Less(authorized[k].left) \in 0 .. MaxDuration
          /\ Less(authorized[k].left) <= authorized[k].left
      BY <1>2, <2>1 DEF Less
    <2>3. authorized'[k] = [authorized[k] EXCEPT !.left = Less(authorized[k].left)]
      BY <1>1
    <2> QED
      BY <2>1, <2>2, <2>3 DEF Entry
  <1>4. unlockFor \in 0 .. MaxDuration /\ unlockTimer \in -1 .. MaxDuration
    BY DEF IInv, CacheOK
  <1>5. CacheIsCurrent'
    <2>1. unlockFor' = unlockFor /\ unlockScope' = unlockScope
      BY <1>1 DEF config
    <2> SUFFICES ASSUME NEW k \in DOMAIN authorized
                 PROVE  /\ k[1] = unlockScope /\ authorized'[k].stale = {}
                        /\ authorized'[k].left <= unlockFor /\ unlockFor > 0
      BY <1>2, <2>1 DEF CacheIsCurrent
    <2>2. /\ k[1] = unlockScope /\ authorized[k].stale = {}
          /\ authorized[k].left <= unlockFor /\ unlockFor > 0
      BY DEF IInv, CacheOK, CacheIsCurrent
    <2>3. authorized'[k].left \in 0 .. MaxDuration
      BY <1>3 DEF Entry
    <2> QED
      BY <1>2, <1>3, <1>4, <2>2, <2>3
  <1>6. ASSUME DOMAIN authorized # {}
        PROVE  Latest(authorized)' = Less(Latest(authorized))
    <2>1. PICK k \in DOMAIN authorized : Latest(authorized) = authorized[k].left
      BY <1>3, <1>6, LatestIs
    <2>2. \A x \in DOMAIN authorized : authorized[x].left <= Latest(authorized)
      BY <1>3, <1>6, LatestIs
    <2>3. \A x \in DOMAIN authorized' : authorized'[x].left \in 0 .. MaxDuration
      BY <1>2, <1>3 DEF Entry
    <2>4. authorized'[k].left = Less(Latest(authorized))
      BY <1>3, <2>1
    <2>5. \A x \in DOMAIN authorized' : authorized'[x].left <= Less(Latest(authorized))
      BY <1>2, <1>3, <2>1, <2>2 DEF Less
    <2>6. PICK f : f = authorized'
      OBVIOUS
    <2>7. Latest(f) = Less(Latest(authorized))
      BY <1>2, <2>3, <2>4, <2>5, <2>6, LatestUnique
    <2> QED
      BY <2>6, <2>7 DEF Latest
  <1>7. IdentityExpires'
    <2> SUFFICES ASSUME cachedIdentity'
                 PROVE  authorized' # <<>> /\ (callbacks' > 0 \/ unlockTimer' = Latest(authorized)')
      BY DEF IdentityExpires
    <2>1. authorized # <<>> /\ (callbacks > 0 \/ unlockTimer = Latest(authorized))
      BY <1>1 DEF IInv, CacheOK, IdentityExpires
    <2>2. DOMAIN authorized # {}
      BY <2>1, EmptyFunction DEF IInv, CacheOK
    <2>3. authorized' # <<>>
      BY <1>2, <2>2
    <2> QED
      BY <1>1, <1>6, <2>1, <2>2, <2>3
  <1>8. unlockTimer' \in -1 .. MaxDuration
    BY <1>1, <1>2, <1>4 DEF Less
  <1>9. CacheOK'
    BY <1>1, <1>2, <1>3, <1>5, <1>7, <1>8 DEF IInv, CacheOK, config
  <1> QED
    BY <1>1, <1>9, SessionFrame, RequestFrame DEF IInv

(* Processes come and go without the broker.                               *)
LEMMA ProcessKeeps ==
    ASSUME IInv, NEW p \in Pids, ProcessExits(p) \/ ProcessStarts(p)
    PROVE  IInv'
  <1>1. /\ UNCHANGED <<config, holder, cache, callbacks, sessions, done, monitor, request>>
        /\ alive' \subseteq Pids
    BY DEF ProcessExits, ProcessStarts, IInv, SessionsOK
  <1>2. SessionsOK'
    BY <1>1 DEF IInv, SessionsOK, SessionsOpen
  <1> QED
    BY <1>1, <1>2, CacheFrame, RequestFrame DEF IInv

-----------------------------------------------------------------------------
(* Every step of every request, goroutine and timer keeps the invariant.   *)
LEMMA NextIInv == IInv /\ [Next]_vars => IInv'
  <1> SUFFICES ASSUME IInv, [Next]_vars PROVE IInv'
    OBVIOUS
  <1>1. CASE Next
    BY <1>1, StartKeeps, CheckSessionsKeeps, CheckCacheKeeps, CheckUncachedKeeps,
       PromptRefusedKeeps, PromptApprovedKeeps, StoreAuthorizationKeeps,
       InsertSessionKeeps, EndSessionKeeps, MonitorReturnsKeeps,
       MonitorSeesExitKeeps, MonitorEndsSessionKeeps, LockKeeps,
       ConfigurePrompterKeeps, ConfigureAuthorizationKeeps, TimerFiresKeeps,
       ExpireCachedIdentityKeeps, ExpireProcessAuthorizationKeeps,
       WatcherStopsKeeps, TickKeeps, ProcessKeeps DEF Next
  <1>2. CASE UNCHANGED vars
    BY <1>2, CacheFrame, SessionFrame, RequestFrame DEF vars, config, cache, IInv
  <1> QED
    BY <1>1, <1>2

(* The invariant holds throughout.                                         *)
LEMMA AlwaysIInv == Spec => []IInv
  BY InitIInv, NextIInv, PTL DEF Spec

(* The authorization state keeps its types.                                *)
THEOREM TypeCorrect == Spec => []TypeOK
  <1>1. IInv => TypeOK
    BY DEF IInv, CacheOK, SessionsOK, RequestsOK, RequestOK, TypeOK
  <1> QED
    BY <1>1, AlwaysIInv, PTL

(* No session that can be found has its done channel closed, so whoever    *)
(* ends it next closes the channel for the first time.                     *)
THEOREM NoDoubleClose == Spec => []SessionsOpen
  <1>1. IInv => SessionsOpen
    BY DEF IInv, SessionsOK
  <1> QED
    BY <1>1, AlwaysIInv, PTL

(* Nothing in the cache is older than the last Lock or ConfigurePrompter,  *)
(* outside the configured scope or valid for longer than unlockFor.        *)
THEOREM CacheStaysCurrent == Spec => []CacheIsCurrent
  <1>1. IInv => CacheIsCurrent
    BY DEF IInv, CacheOK
  <1> QED
    BY <1>1, AlwaysIInv, PTL

(* An identity in memory has an authorization, and a timer set to the last *)
(* of them or a callback that is about to look.                            *)
THEOREM IdentityHasExpiry == Spec => []IdentityExpires
  <1>1. IInv => IdentityExpires
    BY DEF IInv, CacheOK
  <1> QED
    BY <1>1, AlwaysIInv, PTL
=============================================================================
