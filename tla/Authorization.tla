---------------------------- MODULE Authorization ----------------------------
(***************************************************************************)
(* Who may use the vault's identity, and for how long: the authorization   *)
(* state of a Volume behind unlockMu (internal/passfs/volume.go).          *)
(*                                                                         *)
(* A request first looks for a session of its caller, then for an          *)
(* unexpired authorization in the cache, and asks the user otherwise.      *)
(* When the answer will be cached unlockMu stays locked while the user is  *)
(* asked; when it will not, nothing is locked, and beginEditSession and    *)
(* beginEncryptSession lock it again to insert what they were given.       *)
(* Time is a countdown: left is what remains of a time.Time or a Timer.    *)
(* A process identifier is not given to another process while the volume   *)
(* still refers to it, and session tokens (16 random bytes) never repeat.  *)
(***************************************************************************)
EXTENDS Integers, FiniteSets, FiniteSetsExt, Functions

CONSTANTS
    Requests,       \* concurrent calls into the filesystem
    Pids,           \* client processes
    Parents,        \* <<p, q>>: q is an ancestor of p
    Keys,           \* cache keys of protected objects
    Tokens,         \* session tokens in use at one time
    Scopes,         \* UnlockScopes that can be configured
    MaxDuration,    \* bound on unlockFor, in ticks
    MaxCallbacks,   \* bound on timer callbacks waiting for unlockMu
    Nil             \* no process, no key, no token, no lock holder

ASSUME AuthorizationAssumption ==
    /\ Scopes \subseteq {"once", "file", "process", "vault"}
    /\ MaxDuration \in Nat /\ MaxCallbacks \in Nat \ {0}
    /\ Parents \subseteq Pids \X Pids
    /\ Nil \notin Requests \cup Pids \cup Keys \cup Tokens

VARIABLES
    unlockFor, unlockScope,     \* the configuration
    holder,         \* the request that holds unlockMu across steps, or Nil
    cachedIdentity, \* whether one is held
    authorized,     \* Volume.authorized
    unlockTimer,    \* ticks left of the timer, -1 when none is running
    callbacks,      \* expireCachedIdentity calls waiting for unlockMu
    sessions,       \* Volume.editSessions and Volume.encryptSessions
    done,           \* state of the done channel of each token's session
    monitor,        \* running monitorEditSession, monitorEncryptSession goroutines
    watched,        \* process authorizations expireProcessAuthorization watches
    alive,          \* running client processes
    request         \* progress of each request

vars == <<unlockFor, unlockScope, holder, cachedIdentity, authorized,
          unlockTimer, callbacks, sessions, done, monitor, watched, alive,
          request>>

cache == <<cachedIdentity, authorized, unlockTimer, watched>>
config == <<unlockFor, unlockScope>>

(* What discards authorizations: Lock, and ConfigurePrompter.              *)
Discards == {"lock", "prompter"}

AuthorizationKeys ==
    ({"file"} \X Keys) \cup ({"process"} \X Pids) \cup {<<"vault", Nil>>}

(* stale: the discards that came after the user's approval (a history      *)
(* value, nothing in the code).                                            *)
Entry == [left : 0 .. MaxDuration, stale : SUBSET Discards]

Session == [kind : {"edit", "encrypt"}, key : Keys \cup {Nil}, ownerPID : Pids,
            stale : SUBSET Discards]

Idle == [step |-> "idle", kind |-> "open", key |-> Nil, pid |-> Nil,
         token |-> Nil, scoped |-> Nil, stale |-> {}]

RequestState == [step : {"idle", "check", "prompt", "granted", "insert"},
                 kind : {"open", "edit", "encrypt"}, key : Keys \cup {Nil},
                 pid : Pids \cup {Nil}, token : Tokens \cup {Nil},
                 scoped : AuthorizationKeys \cup {Nil}, stale : SUBSET Discards]

TypeOK ==
    /\ unlockFor \in 0 .. MaxDuration /\ unlockScope \in Scopes
    /\ holder \in Requests \cup {Nil}
    /\ cachedIdentity \in BOOLEAN
    /\ DOMAIN authorized \subseteq AuthorizationKeys
    /\ \A k \in DOMAIN authorized : authorized[k] \in Entry
    /\ unlockTimer \in -1 .. MaxDuration
    /\ callbacks \in 0 .. MaxCallbacks
    /\ DOMAIN sessions \subseteq Tokens
    /\ \A t \in DOMAIN sessions : sessions[t] \in Session
    /\ done \in [Tokens -> {"none", "open", "closed"}]
    /\ DOMAIN monitor \subseteq Tokens
    /\ \A t \in DOMAIN monitor : monitor[t] \in [ownerPID : Pids, exited : BOOLEAN]
    /\ watched \subseteq AuthorizationKeys
    /\ alive \subseteq Pids
    /\ request \in [Requests -> RequestState]

Init ==
    /\ unlockFor \in 0 .. MaxDuration /\ unlockScope \in Scopes
    /\ holder = Nil
    /\ cachedIdentity = FALSE /\ authorized = <<>>
    /\ unlockTimer = -1 /\ callbacks = 0
    /\ sessions = <<>>
    /\ done = [t \in Tokens |-> "none"]
    /\ monitor = <<>>
    /\ watched = {}
    /\ alive = Pids
    /\ request = [r \in Requests |-> Idle]

-----------------------------------------------------------------------------
(* Helpers.                                                                *)

Without(f, S) == Restrict(f, DOMAIN f \ S)

With(f, x, v) == [y \in DOMAIN f \cup {x} |-> IF y = x THEN v ELSE f[y]]

(* Mutant: a request whose process is unknown is cached like any other.    *)
AuthorizationKeyUnknown(key, pid) ==
    CASE key = Nil -> Nil
      [] key # Nil /\ unlockScope = "file" -> <<"file", key>>
      [] key # Nil /\ unlockScope = "process" -> <<"process", pid>>
      [] key # Nil /\ unlockScope = "vault" -> <<"vault", Nil>>
      [] OTHER -> Nil

(* authorizationKey: Nil when the answer may not be cached.                *)
AuthorizationKey(key, pid) ==
    CASE key = Nil -> Nil
      [] key # Nil /\ unlockScope = "file" -> <<"file", key>>
      [] key # Nil /\ unlockScope = "process" /\ pid # Nil -> <<"process", pid>>
      [] key # Nil /\ unlockScope = "vault" -> <<"vault", Nil>>
      [] OTHER -> Nil

CacheLocked(r) ==
    unlockFor > 0 /\ AuthorizationKey(request[r].key, request[r].pid) # Nil

(* removeExpiredAuthorizationsLocked.                                      *)
Unexpired == [k \in {x \in DOMAIN authorized : authorized[x].left > 0} |-> authorized[k]]

(* The time.Time of the last authorization to expire.                      *)
Latest(entries) == Max({entries[k].left : k \in DOMAIN entries})

(* The cache becomes entries, whose timer scheduleIdentityExpiryLocked     *)
(* starts again; a cache without entries holds no identity.                *)
ScheduleIdentityExpiry(entries, identity) ==
    /\ authorized' = entries
    /\ unlockTimer' = IF entries = <<>> THEN -1 ELSE Latest(entries)
    /\ cachedIdentity' = (identity /\ entries # <<>>)

ClearCache ==
    /\ unlockTimer' = -1
    /\ cachedIdentity' = FALSE
    /\ authorized' = <<>>
    /\ watched' = {}

(* close(session.done) and delete, for every token of S.                   *)
Close(S) ==
    /\ sessions' = Without(sessions, S)
    /\ done' = [t \in Tokens |-> IF t \in S THEN "closed" ELSE done[t]]

(* The approvals that wait to be stored are older than this discard.       *)
Outdate(d) ==
    [r \in Requests |->
        IF request[r].step \in {"granted", "insert"}
        THEN [request[r] EXCEPT !.stale = @ \cup {d}] ELSE request[r]]

-----------------------------------------------------------------------------
(* Requests.                                                               *)

(* A call reaches the filesystem: an open (decryptFile, authorize), or a   *)
(* begin command for an edit or an encrypt session, which needs a caller.  *)
FreeToken(t) ==
    /\ t \notin DOMAIN sessions \cup DOMAIN monitor
    /\ \A r \in Requests : request[r].token # t

Start(r, kind, key, pid, token) ==
    /\ request[r] = Idle
    /\ pid \in alive \cup {Nil}
    /\ \/ kind = "open" /\ key # Nil /\ token = Nil
       \/ kind = "edit" /\ key # Nil /\ token # Nil
       \/ kind = "encrypt" /\ key = Nil /\ token # Nil
    /\ token # Nil => pid # Nil /\ FreeToken(token)
    /\ request' = [request EXCEPT ![r] = [Idle EXCEPT !.step = "check",
                     !.kind = kind, !.key = key, !.pid = pid, !.token = token]]
    /\ UNCHANGED <<config, holder, cache, callbacks, sessions, done, monitor,
                   alive>>

(* An open ends when it has the identity; a begin goes on to insert it.    *)
Proceed(r, stale) ==
    request' = [request EXCEPT ![r] =
        IF @.kind = "open" THEN Idle
        ELSE [@ EXCEPT !.step = "insert", !.scoped = Nil, !.stale = stale]]

OfKind(kind, key) ==
    {t \in DOMAIN sessions : sessions[t].kind = kind /\ sessions[t].key = key}

Dead(S) == {t \in S : sessions[t].ownerPID \notin alive}

(* activeEncryptIdentityLocked: the caller's own sessions.                 *)
ActiveEncrypt(r) ==
    {t \in OfKind("encrypt", Nil) \ Dead(OfKind("encrypt", Nil)) :
        sessions[t].ownerPID = request[r].pid}

(* activeEditIdentityLocked: sessions of the caller or of an ancestor; a   *)
(* call whose process is unknown may use every session of the file.        *)
ActiveEdit(r) ==
    {t \in OfKind("edit", request[r].key) \ Dead(OfKind("edit", request[r].key)) :
        \/ request[r].pid = Nil
        \/ request[r].pid = sessions[t].ownerPID
        \/ <<request[r].pid, sessions[t].ownerPID>> \in Parents}

(* The sessions of dead owners each loop ends when it runs to its end.     *)
DeadEncrypt(r) ==
    IF request[r].pid = Nil THEN {} ELSE Dead(OfKind("encrypt", Nil))

DeadEdit(r) == Dead(OfKind("edit", request[r].key))

Checking(r) == request[r].step = "check" /\ holder = Nil

(* Each loop ranges over a map in any order, ends the sessions of dead     *)
(* owners it meets, and stops at the first session that serves the caller. *)
CheckSessions(r) ==
    /\ Checking(r)
    /\ \/ \E t \in ActiveEncrypt(r), met \in SUBSET DeadEncrypt(r) :
             Close(met) /\ Proceed(r, sessions[t].stale)
       \/ /\ ActiveEncrypt(r) = {}
          /\ \E t \in ActiveEdit(r), met \in SUBSET DeadEdit(r) :
                Close(met \cup DeadEncrypt(r)) /\ Proceed(r, sessions[t].stale)
    /\ UNCHANGED <<config, holder, cache, callbacks, monitor, alive>>

NoSession(r) ==
    /\ Checking(r)
    /\ ActiveEncrypt(r) = {} /\ ActiveEdit(r) = {}
    /\ Close(DeadEncrypt(r) \cup DeadEdit(r))

(* The answer will be cached: expired authorizations go, then a live one   *)
(* is used, or the user is asked with unlockMu locked.                     *)
DropExpired ==
    /\ authorized' = Unexpired
    /\ cachedIdentity' = (cachedIdentity /\ Unexpired # <<>>)
    /\ watched' = watched \cap DOMAIN Unexpired
    /\ UNCHANGED unlockTimer

Prompting(r, scoped) ==
    request' = [request EXCEPT ![r] = [@ EXCEPT !.step = "prompt", !.scoped = scoped]]

(* Mutant: unlockMu is let go while the user is asked.                     *)
CheckCacheUnlocks(r) ==
    /\ NoSession(r) /\ CacheLocked(r)
    /\ DropExpired
    /\ LET key == AuthorizationKey(request[r].key, request[r].pid)
       IN  \/ /\ cachedIdentity' /\ key \in DOMAIN Unexpired
              /\ Proceed(r, Unexpired[key].stale)
           \/ /\ ~(cachedIdentity' /\ key \in DOMAIN Unexpired)
              /\ Prompting(r, key)
    /\ UNCHANGED <<config, holder, callbacks, monitor, alive>>

CheckCache(r) ==
    /\ NoSession(r) /\ CacheLocked(r)
    /\ DropExpired
    /\ LET key == AuthorizationKey(request[r].key, request[r].pid)
       IN  \/ /\ cachedIdentity' /\ key \in DOMAIN Unexpired
              /\ Proceed(r, Unexpired[key].stale)
              /\ UNCHANGED holder
           \/ /\ ~(cachedIdentity' /\ key \in DOMAIN Unexpired)
              /\ Prompting(r, key)
              /\ holder' = r
    /\ UNCHANGED <<config, callbacks, monitor, alive>>

(* The answer will not be cached: the user is asked with nothing locked.   *)
CheckUncached(r) ==
    /\ NoSession(r) /\ ~CacheLocked(r)
    /\ Prompting(r, Nil)
    /\ UNCHANGED <<config, holder, cache, callbacks, monitor, alive>>

(* Mutant: a refused prompt returns with unlockMu locked.                  *)
PromptRefusedKeepsLock(r) ==
    /\ request[r].step = "prompt"
    /\ request' = [request EXCEPT ![r] = Idle]
    /\ UNCHANGED <<config, holder, cache, callbacks, sessions, done, monitor, alive>>

(* requestIdentity: the user, or the backend, refuses.                     *)
PromptRefused(r) ==
    /\ request[r].step = "prompt"
    /\ request' = [request EXCEPT ![r] = Idle]
    /\ holder' = IF holder = r THEN Nil ELSE holder
    /\ UNCHANGED <<config, cache, callbacks, sessions, done, monitor, alive>>

(* requestIdentity: the user approves.                                     *)
PromptApproved(r) ==
    /\ request[r].step = "prompt"
    /\ IF request[r].scoped = Nil THEN Proceed(r, {})
       ELSE request' = [request EXCEPT ![r] = [@ EXCEPT !.step = "granted"]]
    /\ UNCHANGED <<config, holder, cache, callbacks, sessions, done, monitor,
                   alive>>

(* The approval is cached, still under unlockMu; under the process scope a *)
(* goroutine watches the process.                                          *)
StoreAuthorization(r) ==
    /\ request[r].step = "granted"
    /\ LET key == request[r].scoped
           entry == [left |-> unlockFor, stale |-> request[r].stale]
       IN  /\ ScheduleIdentityExpiry(With(authorized, key, entry), TRUE)
           /\ watched' = IF unlockScope = "process" THEN watched \cup {key}
                         ELSE watched
    /\ Proceed(r, request[r].stale)
    /\ holder' = Nil
    /\ UNCHANGED <<config, callbacks, sessions, done, monitor, alive>>

-----------------------------------------------------------------------------
(* Sessions.                                                               *)

(* The second half of beginEditSession and beginEncryptSession.            *)
InsertSession(r) ==
    /\ request[r].step = "insert" /\ holder = Nil
    /\ LET t == request[r].token
       IN  /\ sessions' = With(sessions, t,
                  [kind |-> request[r].kind, key |-> request[r].key,
                   ownerPID |-> request[r].pid, stale |-> request[r].stale])
           /\ done' = [done EXCEPT ![t] = "open"]
           /\ monitor' = With(monitor, t,
                  [ownerPID |-> request[r].pid, exited |-> FALSE])
    /\ request' = [request EXCEPT ![r] = Idle]
    /\ UNCHANGED <<config, holder, cache, callbacks, alive>>

(* endEditSession, endEncryptSession: the owner ends its session.  Another *)
(* caller gets EPERM, an unknown token nothing, and neither changes state. *)
EndSession(t) ==
    /\ holder = Nil
    /\ t \in DOMAIN sessions /\ sessions[t].ownerPID \in alive
    /\ Close({t})
    /\ UNCHANGED <<config, holder, cache, callbacks, monitor, alive, request>>

(* waitForProcessExit: the session is over, or its owner has exited; when  *)
(* both are true select takes either.                                      *)
MonitorReturns(t) ==
    /\ t \in DOMAIN monitor /\ ~monitor[t].exited
    /\ done[t] = "closed"
    /\ monitor' = Without(monitor, {t})
    /\ UNCHANGED <<config, holder, cache, callbacks, sessions, done, alive, request>>

MonitorSeesExit(t) ==
    /\ t \in DOMAIN monitor /\ ~monitor[t].exited
    /\ monitor[t].ownerPID \notin alive
    /\ monitor' = [monitor EXCEPT ![t].exited = TRUE]
    /\ UNCHANGED <<config, holder, cache, callbacks, sessions, done, alive, request>>

(* Mutant: a session whose owner has exited is left to the next lookup.    *)
MonitorEndsSessionNever(t) ==
    /\ t \in DOMAIN monitor /\ monitor[t].exited /\ holder = Nil
    /\ monitor' = Without(monitor, {t})
    /\ UNCHANGED <<config, holder, cache, callbacks, sessions, done, alive, request>>

(* The monitor ends the session of an exited owner, unless it is gone.     *)
MonitorEndsSession(t) ==
    /\ t \in DOMAIN monitor /\ monitor[t].exited /\ holder = Nil
    /\ Close({t} \cap DOMAIN sessions)
    /\ monitor' = Without(monitor, {t})
    /\ UNCHANGED <<config, holder, cache, callbacks, alive, request>>

-----------------------------------------------------------------------------
(* Discarding.                                                             *)

(* Mutant: the channels are closed and the sessions stay in their maps.    *)
LockKeepsSessions ==
    /\ holder = Nil
    /\ ClearCache
    /\ done' = [t \in Tokens |-> IF t \in DOMAIN sessions THEN "closed" ELSE done[t]]
    /\ request' = Outdate("lock")
    /\ UNCHANGED <<config, holder, callbacks, sessions, monitor, alive>>

(* Lock: on system sleep and wake, and when the filesystem is closed.      *)
Lock ==
    /\ holder = Nil
    /\ ClearCache
    /\ Close(DOMAIN sessions)
    /\ request' = Outdate("lock")
    /\ UNCHANGED <<config, holder, callbacks, monitor, alive>>

(* ConfigureAuthorization.                                                 *)
ConfigureAuthorization(duration, scope) ==
    /\ holder = Nil
    /\ unlockFor' = duration /\ unlockScope' = scope
    /\ ClearCache
    /\ UNCHANGED <<holder, callbacks, sessions, done, monitor, alive, request>>

ConfigurePrompter ==
    /\ holder = Nil
    /\ ClearCache
    /\ request' = Outdate("prompter")
    /\ UNCHANGED <<config, holder, callbacks, sessions, done, monitor, alive>>

(* The runtime starts the callback of a timer that has run down.  Stop     *)
(* does not take back a callback that already waits for unlockMu.          *)
TimerFires ==
    /\ unlockTimer = 0 /\ callbacks < MaxCallbacks
    /\ unlockTimer' = -1
    /\ callbacks' = callbacks + 1
    /\ UNCHANGED <<config, holder, cachedIdentity, authorized, sessions, done,
                   monitor, watched, alive, request>>

(* Mutant: the callback takes the authorizations it finds for old ones.    *)
ExpireCachedIdentityOnce ==
    /\ callbacks > 0 /\ holder = Nil
    /\ callbacks' = callbacks - 1
    /\ authorized' = Unexpired
    /\ cachedIdentity' = (cachedIdentity /\ Unexpired # <<>>)
    /\ unlockTimer' = -1
    /\ watched' = watched \cap DOMAIN Unexpired
    /\ UNCHANGED <<config, holder, sessions, done, monitor, alive, request>>

(* expireCachedIdentity.  With no authorization left it forgets the timer  *)
(* without stopping it: one that has just run down still calls back.       *)
ExpireCachedIdentity ==
    /\ callbacks > 0 /\ holder = Nil
    /\ callbacks' = IF Unexpired = <<>> /\ unlockTimer = 0 THEN callbacks
                    ELSE callbacks - 1
    /\ ScheduleIdentityExpiry(Unexpired, cachedIdentity)
    /\ watched' = watched \cap DOMAIN Unexpired
    /\ UNCHANGED <<config, holder, sessions, done, monitor, alive, request>>

(* expireProcessAuthorization: at a tick of its ticker the watcher of an   *)
(* authorization that is still the one it was started for drops it when    *)
(* the process is gone.  It stops by itself when the authorization runs    *)
(* out.                                                                    *)
ExpireProcessAuthorization(key) ==
    /\ key \in watched /\ holder = Nil
    /\ key[2] \notin alive
    /\ ScheduleIdentityExpiry(Without(authorized, {key}), cachedIdentity)
    /\ watched' = watched \ {key}
    /\ UNCHANGED <<config, holder, callbacks, sessions, done, monitor, alive, request>>

WatcherStops(key) ==
    /\ key \in watched /\ authorized[key].left = 0
    /\ watched' = watched \ {key}
    /\ UNCHANGED <<config, holder, cachedIdentity, authorized, unlockTimer,
                   callbacks, sessions, done, monitor, alive, request>>

-----------------------------------------------------------------------------
(* The environment: time passes, processes exit and start.                 *)

Less(n) == IF n > 0 THEN n - 1 ELSE n

Tick ==
    /\ authorized' = [k \in DOMAIN authorized |->
                         [authorized[k] EXCEPT !.left = Less(@)]]
    /\ unlockTimer' = Less(unlockTimer)
    /\ UNCHANGED <<config, holder, cachedIdentity, callbacks, sessions, done,
                   monitor, watched, alive, request>>

ProcessExits(p) ==
    /\ p \in alive
    /\ alive' = alive \ {p}
    /\ UNCHANGED <<config, holder, cache, callbacks, sessions, done, monitor, request>>

Referenced(p) ==
    \/ \E t \in DOMAIN sessions : sessions[t].ownerPID = p
    \/ \E t \in DOMAIN monitor : monitor[t].ownerPID = p
    \/ \E r \in Requests : request[r].pid = p
    \/ <<"process", p>> \in DOMAIN authorized

ProcessStarts(p) ==
    /\ p \notin alive /\ ~Referenced(p)
    /\ alive' = alive \cup {p}
    /\ UNCHANGED <<config, holder, cache, callbacks, sessions, done, monitor, request>>

-----------------------------------------------------------------------------
Prompted(r) == PromptRefused(r) \/ PromptApproved(r)

Check(r) == CheckSessions(r) \/ CheckCache(r) \/ CheckUncached(r)

Next ==
    \/ \E r \in Requests :
          \/ \E kind \in {"open", "edit", "encrypt"}, key \in Keys \cup {Nil},
               pid \in Pids \cup {Nil}, token \in Tokens \cup {Nil} :
                Start(r, kind, key, pid, token)
          \/ CheckSessions(r) \/ CheckCache(r) \/ CheckUncached(r)
          \/ PromptRefused(r) \/ PromptApproved(r)
          \/ StoreAuthorization(r) \/ InsertSession(r)
    \/ \E t \in Tokens :
          \/ EndSession(t)
          \/ MonitorReturns(t) \/ MonitorSeesExit(t) \/ MonitorEndsSession(t)
    \/ Lock \/ ConfigurePrompter
    \/ \E duration \in 0 .. MaxDuration, scope \in Scopes :
          ConfigureAuthorization(duration, scope)
    \/ TimerFires \/ ExpireCachedIdentity
    \/ \E key \in AuthorizationKeys :
          ExpireProcessAuthorization(key) \/ WatcherStops(key)
    \/ Tick
    \/ \E p \in Pids : ProcessExits(p) \/ ProcessStarts(p)

Spec == Init /\ [][Next]_vars

(* The user answers every prompt (or its backend gives up), goroutines     *)
(* run, and sync.Mutex does not starve a waiter.  A request, and a         *)
(* monitor, has one thing to do at each of its steps, so fairness of the   *)
(* disjunction is fairness of each.                                        *)
Fairness ==
    /\ \A r \in Requests :
          SF_vars(Check(r) \/ Prompted(r) \/ StoreAuthorization(r) \/ InsertSession(r))
    /\ \A t \in Tokens : SF_vars(MonitorSeesExit(t) \/ MonitorEndsSession(t))
    /\ WF_vars(TimerFires) /\ SF_vars(ExpireCachedIdentity)

FairSpec == Spec /\ Fairness

-----------------------------------------------------------------------------
(* Properties.                                                             *)

(* Whoever ends a session (its owner, a lookup, the monitor, Lock) closes  *)
(* its done channel, and closing a channel twice stops the whole service:  *)
(* a session that can still be found has its channel open.                 *)
SessionsOpen == \A t \in DOMAIN sessions : done[t] = "open"

(* ConfigurePrompter's comment, and the purpose of Lock: no authorization  *)
(* in the cache is older than the last discard, even one the user was      *)
(* approving when the discard was asked for, and every one is what the     *)
(* current configuration allows: of its scope, for no longer than          *)
(* unlockFor.                                                              *)
CacheIsCurrent ==
    \A k \in DOMAIN authorized :
        /\ authorized[k].stale = {}
        /\ k[1] = unlockScope /\ authorized[k].left <= unlockFor /\ unlockFor > 0

(* An identity is in memory only with an authorization to use it, and the  *)
(* timer that drops it is set to the last of them, or its callback waits.  *)
IdentityExpires ==
    cachedIdentity =>
        /\ authorized # <<>>
        /\ callbacks > 0 \/ unlockTimer = Latest(authorized)

(* README.md: the authorization of encrypt "is discarded when the command  *)
(* ends"; the same holds for edit, also when the command is killed.        *)
DeadOwnersSessionEnds ==
    \A t \in Tokens :
        (t \in DOMAIN sessions /\ sessions[t].ownerPID \notin alive)
            ~> t \notin DOMAIN sessions

(* An identity whose authorizations have all run out leaves memory, or is  *)
(* authorized again.                                                       *)
ExpiredIdentityDropped ==
    (cachedIdentity /\ Unexpired = <<>>) ~> (~cachedIdentity \/ Unexpired # <<>>)

(* No call waits for unlockMu for ever.                                    *)
RequestReturns == \A r \in Requests : (request[r] # Idle) ~> (request[r] = Idle)

=============================================================================
