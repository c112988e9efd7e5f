---------------------------- MODULE SessionStore ----------------------------
(***************************************************************************)
(* The in-memory store of dashboard sessions: security.py (SessionStore)   *)
(* with the handlers that drive it: login, reauthentication, logout, role  *)
(* refresh, account revocation from a thread and from the event loop, and  *)
(* the live delivery that holds a session's lock while it sends.           *)
(*                                                                         *)
(* Everything under the store's own lock (_lock) is one step.  Between     *)
(* steps a thread may hold the session set lock, role check locks of some  *)
(* sessions, or wait for them, for RouterOS, for the audit log or for a    *)
(* client that reads slowly.                                               *)
(***************************************************************************)
EXTENDS Naturals, FiniteSets

CONSTANTS
    Threads,      \* request and stream threads
    Accounts,     \* RouterOS accounts; each also names its retry thread
    Kinds,        \* kinds of request served, a subset of AllKinds
    Nobody,       \* the holder of a free lock, the account of no request
    Limit,        \* max_sessions_per_account
    Established,  \* sessions there at the start
    MaxRequests   \* bound on requests served

\* revokeAccount   by an administrator, from a thread that may block
\* revokeInLoop    the same from the event loop, where locks are only tried
\* revokeOthers    a session revokes its account's other sessions
\* purge           the sweep of expired sessions before any listing of them
AllKinds == {"login", "rotate", "logout", "refresh", "deliver", "revokeAccount",
             "revokeInLoop", "revokeOthers", "purge"}

\* "gone" is a refresh or delivery that found its account missing on RouterOS,
\* "retry" the retry thread's.
Revocations == {"revokeAccount", "revokeInLoop", "gone", "retry"}

ASSUME KindAssumption == Kinds \subseteq AllKinds
ASSUME ThreadAssumption ==
    /\ IsFiniteSet(Threads)
    /\ Threads \cap Accounts = {}
    /\ Nobody \notin Threads \cup Accounts
ASSUME NumberAssumption ==
    /\ Limit \in Nat \ {0}
    /\ Established \in 0..Limit
    /\ MaxRequests \in Nat

AllThreads == Threads \cup Accounts
Ids == 1..(Established + MaxRequests)     \* session ids, in their sorting order
NoId == 0

VARIABLES
    live,        \* _sessions: the ids present
    info,        \* what a session was made with
    nextId,      \* the next fresh id
    expired,     \* sessions past a deadline
    stale,       \* sessions whose role check is older than the interval
    setLock,     \* holder of _session_set_lock
    checkLock,   \* holders of the locks in _role_check_locks
    denials,     \* _invalidating_usernames
    generation,  \* _account_revocation_generations
    pending,     \* _pending_account_revocation_retries, as revocations' ordinals
    pc,          \* what a thread does next
    req,         \* the request it does it for
    marked,      \* the sessions it counts in _invalidating
    \* history, read by no guard but the bound
    requests,    \* requests begun
    begun,       \* revocations begun on an account
    barrier,     \* the latest of them to have completed
    revoked,     \* sessions logged out or revoked one by one
    missing      \* answers of RouterOS that an account is missing or disabled

storeVars == <<live, info, nextId, expired, stale>>
lockVars == <<setLock, checkLock>>
accountVars == <<denials, generation, pending>>
historyVars == <<requests, begun, barrier, revoked, missing>>
vars == <<storeVars, lockVars, accountVars, pc, req, marked, historyVars>>

-----------------------------------------------------------------------------
(* Derived state *)

\* A request: its session and account, the generation a login is bound to, the
\* ordinal of a revocation; as history, the revocations begun when RouterOS
\* verified its credentials, and whether its account was denied when it took
\* its generation.
Requests == [kind : AllKinds \cup {"none", "gone", "retry"}, session : Ids \cup {NoId},
             account : Accounts \cup {Nobody}, gen : Nat, ordinal : Nat, authAt : Nat,
             unsure : BOOLEAN]
NoRequest == [kind |-> "none", session |-> NoId, account |-> Nobody, gen |-> 0,
              ordinal |-> 0, authAt |-> 0, unsure |-> FALSE]

\* A session: its account; as history, authAt and unsure of the request that
\* made it and the session it replaced.
Sessions == [account : Accounts, authAt : Nat, unsure : BOOLEAN, from : Ids \cup {NoId}]

SessionsOf(a) == {s \in live : info[s].account = a}
Denied(a) == denials[a] > 0
MarkedBy(T) == UNION {marked[u] : u \in T}
Invalidating(s) == s \in MarkedBy(AllThreads) \/ Denied(info[s].account)
Held(t) == {s \in Ids : checkLock[s] = t}

Points == {"idle", "verify", "wantSet", "choose", "locking", "create", "audit", "commit",
           "wantLock", "locked", "sending", "refresh", "wantCheck", "check", "resolving",
           "retried"}

-----------------------------------------------------------------------------
\* The store has been running: some sessions of one account are established.
Init ==
    /\ live = 1..Established
    /\ \E a \in Accounts :
          info = [s \in Ids |-> [account |-> a, authAt |-> 0, unsure |-> FALSE,
                                 from |-> NoId]]
    /\ nextId = Established + 1
    /\ expired = {} /\ stale = {}
    /\ setLock = Nobody
    /\ checkLock = [s \in Ids |-> Nobody]
    /\ denials = [a \in Accounts |-> 0]
    /\ generation = [a \in Accounts |-> 0]
    /\ pending = [a \in Accounts |-> {}]
    /\ pc = [t \in AllThreads |-> "idle"]
    /\ req = [t \in AllThreads |-> NoRequest]
    /\ marked = [t \in AllThreads |-> {}]
    /\ requests = 0
    /\ begun = [a \in Accounts |-> 0]
    /\ barrier = [a \in Accounts |-> 0]
    /\ revoked = {}
    /\ missing = [a \in Accounts |-> 0]

-----------------------------------------------------------------------------
(* Steps shared by several operations *)

Go(t, point) == pc' = [pc EXCEPT ![t] = point]

\* Mutant: the deadline of a dropped session is kept.
DropKeepsDeadline(S) == /\ live' = live \ S
                        /\ stale' = stale \ S
                        /\ UNCHANGED <<info, nextId, expired>>
Drop(S) == /\ live' = live \ S
           /\ expired' = expired \ S
           /\ stale' = stale \ S
           /\ UNCHANGED <<info, nextId>>

Free(t) == [s \in Ids |-> IF checkLock[s] = t THEN Nobody ELSE checkLock[s]]

\* The finally blocks: unmark, release every lock held, answer the request.
Leave(t) ==
    /\ Go(t, "idle")
    /\ req' = [req EXCEPT ![t] = NoRequest]
    /\ marked' = [marked EXCEPT ![t] = {}]
    /\ setLock' = IF setLock = t THEN Nobody ELSE setLock
    /\ checkLock' = Free(t)

\* _mark_account_invalidating_locked.
NextGeneration(a) == IF Denied(a) THEN generation[a] ELSE generation[a] + 1

Deny(a) ==
    /\ denials' = [denials EXCEPT ![a] = @ + 1]
    /\ generation' = [generation EXCEPT ![a] = NextGeneration(a)]
    /\ begun' = [begun EXCEPT ![a] = @ + 1]
    /\ UNCHANGED <<pending, barrier, revoked>>

-----------------------------------------------------------------------------
(* Requests arrive *)

Arrive(t, point, r) ==
    /\ pc[t] = "idle"
    /\ r.kind \in Kinds
    /\ requests < MaxRequests
    /\ requests' = requests + 1
    /\ Go(t, point)
    /\ req' = [req EXCEPT ![t] = r]
    /\ UNCHANGED <<storeVars, lockVars>>

\* A login takes the account's generation before RouterOS verifies it.
BeginLogin(t, a) ==
    /\ Arrive(t, "verify", [NoRequest EXCEPT !.kind = "login", !.account = a,
                               !.gen = generation[a], !.unsure = Denied(a)])
    /\ UNCHANGED <<accountVars, marked, begun, barrier, revoked, missing>>

\* A request authenticated by session s.
BeginInSession(t, k, s) ==
    /\ s \in live \ expired
    /\ ~Invalidating(s)
    /\ \/ k = "rotate" /\ Arrive(t, "verify", [NoRequest EXCEPT !.kind = k, !.session = s,
                                                  !.account = info[s].account])
       \/ k = "revokeOthers" /\ Arrive(t, "wantSet", [NoRequest EXCEPT !.kind = k,
                                            !.session = s, !.account = info[s].account])
       \/ k = "refresh" /\ Arrive(t, "refresh", [NoRequest EXCEPT !.kind = k,
                                            !.session = s, !.account = info[s].account])
       \/ k = "deliver" /\ Arrive(t, "wantLock", [NoRequest EXCEPT !.kind = k,
                                            !.session = s, !.account = info[s].account])
    /\ UNCHANGED <<accountVars, marked, begun, barrier, revoked, missing>>

\* destroy and revoke: the session is marked as its lock is looked up.
BeginLogout(t, s) ==
    /\ s \in live
    /\ Arrive(t, "wantLock", [NoRequest EXCEPT !.kind = "logout", !.session = s,
                                 !.account = info[s].account])
    /\ marked' = [marked EXCEPT ![t] = {s}]
    /\ UNCHANGED <<accountVars, begun, barrier, revoked, missing>>

\* revoke_account_sessions denies the account before it waits for any lock.
BeginRevocation(t, k, a) ==
    /\ k \in {"revokeAccount", "revokeInLoop"}
    /\ Arrive(t, "wantSet", [NoRequest EXCEPT !.kind = k, !.account = a,
                                !.ordinal = begun[a] + 1])
    /\ Deny(a)
    /\ UNCHANGED <<marked, missing>>

BeginPurge(t) ==
    /\ live \cap expired # {}
    /\ Arrive(t, "locking", [NoRequest EXCEPT !.kind = "purge"])
    /\ marked' = [marked EXCEPT ![t] = live \cap expired]
    /\ UNCHANGED <<accountVars, begun, barrier, revoked, missing>>

\* The retry thread takes up a revocation the event loop could not carry out.
Retry(a) ==
    /\ pc[a] = "idle"
    /\ pending[a] # {}
    /\ Go(a, "wantSet")
    /\ req' = [req EXCEPT ![a] = [NoRequest EXCEPT !.kind = "retry", !.account = a,
           !.ordinal = CHOOSE n \in pending[a] : \A m \in pending[a] : n <= m]]
    /\ UNCHANGED <<storeVars, lockVars, accountVars, marked, historyVars>>

\* RouterOS verifies the credentials of a login or a reauthentication, or not.
Verify(t) ==
    /\ pc[t] = "verify"
    /\ \/ /\ Go(t, "wantSet")
          /\ req' = [req EXCEPT ![t].authAt = begun[req[t].account]]
          /\ UNCHANGED <<marked, lockVars>>
       \/ Leave(t)
    /\ UNCHANGED <<storeVars, accountVars, historyVars>>

-----------------------------------------------------------------------------
(* The session set lock, and sweeps *)

TakeSet(t) ==
    /\ pc[t] = "wantSet"
    /\ setLock = Nobody
    /\ setLock' = t
    /\ Go(t, "choose")
    /\ UNCHANGED <<storeVars, checkLock, accountVars, req, marked, historyVars>>

\* Mutant: the revocation is not handed to the retry thread.
NotDeferred(t) == pending
Deferred(t) == [pending EXCEPT ![req[t].account] = @ \cup {req[t].ordinal}]

\* The event loop may not wait for a lock: the revocation is left to the retry
\* thread and the account stays denied.
Postpone(t) ==
    /\ req[t].kind = "revokeInLoop"
    /\ pending' = Deferred(t)
    /\ Leave(t)
    /\ UNCHANGED <<storeVars, denials, generation, historyVars>>

SetBusy(t) == pc[t] = "wantSet" /\ setLock # Nobody /\ Postpone(t)

\* create purges the expired sessions of all accounts first.
Candidates(t) ==
    CASE req[t].kind = "login" -> live \cap expired
      [] req[t].kind = "revokeOthers" -> SessionsOf(req[t].account) \ {req[t].session}
      [] OTHER -> SessionsOf(req[t].account)

Busy(t) == req[t].kind = "revokeInLoop" /\ \E s \in Candidates(t) : checkLock[s] # Nobody

\* A sweep marks its candidates; the event loop takes all their locks at once.
Choose(t) ==
    /\ pc[t] = "choose"
    /\ req[t].kind # "rotate"
    /\ req[t].kind = "revokeOthers" =>
          req[t].session \in live /\ ~Invalidating(req[t].session)
    /\ ~Busy(t)
    /\ marked' = [marked EXCEPT ![t] = Candidates(t)]
    /\ checkLock' = IF req[t].kind # "revokeInLoop" THEN checkLock ELSE
          [s \in Ids |-> IF s \in Candidates(t) THEN t ELSE checkLock[s]]
    /\ Go(t, "locking")
    /\ UNCHANGED <<storeVars, setLock, accountVars, req, historyVars>>

LocksBusy(t) == pc[t] = "choose" /\ Busy(t) /\ Postpone(t)

\* rotate marks its session, like revoke.
ChooseRotate(t) ==
    /\ pc[t] = "choose"
    /\ req[t].kind = "rotate"
    /\ req[t].session \in live
    /\ marked' = [marked EXCEPT ![t] = {req[t].session}]
    /\ Go(t, "wantLock")
    /\ UNCHANGED <<storeVars, lockVars, accountVars, req, historyVars>>

\* The session that asks for a rotation or for the end of all others is gone.
CallerGone(t) ==
    /\ pc[t] = "choose"
    /\ \/ req[t].kind = "rotate" /\ req[t].session \notin live
       \/ /\ req[t].kind = "revokeOthers"
          /\ req[t].session \notin live \/ Invalidating(req[t].session)
    /\ Leave(t)
    /\ UNCHANGED <<storeVars, accountVars, historyVars>>

\* Sweeps take the check locks one by one in the order of the ids.
NextLock(t) == {s \in marked[t] \ Held(t) : \A r \in marked[t] \ Held(t) : s <= r}

LockNext(t) ==
    /\ pc[t] = "locking"
    /\ \E s \in NextLock(t) :
          /\ checkLock[s] = Nobody
          /\ checkLock' = [checkLock EXCEPT ![s] = t]
    /\ UNCHANGED <<storeVars, setLock, accountVars, pc, req, marked, historyVars>>

\* The locks of a sweep, which every send on its sessions has left.
\* Mutant: a sweep drops without them.
NoLocks(t) == TRUE
AllLocks(t) == marked[t] \subseteq Held(t)

\* What it drops: an account revocation looks once more.
SweptBy(t) == IF req[t].kind \in Revocations THEN SessionsOf(req[t].account)
                                             ELSE marked[t]

Sweep(t) ==
    /\ pc[t] = "locking"
    /\ AllLocks(t)
    /\ req[t].kind \notin Revocations \cup {"login"}
    /\ Drop(SweptBy(t))
    /\ Leave(t)
    /\ UNCHANGED <<accountVars, historyVars>>

\* create goes on, still holding the session set lock.
SweepForLogin(t) ==
    /\ pc[t] = "locking"
    /\ AllLocks(t)
    /\ req[t].kind = "login"
    /\ Drop(SweptBy(t))
    /\ Go(t, "create")
    /\ marked' = [marked EXCEPT ![t] = {}]
    /\ checkLock' = Free(t)
    /\ UNCHANGED <<setLock, accountVars, req, historyVars>>

\* A revocation completes and the account may log in again.
SweepAccount(t) ==
    LET a == req[t].account
        n == req[t].ordinal
    IN /\ pc[t] = "locking"
       /\ AllLocks(t)
       /\ req[t].kind \in Revocations
       /\ Drop(SweptBy(t))
       /\ denials' = [denials EXCEPT ![a] = @ - 1]
       /\ barrier' = [barrier EXCEPT ![a] = IF n > @ THEN n ELSE @]
       /\ IF req[t].kind = "retry"
          THEN /\ Go(t, "retried")
               /\ marked' = [marked EXCEPT ![t] = {}]
               /\ setLock' = Nobody
               /\ checkLock' = Free(t)
               /\ UNCHANGED req
          ELSE Leave(t)
       /\ UNCHANGED <<generation, pending, requests, begun, revoked, missing>>

\* The retry thread counts the retry off, after it has swept.
CountOff(a) ==
    /\ pc[a] = "retried"
    /\ pending' = [pending EXCEPT ![a] = @ \ {req[a].ordinal}]
    /\ Leave(a)
    /\ UNCHANGED <<storeVars, denials, generation, historyVars>>

-----------------------------------------------------------------------------
(* create: check, audit, check again and insert *)

\* Mutant: a login is not bound to the generation it started from.
AnyGeneration(t) == Denied(req[t].account)
Superseded(t) == \/ Denied(req[t].account)
                 \/ generation[req[t].account] # req[t].gen

\* Mutant: one more session than the limit.
Overfull(a) == Cardinality(SessionsOf(a)) > Limit
Full(a) == Cardinality(SessionsOf(a)) >= Limit

Insert(t, replaced) ==
    /\ live' = (live \ replaced) \cup {nextId}
    /\ expired' = expired \ replaced
    /\ stale' = stale \ replaced
    /\ info' = [info EXCEPT ![nextId] =
          [account |-> req[t].account, authAt |-> req[t].authAt,
           unsure |-> req[t].unsure, from |-> req[t].session]]
    /\ nextId' = nextId + 1

CheckCreate(t) ==
    /\ pc[t] = "create"
    /\ ~Superseded(t)
    /\ ~Full(req[t].account)
    /\ Go(t, "audit")
    /\ UNCHANGED <<storeVars, lockVars, accountVars, req, marked, historyVars>>

RefuseCreate(t) ==
    /\ pc[t] \in {"create", "commit"} /\ req[t].kind = "login"
    /\ Superseded(t) \/ Full(req[t].account)
    /\ Leave(t)
    /\ UNCHANGED <<storeVars, accountVars, historyVars>>

\* before_commit writes the audit, or fails and the session is not made.
Audit(t) ==
    /\ pc[t] = "audit"
    /\ \/ Go(t, "commit") /\ UNCHANGED <<req, marked, lockVars>>
       \/ Leave(t)
    /\ UNCHANGED <<storeVars, accountVars, historyVars>>

CommitCreate(t) ==
    /\ pc[t] = "commit"
    /\ req[t].kind = "login"
    /\ ~Superseded(t)
    /\ ~Full(req[t].account)
    /\ Insert(t, {})
    /\ Leave(t)
    /\ UNCHANGED <<accountVars, historyVars>>

-----------------------------------------------------------------------------
(* One session under its check lock: rotate, revoke, deliver *)

TakeLock(t) ==
    /\ \/ pc[t] = "wantLock" /\ Go(t, "locked")
       \/ pc[t] = "wantCheck" /\ Go(t, "check")
    /\ checkLock[req[t].session] = Nobody
    /\ checkLock' = [checkLock EXCEPT ![req[t].session] = t]
    /\ UNCHANGED <<storeVars, setLock, accountVars, req, marked, historyVars>>

\* Mutant: a delivery has no deadline.
Patient == {}
Impatient == {"wantLock", "refresh"}

\* A delivery waits for the lock, and for a refresh, no longer than 30 s.
GiveUp(t) ==
    /\ pc[t] \in Impatient
    /\ req[t].kind = "deliver"
    /\ Leave(t)
    /\ UNCHANGED <<storeVars, accountVars, historyVars>>

Logout(t) ==
    /\ pc[t] = "locked"
    /\ req[t].kind = "logout"
    /\ Drop({req[t].session})
    /\ revoked' = revoked \cup {req[t].session}
    /\ Leave(t)
    /\ UNCHANGED <<accountVars, requests, begun, barrier, missing>>

CheckRotate(t) ==
    LET s == req[t].session IN
    /\ pc[t] = "locked"
    /\ req[t].kind = "rotate"
    /\ IF s \in live \ expired /\ ~Denied(req[t].account)
       THEN Go(t, "audit") /\ UNCHANGED <<live, expired, stale, info, nextId, req, marked,
                                          lockVars>>
       ELSE /\ Drop(IF Denied(req[t].account) THEN {} ELSE {s} \cap expired)
            /\ Leave(t)
    /\ UNCHANGED <<accountVars, historyVars>>

\* Mutant: a revocation that waits for the same session is not noticed.
Undisturbed(t) == req[t].session \in live /\ ~Denied(req[t].account)
Unchallenged(t) ==
    /\ req[t].session \in live
    /\ req[t].session \notin MarkedBy(AllThreads \ {t})
    /\ ~Denied(req[t].account)

CommitRotate(t) ==
    /\ pc[t] = "commit"
    /\ req[t].kind = "rotate"
    /\ IF Unchallenged(t) THEN Insert(t, {req[t].session}) ELSE UNCHANGED storeVars
    /\ Leave(t)
    /\ UNCHANGED <<accountVars, historyVars>>

\* The authoritative check right before a send, with the lock held throughout.
Usable(s) == s \in live /\ ~Invalidating(s)

CheckSend(t) ==
    LET s == req[t].session IN
    /\ pc[t] = "locked"
    /\ req[t].kind = "deliver"
    /\ Usable(s) /\ s \notin expired
    /\ IF s \in stale
       THEN /\ Go(t, "refresh")
            /\ checkLock' = Free(t)
       ELSE Go(t, "sending") /\ UNCHANGED checkLock
    /\ UNCHANGED <<storeVars, setLock, accountVars, req, marked, historyVars>>

RefuseSend(t) ==
    LET s == req[t].session IN
    /\ pc[t] = "locked"
    /\ req[t].kind = "deliver"
    /\ ~Usable(s) \/ s \in expired
    /\ Drop(IF Usable(s) THEN {s} ELSE {})
    /\ Leave(t)
    /\ UNCHANGED <<accountVars, historyVars>>

SendEnds(t) ==
    /\ pc[t] = "sending"
    /\ Leave(t)
    /\ UNCHANGED <<storeVars, accountVars, historyVars>>

-----------------------------------------------------------------------------
(* revalidate_role *)

\* A refresh that is not forced trusts a recent check nobody is renewing.
Refresh(t) ==
    LET s == req[t].session IN
    /\ pc[t] = "refresh"
    /\ IF \/ ~Usable(s)
          \/ /\ req[t].kind = "refresh"
             /\ s \notin expired \cup stale
             /\ checkLock[s] = Nobody
       THEN Leave(t)
       ELSE Go(t, "wantCheck") /\ UNCHANGED <<req, marked, lockVars>>
    /\ UNCHANGED <<storeVars, accountVars, historyVars>>

\* Under the lock: gone, expired, renewed meanwhile, or ask RouterOS.
Recheck(t) ==
    LET s == req[t].session IN
    /\ pc[t] = "check"
    /\ IF ~Usable(s) \/ s \in expired \/ (req[t].kind = "refresh" /\ s \notin stale)
       THEN /\ Drop(IF Usable(s) THEN {s} \cap expired ELSE {})
            /\ Leave(t)
       ELSE Go(t, "resolving") /\ UNCHANGED <<storeVars, req, marked, lockVars>>
    /\ UNCHANGED <<accountVars, historyVars>>

\* The role stays or shrinks: the check is fresh, and a delivery tries again.
RoleConfirmed(t) ==
    LET s == req[t].session IN
    /\ pc[t] = "resolving"
    /\ Usable(s) /\ s \notin expired
    /\ stale' = stale \ {s}
    /\ IF req[t].kind = "deliver"
       THEN /\ Go(t, "wantLock")
            /\ checkLock' = Free(t)
            /\ UNCHANGED <<req, marked, setLock>>
       ELSE Leave(t)
    /\ UNCHANGED <<live, expired, info, nextId, accountVars, historyVars>>

\* The session was invalidated or has expired while RouterOS answered: the
\* answer is thrown away, also when it says that the account is missing.
AnswerTooLate(t) ==
    LET s == req[t].session
        a == req[t].account
    IN /\ pc[t] = "resolving"
       /\ ~Usable(s) \/ s \in expired
       /\ Drop(IF Usable(s) THEN {s} ELSE {})
       /\ missing' \in {missing, [missing EXCEPT ![a] = @ + 1]}
       /\ Leave(t)
       /\ UNCHANGED <<accountVars, requests, begun, barrier, revoked>>

\* RouterOS cannot be asked, or the new role is neither larger nor smaller.
RoleUnknown(t) ==
    /\ pc[t] = "resolving"
    /\ Drop({req[t].session})
    /\ Leave(t)
    /\ UNCHANGED <<accountVars, historyVars>>

\* The account is missing or disabled: deny it, let go of the session's lock,
\* and revoke all its sessions.
AccountGone(t) ==
    LET s == req[t].session
        a == req[t].account
    IN /\ pc[t] = "resolving"
       /\ Usable(s) /\ s \notin expired
       /\ Deny(a)
       /\ Go(t, "wantSet")
       /\ req' = [req EXCEPT ![t] = [NoRequest EXCEPT !.kind = "gone", !.account = a,
                                        !.ordinal = begun[a] + 1]]
       /\ checkLock' = Free(t)
       /\ missing' = [missing EXCEPT ![a] = @ + 1]
       /\ UNCHANGED <<storeVars, setLock, marked, requests>>

-----------------------------------------------------------------------------
(* Time *)

Expire(s) == /\ s \in live \ expired
             /\ expired' = expired \cup {s}
             /\ UNCHANGED <<live, info, nextId, stale, lockVars, accountVars, pc, req,
                            marked, historyVars>>

GoStale(s) == /\ s \in live \ stale
              /\ stale' = stale \cup {s}
              /\ UNCHANGED <<live, info, nextId, expired, lockVars, accountVars, pc, req,
                             marked, historyVars>>

\* dispatch_if_active_authorization_ref drops an expired session whoever holds
\* its check lock.
DropExpired(s) == /\ s \in live \cap expired
                  /\ ~Invalidating(s)
                  /\ Drop({s})
                  /\ UNCHANGED <<lockVars, accountVars, pc, req, marked, historyVars>>

\* Nothing is under way.
Rest == /\ \A t \in AllThreads : pc[t] = "idle"
        /\ \A a \in Accounts : pending[a] = {}
        /\ UNCHANGED vars

-----------------------------------------------------------------------------
Step(t) ==
    \/ Verify(t) \/ TakeSet(t) \/ SetBusy(t)
    \/ Choose(t) \/ LocksBusy(t) \/ ChooseRotate(t) \/ CallerGone(t)
    \/ LockNext(t) \/ Sweep(t) \/ SweepForLogin(t) \/ SweepAccount(t)
    \/ CheckCreate(t) \/ RefuseCreate(t) \/ Audit(t) \/ CommitCreate(t)
    \/ TakeLock(t) \/ GiveUp(t) \/ Logout(t) \/ CheckRotate(t) \/ CommitRotate(t)
    \/ CheckSend(t) \/ RefuseSend(t) \/ SendEnds(t)
    \/ Refresh(t) \/ Recheck(t) \/ RoleConfirmed(t) \/ AnswerTooLate(t)
    \/ RoleUnknown(t) \/ AccountGone(t)

Next ==
    \/ \E t \in AllThreads : Step(t)
    \/ \E a \in Accounts : Retry(a) \/ CountOff(a)
    \/ \E t \in Threads :
        \/ \E a \in Accounts : BeginLogin(t, a)
        \/ \E a \in Accounts, k \in Kinds : BeginRevocation(t, k, a)
        \/ \E s \in live, k \in Kinds : BeginInSession(t, k, s)
        \/ \E s \in live : BeginLogout(t, s)
        \/ BeginPurge(t)
    \/ \E s \in live : Expire(s) \/ GoStale(s) \/ DropExpired(s)
    \/ Rest

Spec == Init /\ [][Next]_vars

\* Threads keep running, locks are handed on, every call and send has a timeout,
\* a delivery looks at its deadline each time it starts over, the retry thread
\* loops until nothing is pending.
FairSpec ==
    /\ Spec
    /\ \A t \in AllThreads : WF_vars(Step(t))
    /\ \A t \in Threads : SF_vars(GiveUp(t))
    /\ \A a \in Accounts : WF_vars(Retry(a)) /\ WF_vars(CountOff(a))

-----------------------------------------------------------------------------
(* Properties *)

TypeOK ==
    /\ live \subseteq Ids /\ expired \subseteq live /\ stale \subseteq live
    /\ info \in [Ids -> Sessions]
    /\ nextId \in Nat
    /\ setLock \in AllThreads \cup {Nobody}
    /\ checkLock \in [Ids -> AllThreads \cup {Nobody}]
    /\ denials \in [Accounts -> Nat]
    /\ generation \in [Accounts -> Nat]
    /\ pending \in [Accounts -> SUBSET Nat]
    /\ pc \in [AllThreads -> Points]
    /\ req \in [AllThreads -> Requests]
    /\ marked \in [AllThreads -> SUBSET Ids]
    /\ requests \in 0..MaxRequests
    /\ begun \in [Accounts -> Nat]
    /\ barrier \in [Accounts -> Nat]
    /\ revoked \subseteq Ids
    /\ missing \in [Accounts -> Nat]

\* Once a revocation of an account has completed no session is left whose
\* credentials were verified before the revocation began: not one made by a
\* login or a rotation that was under way, nor one whose sweep the event loop
\* put off.  Logins that took their generation while the account was already
\* denied are left to EveryRevocationBinds.
RevokedStayGone ==
    \A s \in live : info[s].unsure \/ info[s].authAt >= barrier[info[s].account]

\* The same of every login, as the documented rule has it: revocation
\* generations prevent a login authenticated against an earlier account state
\* from inserting a session after the sweep.
EveryRevocationBinds ==
    \A s \in live : info[s].authAt >= barrier[info[s].account]

\* A session with a send under way is not taken away by logout, rotation,
\* sweep or role refresh; only its own expiry may end it.
SendsFinishFirst ==
    [][\A t \in Threads :
          pc[t] = "sending" /\ req[t].session \in live
          => req[t].session \in live' \cup expired]_vars

\* The documented rule for an account that a role refresh finds missing or
\* disabled: every dashboard session it has is denied at once.
MissingIsDenied ==
    [][\A a \in Accounts :
          missing'[a] # missing[a] => Denied(a)' \/ SessionsOf(a)' = {}]_vars

\* No account has more sessions than its limit, however logins, rotations and
\* sweeps interleave.
WithinLimit == \A a \in Accounts : Cardinality(SessionsOf(a)) <= Limit

\* An account is denied by exactly the revocations begun on it and not yet
\* completed, those waiting for the retry thread included: none is forgotten
\* and none is counted off twice.
DenialsMatch ==
    \A a \in Accounts :
        denials[a] + (IF pc[a] = "retried" THEN 1 ELSE 0) =
            Cardinality({t \in Threads : req[t].account = a /\ req[t].kind \in Revocations})
            + Cardinality(pending[a])

\* A session that was logged out or revoked has no successor: a rotation under
\* way does not carry it over.
RevokedHaveNoHeir == \A s \in live : info[s].from \notin revoked

\* What a completed revocation promises: neither a session verified before it
\* nor a successor of one it took is left to act.
RevokedStayOut == RevokedStayGone /\ RevokedHaveNoHeir

\* Every request ends, whatever locks it has to wait for.
RequestsEnd == \A t \in AllThreads : []<>(pc[t] = "idle")

\* No account stays denied: a revocation the event loop put off is carried out.
DenialsEnd == \A a \in Accounts : []<>~Denied(a)
=============================================================================
