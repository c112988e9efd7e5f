------------------------- MODULE SessionStoreProofs -------------------------
(***************************************************************************)
(* Proofs about SessionStore.  The first section states the inductive      *)
(* invariant of the whole module in parts.  The part CountInv (types, the  *)
(* course of each kind of request, fresh ids, ordinals of revocations, the *)
(* count of denials) comes first; what a revocation and the session limit  *)
(* promise, and that a send is not cut off, rests on it.                   *)
(***************************************************************************)
EXTENDS SessionStore, FiniteSetTheorems, WellFoundedInduction, TLAPS

-----------------------------------------------------------------------------
(* The inductive invariant *)

\* What the code of each kind of request goes through.
OnCourse(t) ==
    /\ req[t].kind = "none" => pc[t] = "idle"
    /\ req[t].kind = "login" =>
         pc[t] \in {"verify", "wantSet", "choose", "locking", "create", "audit", "commit"}
    /\ req[t].kind = "rotate" =>
         pc[t] \in {"verify", "wantSet", "choose", "wantLock", "locked", "audit", "commit"}
    /\ req[t].kind = "logout" => pc[t] \in {"wantLock", "locked"}
    /\ req[t].kind = "refresh" => pc[t] \in {"refresh", "wantCheck", "check", "resolving"}
    /\ req[t].kind = "deliver" => pc[t] \in {"wantLock", "locked", "sending", "refresh",
                                             "wantCheck", "check", "resolving"}
    /\ req[t].kind \in {"revokeOthers", "revokeAccount", "revokeInLoop", "gone"} =>
         pc[t] \in {"wantSet", "choose", "locking"}
    /\ req[t].kind = "retry" => pc[t] \in {"wantSet", "choose", "locking", "retried"}
    /\ req[t].kind = "purge" => pc[t] = "locking"

InSession == {"rotate", "logout", "refresh", "deliver", "revokeOthers"}

\* Retry threads retry, and nobody else.
Roles ==
    /\ \A t \in Threads : req[t].kind # "retry"
    /\ \A a \in Accounts : req[a].kind \in {"none", "retry"}
                           /\ (req[a].kind = "retry" => req[a].account = a)

\* A request that names a session knows its account.
Named(t) ==
    /\ req[t].kind \in {"none", "purge"} \/ req[t].account \in Accounts
    /\ IF req[t].kind \in InSession
       THEN /\ req[t].session \in 1..(nextId - 1)
            /\ info[req[t].session].account = req[t].account
       ELSE req[t].session = NoId

Courses == Roles /\ \A t \in AllThreads : OnCourse(t) /\ Named(t)

\* Ids are not used twice, and there are enough: a request makes one session.
Making == {t \in Threads : req[t].kind \in {"login", "rotate"}}
FreshIds ==
    /\ live \subseteq 1..(nextId - 1) /\ revoked \subseteq 1..(nextId - 1)
    /\ nextId >= 1
    /\ nextId + Cardinality(Making) <= Established + 1 + requests

Revoking(a) == {t \in Threads : req[t].account = a /\ req[t].kind \in Revocations}

\* The revocations begun on an account are told apart by their ordinals; those
\* that wait for the retry thread are not some thread's.
Ordinals ==
    \A a \in Accounts :
        /\ barrier[a] \in 0..begun[a]
        /\ pending[a] \in SUBSET (1..begun[a])
        /\ req[a].kind = "retry" => req[a].ordinal \in pending[a]
        /\ \A t \in Revoking(a) :
             /\ req[t].ordinal \in 1..begun[a] \ pending[a]
             /\ \A u \in Revoking(a) : req[u].ordinal = req[t].ordinal => u = t

CountInv == TypeOK /\ Courses /\ FreshIds /\ Ordinals /\ DenialsMatch

\* Whoever acts on one session holds its lock.
AtSession(t) ==
    \/ pc[t] \in {"locked", "sending", "check", "resolving"}
    \/ pc[t] \in {"audit", "commit"} /\ req[t].kind = "rotate"
LocksHeld == \A t \in AllThreads : AtSession(t) => checkLock[req[t].session] = t

\* A revocation that collects its locks has marked every session of the account:
\* none is made while the account is denied.
AllMarked ==
    \A t \in AllThreads :
        pc[t] = "locking" /\ req[t].kind \in Revocations
        => SessionsOf(req[t].account) \subseteq marked[t]

\* A login whose generation still stands was verified after every revocation of
\* its account, and the account is not denied.
LoginsBound ==
    \A t \in AllThreads :
        req[t].kind = "login" /\ ~req[t].unsure =>
            /\ req[t].gen <= generation[req[t].account]
            /\ req[t].gen = generation[req[t].account] =>
                 /\ ~Denied(req[t].account)
                 /\ pc[t] # "verify" => req[t].authAt = begun[req[t].account]

\* A rotation whose session is still there was verified after every revocation
\* that has completed.
RotationsBound ==
    \A t \in AllThreads :
        req[t].kind = "rotate" /\ pc[t] # "verify" /\ req[t].session \in live =>
            req[t].authAt >= barrier[req[t].account]

\* A session that was replaced is gone for good, and nobody logs it out any more.
Succession ==
    /\ live \cap revoked = {}
    /\ \A s \in live : info[s].from \notin live \cup revoked /\ info[s].from < nextId
    /\ \A t \in AllThreads : req[t].kind = "logout" =>
         marked[t] = {req[t].session} /\ \A s \in live : info[s].from # req[t].session

StoreInv == CountInv /\ LocksHeld /\ AllMarked /\ LoginsBound /\ RotationsBound
            /\ Succession /\ RevokedStayOut /\ WithinLimit
\* Other threads stand where they stood.
Alone(t) ==
    \A u \in AllThreads \ {t} :
       pc'[u] = pc[u] /\ req'[u] = req[u] /\ marked'[u] = marked[u]

-----------------------------------------------------------------------------
(* Type correctness *)

ThreadsOK == /\ pc \in [AllThreads -> Points] /\ req \in [AllThreads -> Requests]
             /\ marked \in [AllThreads -> SUBSET Ids]
LocksOK == /\ setLock \in AllThreads \cup {Nobody}
           /\ checkLock \in [Ids -> AllThreads \cup {Nobody}]
StoreOK == /\ live \subseteq Ids /\ expired \subseteq live /\ stale \subseteq live
           /\ info \in [Ids -> Sessions] /\ nextId \in Nat
HistoryOK == /\ requests \in 0..MaxRequests /\ begun \in [Accounts -> Nat]
             /\ barrier \in [Accounts -> Nat] /\ revoked \subseteq Ids
             /\ missing \in [Accounts -> Nat]
AccountsOK == /\ denials \in [Accounts -> Nat] /\ generation \in [Accounts -> Nat]
              /\ pending \in [Accounts -> SUBSET Nat]

LEMMA TypeParts ==
  /\ TypeOK <=> ThreadsOK /\ LocksOK /\ StoreOK /\ HistoryOK /\ AccountsOK
  /\ TypeOK' <=> ThreadsOK' /\ LocksOK' /\ StoreOK' /\ HistoryOK' /\ AccountsOK'
  BY DEF TypeOK, ThreadsOK, LocksOK, StoreOK, HistoryOK, AccountsOK

\* There are finitely many ids; the first is not the one that says none.
LEMMA IdsAreNumbers ==
  /\ Ids \subseteq Nat \ {NoId} /\ IsFiniteSet(Ids)
  /\ \A s \in Nat : s \in Ids <=> s \in 1..(Established + MaxRequests)
  <1>1. Established + MaxRequests \in Nat
    BY NumberAssumption
  <1>2. IsFiniteSet(1..(Established + MaxRequests))
    BY <1>1, FS_Interval
  <1>3. QED
    BY <1>1, <1>2 DEF Ids, NoId

\* No request at all.
LEMMA NoRequestOK == NoRequest \in Requests /\ NoRequest.kind = "none"
                     /\ NoRequest.session = NoId /\ "idle" \in Points
  BY DEF NoRequest, Requests, Points

\* The requests the actions make are requests.
LEMMA RequestsMade ==
  /\ \A k \in AllKinds \cup {"gone", "retry"}, a \in Accounts, n \in Nat :
       [NoRequest EXCEPT !.kind = k, !.account = a, !.ordinal = n] \in Requests
  /\ \A k \in AllKinds, s \in Ids, a \in Accounts :
       [NoRequest EXCEPT !.kind = k, !.session = s, !.account = a] \in Requests
  /\ \A a \in Accounts, g \in Nat, u \in BOOLEAN :
       [NoRequest EXCEPT !.kind = "login", !.account = a, !.gen = g, !.unsure = u] \in Requests
  /\ [NoRequest EXCEPT !.kind = "purge"] \in Requests
  BY DEF NoRequest, Requests, AllKinds

\* What the arrival of a request leaves.
LEMMA ArriveOK ==
  ASSUME TypeOK, NEW t \in Threads, NEW point \in Points, NEW r \in Requests,
         Arrive(t, point, r)
  PROVE  /\ pc' \in [AllThreads -> Points] /\ req' \in [AllThreads -> Requests]
         /\ pc[t] = "idle" /\ pc'[t] = point /\ req'[t] = r
         /\ \A u \in AllThreads \ {t} : pc'[u] = pc[u] /\ req'[u] = req[u]
         /\ requests' = requests + 1 /\ requests' \in 0..MaxRequests
         /\ StoreOK' /\ LocksOK'
  BY NumberAssumption DEF Arrive, Go, TypeOK, StoreOK, LocksOK, AllThreads, storeVars, lockVars

\* What answering a request leaves.
LEMMA LeaveOK ==
  ASSUME ThreadsOK, LocksOK, NEW t \in AllThreads, Leave(t)
  PROVE  /\ ThreadsOK' /\ LocksOK' /\ Alone(t)
         /\ pc'[t] = "idle" /\ req'[t] = NoRequest /\ marked'[t] = {}
         /\ setLock' \in {setLock, Nobody}
         /\ \A s \in Ids : checkLock'[s] = IF checkLock[s] = t THEN Nobody ELSE checkLock[s]
  BY NoRequestOK DEF Leave, Go, Free, ThreadsOK, LocksOK, Alone

\* Dropping sessions keeps the store well formed.
LEMMA DropOK == ASSUME StoreOK, NEW S, Drop(S) PROVE StoreOK'
  BY DEF StoreOK, Drop

\* A thread that makes a session has one left to make.
LEMMA InsertOK ==
  ASSUME TypeOK, FreshIds, NEW t \in AllThreads, t \in Making, req[t].account \in Accounts,
         NEW R, Insert(t, R)
  PROVE  StoreOK' /\ nextId \in Ids
  <1>1. IsFiniteSet(Making) /\ Cardinality(Making) \in Nat /\ Cardinality(Making) # 0
    BY ThreadAssumption, FS_Subset, FS_EmptySet, FS_CardinalityType DEF Making
  <1>2. requests \in 0..MaxRequests /\ nextId \in Nat
    BY DEF TypeOK
  <1>3. nextId \in Ids
    BY <1>1, <1>2, IdsAreNumbers, NumberAssumption DEF FreshIds
  <1>4. [account |-> req[t].account, authAt |-> req[t].authAt,
         unsure |-> req[t].unsure, from |-> req[t].session] \in Sessions
    BY DEF TypeOK, Requests, Sessions
  <1>5. StoreOK
    BY TypeParts
  <1>6. live' \subseteq Ids /\ expired' \subseteq live' /\ stale' \subseteq live'
    BY <1>3, <1>5 DEF Insert, StoreOK
  <1>7. \E made \in Sessions : info' = [info EXCEPT ![nextId] = made]
    BY <1>4 DEF Insert
  <1>8. info' \in [Ids -> Sessions]
    BY <1>5, <1>7 DEF StoreOK
  <1>9. nextId' \in Nat
    BY <1>5 DEF Insert, StoreOK
  <1>10. QED
    BY <1>3, <1>6, <1>8, <1>9 DEF StoreOK

\* The account of a request that is about an account or a session.
LEMMA AccountKnown ==
  ASSUME TypeOK, Courses, NEW t \in AllThreads, req[t].kind \notin {"none", "purge"}
  PROVE  req[t].account \in Accounts
  BY DEF Courses, Named

\* The session of a request that is about one.
LEMMA SessionKnown ==
  ASSUME TypeOK, Courses, FreshIds, NEW t \in AllThreads, req[t].kind \in InSession
  PROVE  req[t].session \in Ids /\ req[t].account \in Accounts
  BY DEF Courses, Named, InSession, TypeOK, Requests, NoId

\* A revocation under way is counted.
LEMMA RevocationCounted ==
  ASSUME CountInv, NEW t \in AllThreads, req[t].kind \in Revocations, pc[t] # "retried"
  PROVE  req[t].account \in Accounts /\ Denied(req[t].account)
  <1> USE DEF Denied
  <1> DEFINE a == req[t].account
  <1>1. a \in Accounts
    BY AccountKnown DEF CountInv, Revocations
  <1>2. pending[a] \subseteq 1..begun[a] /\ IsFiniteSet(pending[a])
        /\ Cardinality(pending[a]) \in Nat
    <2>1. begun[a] \in Nat /\ pending[a] \subseteq 1..begun[a]
      BY <1>1 DEF CountInv, TypeOK, Ordinals
    <2>2. IsFiniteSet(1..begun[a])
      BY <2>1, FS_Interval
    <2>3. QED
      BY <2>1, <2>2, FS_Subset, FS_CardinalityType
  <1>3. IsFiniteSet(Revoking(a)) /\ Cardinality(Revoking(a)) \in Nat
    BY ThreadAssumption, FS_Subset, FS_CardinalityType DEF Revoking
  <1>4. denials[a] \in Nat
        /\ denials[a] + (IF pc[a] = "retried" THEN 1 ELSE 0) =
             Cardinality(Revoking(a)) + Cardinality(pending[a])
    BY <1>1 DEF CountInv, TypeOK, DenialsMatch, Revoking
  <1>5. CASE t \in Threads
    <2>1. Cardinality(Revoking(a)) # 0
      BY <1>3, <1>5, FS_EmptySet DEF Revoking
    <2>2. pc[a] = "retried" => Cardinality(pending[a]) # 0
      <3>1. pc[a] = "retried" => req[a].kind = "retry"
        BY <1>1 DEF CountInv, Courses, Roles, OnCourse, AllThreads
      <3>2. QED
        BY <1>1, <1>2, <3>1, FS_EmptySet DEF CountInv, Ordinals
    <2>3. QED
      BY <1>1, <1>2, <1>3, <1>4, <2>1, <2>2
  <1>6. CASE t \in Accounts
    <2>1. a = t /\ req[t].kind = "retry"
      BY <1>6 DEF CountInv, Courses, Roles, Revocations
    <2>2. Cardinality(pending[a]) # 0
      BY <1>1, <1>2, <2>1, FS_EmptySet DEF CountInv, Ordinals
    <2>3. QED
      BY <1>1, <1>2, <1>3, <1>4, <2>1, <2>2
  <1>7. QED
    BY <1>5, <1>6 DEF AllThreads

\* The retry thread takes the first of the revocations that wait.
LEMMA FirstPending ==
  ASSUME TypeOK, NEW a \in Accounts, pending[a] # {}
  PROVE  (CHOOSE n \in pending[a] : \A m \in pending[a] : n <= m) \in pending[a] \cap Nat
  <1>1. pending[a] \in SUBSET Nat
    BY DEF TypeOK
  <1>2. PICK n \in pending[a] : \A m \in pending[a] : <<m, n>> \notin OpToRel(<, Nat)
    BY <1>1, WFMin, NatLessThanWellFounded
  <1>3. \A m \in Nat, k \in Nat : m < k => <<m, k>> \in OpToRel(<, Nat)
    BY DEF OpToRel
  <1>4. ASSUME NEW m \in pending[a], ~(n <= m)
        PROVE  FALSE
    <2>1. m \in Nat /\ n \in Nat /\ m < n
      BY <1>1, <1>4
    <2>2. <<m, n>> \in OpToRel(<, Nat)
      BY <1>3, <2>1, Zenon
    <2>3. QED
      BY <1>2, <2>2, Zenon
  <1>5. QED
    BY <1>1, <1>4

\* Each action keeps the types.
LEMMA NextTypeOK == CountInv /\ [Next]_vars => TypeOK'
  <1> SUFFICES ASSUME CountInv, [Next]_vars
               PROVE  TypeOK'
    OBVIOUS
  <1> USE DEF storeVars, lockVars, accountVars, historyVars
  <1>a. TypeOK /\ Courses /\ FreshIds /\ ThreadsOK /\ LocksOK /\ StoreOK /\ HistoryOK
        /\ AccountsOK
    BY TypeParts DEF CountInv
  <1>1. ASSUME NEW t \in AllThreads,
               TakeSet(t) \/ Choose(t) \/ ChooseRotate(t) \/ LockNext(t) \/ CheckCreate(t)
        PROVE  TypeOK'
    BY <1>1, <1>a DEF TypeOK, TakeSet, Choose, ChooseRotate, LockNext, CheckCreate, Go, Points,
                Candidates, SessionsOf, NextLock
  <1>2. ASSUME NEW t \in AllThreads, TakeLock(t) \/ CheckSend(t)
        PROVE  TypeOK'
    BY <1>2, <1>a DEF TypeOK, TakeLock, CheckSend, Go, Points, Free
  <1>3. ASSUME NEW t \in AllThreads,
               CallerGone(t) \/ RefuseCreate(t) \/ GiveUp(t) \/ SendEnds(t)
        PROVE  TypeOK'
    BY <1>3, <1>a, LeaveOK, TypeParts DEF CallerGone, RefuseCreate, GiveUp, SendEnds,
                StoreOK, HistoryOK, AccountsOK
  <1>4. ASSUME NEW t \in AllThreads, Verify(t)
        PROVE  TypeOK'
    <2>1. CASE Leave(t)
      BY <1>4, <1>a, <2>1, LeaveOK, TypeParts DEF Verify, StoreOK, HistoryOK, AccountsOK
    <2>2. CASE ~Leave(t)
      <3>1. req[t].kind \notin {"none", "purge"}
        BY <1>4, <1>a DEF Verify, Courses, OnCourse
      <3>2. begun[req[t].account] \in Nat
        BY <1>a, <3>1, AccountKnown DEF HistoryOK
      <3>3. req' \in [AllThreads -> Requests]
        BY <1>4, <1>a, <2>2, <3>2 DEF Verify, ThreadsOK, Requests
      <3>4. QED
        BY <1>4, <1>a, <2>2, <3>3 DEF Verify, TypeOK, Go, Points
    <2>3. QED
      BY <2>1, <2>2
  <1>5. ASSUME NEW t \in AllThreads, Audit(t) \/ Refresh(t)
        PROVE  TypeOK'
    <2>1. CASE Leave(t)
      BY <1>5, <1>a, <2>1, LeaveOK, TypeParts DEF Audit, Refresh, StoreOK, HistoryOK, AccountsOK
    <2>2. CASE ~Leave(t)
      BY <1>5, <1>a, <2>2 DEF Audit, Refresh, TypeOK, Go, Points
    <2>3. QED
      BY <2>1, <2>2
  <1>6. ASSUME NEW t \in AllThreads, Sweep(t) \/ RefuseSend(t) \/ RoleUnknown(t)
        PROVE  TypeOK'
    BY <1>6, <1>a, LeaveOK, DropOK, TypeParts DEF Sweep, RefuseSend, RoleUnknown,
                HistoryOK, AccountsOK
  <1>7. ASSUME NEW t \in AllThreads, Logout(t) \/ AnswerTooLate(t)
        PROVE  TypeOK'
    <2>1. StoreOK' /\ ThreadsOK' /\ LocksOK' /\ AccountsOK'
      BY <1>7, <1>a, LeaveOK, DropOK DEF Logout, AnswerTooLate, AccountsOK
    <2>2. req[t].kind \in InSession
      BY <1>7, <1>a DEF Logout, AnswerTooLate, Courses, OnCourse, InSession, TypeOK, Requests,
                  AllKinds
    <2>3. HistoryOK'
      BY <1>7, <1>a, <2>2, SessionKnown DEF Logout, AnswerTooLate, HistoryOK
    <2>4. QED
      BY <2>1, <2>3, TypeParts
  <1>8. ASSUME NEW t \in AllThreads, SweepForLogin(t)
        PROVE  TypeOK'
    <2>1. StoreOK'
      BY <1>8, <1>a, DropOK DEF SweepForLogin
    <2>2. QED
      BY <1>8, <1>a, <2>1, TypeParts DEF SweepForLogin, ThreadsOK, LocksOK, HistoryOK,
                  AccountsOK, Go, Free, Points
  <1>9. ASSUME NEW t \in AllThreads, CheckRotate(t)
        PROVE  TypeOK'
    <2>1. CASE Leave(t)
      BY <1>9, <1>a, <2>1, LeaveOK, DropOK, TypeParts DEF CheckRotate, StoreOK, HistoryOK, AccountsOK
    <2>2. CASE ~Leave(t)
      BY <1>9, <1>a, <2>2 DEF CheckRotate, TypeOK, Go, Points
    <2>3. QED
      BY <2>1, <2>2
  <1>10. ASSUME NEW t \in AllThreads, Recheck(t)
        PROVE  TypeOK'
    <2>1. CASE Leave(t)
      BY <1>10, <1>a, <2>1, LeaveOK, DropOK, TypeParts DEF Recheck, StoreOK, HistoryOK, AccountsOK
    <2>2. CASE ~Leave(t)
      BY <1>10, <1>a, <2>2 DEF Recheck, TypeOK, Go, Points
    <2>3. QED
      BY <2>1, <2>2
  <1>11. ASSUME NEW t \in AllThreads, RoleConfirmed(t)
        PROVE  TypeOK'
    <2>1. StoreOK' /\ HistoryOK' /\ AccountsOK'
      BY <1>11, <1>a DEF RoleConfirmed, StoreOK, HistoryOK, AccountsOK
    <2>2. CASE Leave(t)
      BY <1>a, <2>1, <2>2, LeaveOK, TypeParts
    <2>3. CASE ~Leave(t)
      BY <1>11, <1>a, <2>1, <2>3, TypeParts DEF RoleConfirmed, ThreadsOK, LocksOK, Go, Free, Points
    <2>4. QED
      BY <2>2, <2>3
  <1>12. ASSUME NEW t \in AllThreads, CommitCreate(t) \/ CommitRotate(t)
        PROVE  TypeOK'
    <2>1. t \in Making /\ req[t].account \in Accounts
      BY <1>12, <1>a, AccountKnown DEF CommitCreate, CommitRotate, Making, Courses, Roles, AllThreads
    <2>2. StoreOK'
      BY <1>12, <1>a, <2>1, InsertOK DEF CommitCreate, CommitRotate, StoreOK
    <2>3. QED
      BY <1>12, <1>a, <2>2, LeaveOK, TypeParts DEF CommitCreate, CommitRotate, HistoryOK, AccountsOK
  <1>13. ASSUME NEW t \in AllThreads, SetBusy(t) \/ LocksBusy(t)
        PROVE  TypeOK'
    <2>1. Postpone(t)
      BY <1>13 DEF SetBusy, LocksBusy
    <2>2. req[t].account \in Accounts /\ req[t].ordinal \in Nat
      BY <1>a, <2>1, AccountKnown DEF Postpone, TypeOK, Requests
    <2>3. pending' \in [Accounts -> SUBSET Nat]
      BY <1>a, <2>1, <2>2 DEF Postpone, Deferred, AccountsOK
    <2>4. QED
      BY <1>a, <2>1, <2>3, LeaveOK, TypeParts DEF Postpone, StoreOK, HistoryOK, AccountsOK
  <1>14. ASSUME NEW t \in AllThreads, SweepAccount(t)
        PROVE  TypeOK'
    <2>1. req[t].account \in Accounts /\ denials[req[t].account] > 0 /\ req[t].ordinal \in Nat
      BY <1>14, <1>a, RevocationCounted DEF SweepAccount, Denied, TypeOK, Requests
    <2>2. denials' \in [Accounts -> Nat] /\ barrier' \in [Accounts -> Nat]
      BY <1>14, <1>a, <2>1 DEF SweepAccount, AccountsOK, HistoryOK
    <2>3. StoreOK' /\ HistoryOK' /\ AccountsOK'
      BY <1>14, <1>a, <2>2, DropOK DEF SweepAccount, HistoryOK, AccountsOK
    <2>4. CASE Leave(t)
      BY <1>a, <2>3, <2>4, LeaveOK, TypeParts
    <2>5. CASE ~Leave(t)
      BY <1>14, <1>a, <2>3, <2>5, TypeParts DEF SweepAccount, ThreadsOK, LocksOK, Go, Free, Points
    <2>6. QED
      BY <2>4, <2>5
  <1>15. ASSUME NEW t \in AllThreads, AccountGone(t)
        PROVE  TypeOK'
    <2>1. req[t].account \in Accounts
      BY <1>15, <1>a, AccountKnown DEF AccountGone, Courses, OnCourse
    <2>2. denials' \in [Accounts -> Nat] /\ generation' \in [Accounts -> Nat]
          /\ begun' \in [Accounts -> Nat] /\ missing' \in [Accounts -> Nat]
          /\ UNCHANGED <<pending, barrier, revoked, requests, live, info, nextId, expired, stale>>
      BY <1>15, <1>a, <2>1 DEF AccountGone, Deny, NextGeneration, AccountsOK, HistoryOK
    <2>3. StoreOK' /\ HistoryOK' /\ AccountsOK'
      BY <1>a, <2>2 DEF StoreOK, HistoryOK, AccountsOK
    <2>4. [NoRequest EXCEPT !.kind = "gone", !.account = req[t].account,
             !.ordinal = begun[req[t].account] + 1] \in Requests
      <3>1. begun[req[t].account] + 1 \in Nat
        BY <1>a, <2>1 DEF HistoryOK
      <3>2. QED
        BY <2>1, <3>1, RequestsMade
    <2>5. ThreadsOK' /\ LocksOK'
      BY <1>15, <1>a, <2>4 DEF AccountGone, ThreadsOK, LocksOK, Go, Free, Points
    <2>6. QED
      BY <2>3, <2>5, TypeParts
  <1>16. ASSUME NEW a \in Accounts, Retry(a)
        PROVE  TypeOK'
    <2>1. PICK n : req' = [req EXCEPT ![a] = [NoRequest EXCEPT !.kind = "retry",
                                                 !.account = a, !.ordinal = n]]
                   /\ n = CHOOSE m \in pending[a] : \A o \in pending[a] : m <= o
      BY <1>16 DEF Retry
    <2>2. n \in Nat
      BY <1>16, <1>a, <2>1, FirstPending DEF Retry
    <2>3. [NoRequest EXCEPT !.kind = "retry", !.account = a, !.ordinal = n] \in Requests
      BY <2>2, RequestsMade
    <2>4. ThreadsOK'
      BY <1>16, <1>a, <2>1, <2>3 DEF Retry, ThreadsOK, Go, Points, AllThreads
    <2>5. QED
      BY <1>16, <1>a, <2>4, TypeParts DEF Retry, StoreOK, LocksOK, HistoryOK, AccountsOK
  <1>17. ASSUME NEW a \in Accounts, CountOff(a)
        PROVE  TypeOK'
    <2>1. a \in AllThreads /\ Leave(a)
      BY <1>17 DEF CountOff, AllThreads
    <2>2. ThreadsOK' /\ LocksOK'
      BY <1>a, <2>1, LeaveOK
    <2>3. StoreOK' /\ HistoryOK' /\ AccountsOK'
      BY <1>17, <1>a DEF CountOff, StoreOK, HistoryOK, AccountsOK
    <2>4. QED
      BY <2>2, <2>3, TypeParts
  <1>18. ASSUME NEW t \in Threads, NEW a \in Accounts, BeginLogin(t, a)
        PROVE  TypeOK'
    <2>1. [NoRequest EXCEPT !.kind = "login", !.account = a, !.gen = generation[a],
                            !.unsure = Denied(a)] \in Requests
      <3>1. generation[a] \in Nat /\ Denied(a) \in BOOLEAN
        BY <1>a DEF AccountsOK, Denied
      <3>2. QED
        BY <3>1, RequestsMade
    <2>2. ThreadsOK' /\ StoreOK' /\ LocksOK' /\ requests' \in 0..MaxRequests
      BY <1>18, <1>a, <2>1, ArriveOK DEF BeginLogin, ThreadsOK, Points
    <2>3. QED
      BY <1>18, <1>a, <2>2, TypeParts DEF BeginLogin, HistoryOK, AccountsOK
  <1>19. ASSUME NEW t \in Threads, NEW a \in Accounts, NEW k \in Kinds,
                BeginRevocation(t, k, a)
        PROVE  TypeOK'
    <2>1. [NoRequest EXCEPT !.kind = k, !.account = a, !.ordinal = begun[a] + 1] \in Requests
      <3>1. begun[a] + 1 \in Nat /\ k \in AllKinds
        BY <1>a, KindAssumption DEF HistoryOK
      <3>2. QED
        BY <3>1, RequestsMade
    <2>2. ThreadsOK' /\ StoreOK' /\ LocksOK' /\ requests' \in 0..MaxRequests
      BY <1>19, <1>a, <2>1, ArriveOK DEF BeginRevocation, ThreadsOK, Points
    <2>3. denials' \in [Accounts -> Nat] /\ generation' \in [Accounts -> Nat]
          /\ begun' \in [Accounts -> Nat] /\ UNCHANGED <<pending, barrier, revoked, missing>>
      BY <1>19, <1>a DEF BeginRevocation, Deny, NextGeneration, AccountsOK, HistoryOK
    <2>4. QED
      BY <1>a, <2>2, <2>3, TypeParts DEF HistoryOK, AccountsOK
  <1>20. ASSUME NEW t \in Threads, NEW s \in live, NEW k \in Kinds, BeginInSession(t, k, s)
        PROVE  TypeOK'
    <2>1. s \in Ids /\ k \in AllKinds /\ info[s].account \in Accounts
      BY <1>a, KindAssumption DEF StoreOK, Sessions
    <2>2. PICK point \in Points :
             Arrive(t, point, [NoRequest EXCEPT !.kind = k, !.session = s,
                                                !.account = info[s].account])
      BY <1>20 DEF BeginInSession, Points
    <2>3. ThreadsOK' /\ StoreOK' /\ LocksOK' /\ requests' \in 0..MaxRequests
      BY <1>20, <1>a, <2>1, <2>2, ArriveOK, RequestsMade DEF BeginInSession, ThreadsOK
    <2>4. QED
      BY <1>20, <1>a, <2>3, TypeParts DEF BeginInSession, HistoryOK, AccountsOK
  <1>21. ASSUME NEW t \in Threads, NEW s \in live, BeginLogout(t, s)
        PROVE  TypeOK'
    <2>1. s \in Ids /\ info[s].account \in Accounts /\ "logout" \in AllKinds
      BY <1>a DEF StoreOK, Sessions, AllKinds
    <2> DEFINE r == [NoRequest EXCEPT !.kind = "logout", !.session = s,
                                      !.account = info[s].account]
    <2>2. r \in Requests
      BY <2>1 DEF NoRequest, Requests, AllKinds
    <2> HIDE DEF r
    <2>3. Arrive(t, "wantLock", r) /\ "wantLock" \in Points
      BY <1>21 DEF BeginLogout, Points, r
    <2>4. /\ pc' \in [AllThreads -> Points] /\ req' \in [AllThreads -> Requests]
          /\ StoreOK' /\ LocksOK' /\ requests' \in 0..MaxRequests
      BY <1>a, <2>2, <2>3, ArriveOK
    <2>5. marked' \in [AllThreads -> SUBSET Ids]
      BY <1>21, <1>a, <2>1 DEF BeginLogout, ThreadsOK
    <2>6. QED
      BY <1>21, <1>a, <2>4, <2>5, TypeParts DEF BeginLogout, ThreadsOK, HistoryOK, AccountsOK
  <1>22. ASSUME NEW t \in Threads, BeginPurge(t)
        PROVE  TypeOK'
    <2>1. ThreadsOK' /\ StoreOK' /\ LocksOK' /\ requests' \in 0..MaxRequests
      BY <1>22, <1>a, ArriveOK, RequestsMade DEF BeginPurge, ThreadsOK, Points, StoreOK
    <2>2. QED
      BY <1>22, <1>a, <2>1, TypeParts DEF BeginPurge, HistoryOK, AccountsOK
  <1>23. ASSUME NEW s \in live, Expire(s) \/ GoStale(s) \/ DropExpired(s)
        PROVE  TypeOK'
    BY <1>23, <1>a DEF Expire, GoStale, DropExpired, Drop, TypeOK
  <1>24. CASE Rest \/ UNCHANGED vars
    BY <1>24, <1>a DEF Rest, vars, TypeOK
  <1>25. QED
    BY <1>1, <1>2, <1>3, <1>4, <1>5, <1>6, <1>7, <1>8, <1>9, <1>10, <1>11, <1>12, <1>13,
       <1>14, <1>15, <1>16, <1>17, <1>18, <1>19, <1>20, <1>21, <1>22, <1>23, <1>24
       DEF Next, Step
-----------------------------------------------------------------------------
(* The course of requests *)

\* What is known of the ids given out so far does not change.
InfoKept == /\ nextId' \in {nextId, nextId + 1}
            /\ \A s \in 1..(nextId - 1) : info'[s] = info[s]

LEMMA StoreSteps ==
  ASSUME TypeOK, NEW t, NEW S,
         UNCHANGED storeVars \/ UNCHANGED <<info, nextId>> \/ Drop(S) \/ Insert(t, S)
  PROVE  InfoKept
  <1>1. CASE Insert(t, S)
    <2>1. nextId \in Nat /\ info \in [Ids -> Sessions] /\ nextId' = nextId + 1
      BY <1>1 DEF Insert, TypeOK
    <2>2. \E made : info' = [info EXCEPT ![nextId] = made]
      BY <1>1 DEF Insert
    <2>3. QED
      BY <2>1, <2>2 DEF InfoKept
  <1>2. CASE ~Insert(t, S)
    BY <1>2 DEF InfoKept, storeVars, Drop
  <1>3. QED
    BY <1>1, <1>2

\* One thread moves on its course.
LEMMA OneCourse ==
  ASSUME TypeOK, Courses, NEW t \in AllThreads, Alone(t), InfoKept,
         OnCourse(t)', Named(t)',
         t \in Threads => req'[t].kind # "retry",
         t \in Accounts => /\ req'[t].kind \in {"none", "retry"}
                           /\ req'[t].kind = "retry" => req'[t].account = t
  PROVE  Courses'
  <1>1. ASSUME NEW u \in AllThreads, u # t
        PROVE  OnCourse(u)' /\ Named(u)'
    <2>1. pc'[u] = pc[u] /\ req'[u] = req[u] /\ OnCourse(u) /\ Named(u)
      BY <1>1 DEF Alone, Courses
    <2>2. OnCourse(u)'
      BY <2>1 DEF OnCourse
    <2>3. Named(u)'
      BY <2>1 DEF Named, InfoKept, TypeOK
    <2>4. QED
      BY <2>2, <2>3
  <1>2. Roles'
    BY DEF Roles, Courses, Alone, AllThreads
  <1>3. QED
    BY <1>1, <1>2 DEF Courses

\* A request that is answered is none.
LEMMA LeaveCourse ==
  ASSUME TypeOK, Courses, NEW t \in AllThreads, Leave(t), InfoKept
  PROVE  Courses'
  <1>1. Alone(t) /\ pc'[t] = "idle" /\ req'[t] = NoRequest
    BY LeaveOK, TypeParts
  <1>2. OnCourse(t)' /\ Named(t)'
    BY <1>1, NoRequestOK DEF OnCourse, Named, InSession
  <1>3. QED
    BY <1>1, <1>2, OneCourse, NoRequestOK

\* A request that goes on is the same.
LEMMA GoCourse ==
  ASSUME TypeOK, Courses, NEW t \in AllThreads, NEW point, Go(t, point), InfoKept,
         UNCHANGED req, \A u \in AllThreads \ {t} : marked'[u] = marked[u],
         OnCourse(t)'
  PROVE  Courses'
  <1>1. Alone(t)
    BY DEF Go, Alone, TypeOK
  <1>2. Named(t)'
    <2>1. Named(t) /\ req'[t] = req[t]
      BY DEF Courses
    <2>2. /\ req[t].session \in 1..(nextId - 1) =>
               req[t].session \in 1..(nextId' - 1)
                 /\ info'[req[t].session] = info[req[t].session]
      BY DEF InfoKept, TypeOK
    <2>3. QED
      BY <2>1, <2>2 DEF Named
  <1>3. QED
    BY <1>1, <1>2, OneCourse DEF Courses, Roles

\* Each action keeps every request on its course.
LEMMA NextCourses == CountInv /\ [Next]_vars => Courses'
  <1> SUFFICES ASSUME CountInv, [Next]_vars
               PROVE  Courses'
    OBVIOUS
  <1>a. TypeOK /\ Courses /\ FreshIds /\ \A t \in AllThreads : OnCourse(t) /\ Named(t)
    BY DEF CountInv, Courses
  <1>1. ASSUME NEW t \in AllThreads, TakeSet(t) \/ Choose(t) \/ ChooseRotate(t)
        PROVE  Courses'
    <2>1. InfoKept /\ UNCHANGED req /\ \A u \in AllThreads \ {t} : marked'[u] = marked[u]
      BY <1>1, <1>a, StoreSteps DEF TakeSet, Choose, ChooseRotate, TypeOK
    <2>2. OnCourse(t)' /\ \E point : Go(t, point)
      BY <1>1, <1>a DEF TakeSet, Choose, ChooseRotate, TypeOK, OnCourse, Go
    <2>3. QED
      BY <1>a, <2>1, <2>2, GoCourse
  <1>2. ASSUME NEW t \in AllThreads, LockNext(t)
        PROVE  Courses'
    BY <1>2, <1>a DEF LockNext, storeVars, Courses, Roles, OnCourse, Named
  <1>3. ASSUME NEW t \in AllThreads, CheckCreate(t) \/ TakeLock(t) \/ CheckSend(t)
        PROVE  Courses'
    <2>1. InfoKept /\ UNCHANGED <<req, marked>>
      BY <1>3, <1>a, StoreSteps DEF CheckCreate, TakeLock, CheckSend
    <2>2. OnCourse(t)' /\ \E point : Go(t, point)
      BY <1>3, <1>a DEF CheckCreate, TakeLock, CheckSend, TypeOK, OnCourse, Go
    <2>3. QED
      BY <1>a, <2>1, <2>2, GoCourse
  <1>4. ASSUME NEW t \in AllThreads,
               CallerGone(t) \/ RefuseCreate(t) \/ GiveUp(t) \/ SendEnds(t)
               \/ SetBusy(t) \/ LocksBusy(t)
        PROVE  Courses'
    BY <1>4, <1>a, StoreSteps, LeaveCourse DEF CallerGone, RefuseCreate, GiveUp, SendEnds,
                SetBusy, LocksBusy, Postpone
  <1>5. ASSUME NEW t \in AllThreads,
               Sweep(t) \/ RefuseSend(t) \/ RoleUnknown(t) \/ Logout(t) \/ AnswerTooLate(t)
        PROVE  Courses'
    BY <1>5, <1>a, StoreSteps, LeaveCourse DEF Sweep, RefuseSend, RoleUnknown, Logout,
                AnswerTooLate
  <1>6. ASSUME NEW t \in AllThreads, CommitCreate(t) \/ CommitRotate(t)
        PROVE  Courses'
    BY <1>6, <1>a, StoreSteps, LeaveCourse DEF CommitCreate, CommitRotate
  <1>7. ASSUME NEW t \in AllThreads, Verify(t)
        PROVE  Courses'
    <2>1. InfoKept
      BY <1>7, <1>a, StoreSteps DEF Verify
    <2>2. CASE Leave(t)
      BY <1>a, <2>1, <2>2, LeaveCourse
    <2>3. CASE ~Leave(t)
      <3>1. /\ Go(t, "wantSet") /\ UNCHANGED marked /\ pc[t] = "verify"
            /\ req' = [req EXCEPT ![t].authAt = begun[req[t].account]]
        BY <1>7, <2>3 DEF Verify
      <3>2. /\ Alone(t) /\ pc'[t] = "wantSet" /\ req'[t].kind = req[t].kind
            /\ req'[t].account = req[t].account /\ req'[t].session = req[t].session
        BY <1>a, <3>1 DEF Alone, Go, TypeOK, Requests
      <3>3. OnCourse(t)' /\ Named(t)'
        BY <1>a, <2>1, <3>1, <3>2 DEF OnCourse, Named, InfoKept, TypeOK
      <3>4. QED
        BY <1>a, <2>1, <3>2, <3>3, OneCourse DEF Courses, Roles
    <2>4. QED
      BY <2>2, <2>3
  <1>8. ASSUME NEW t \in AllThreads,
               Audit(t) \/ Refresh(t) \/ CheckRotate(t) \/ Recheck(t) \/ RoleConfirmed(t)
        PROVE  Courses'
    <2>1. InfoKept
      BY <1>8, <1>a, StoreSteps DEF Audit, Refresh, CheckRotate, Recheck, RoleConfirmed
    <2>2. CASE Leave(t)
      BY <1>a, <2>1, <2>2, LeaveCourse
    <2>3. CASE ~Leave(t)
      <3>1. /\ UNCHANGED <<req, marked>>
            /\ \E point : Go(t, point)
        BY <1>8, <2>3 DEF Audit, Refresh, CheckRotate, Recheck, RoleConfirmed
      <3>2. OnCourse(t)'
        BY <1>8, <1>a, <2>3 DEF Audit, Refresh, CheckRotate, Recheck, RoleConfirmed, TypeOK,
                    OnCourse, Go
      <3>3. QED
        BY <1>a, <2>1, <3>1, <3>2, GoCourse
    <2>4. QED
      BY <2>2, <2>3
  <1>9. ASSUME NEW t \in AllThreads, SweepForLogin(t)
        PROVE  Courses'
    <2>1. InfoKept /\ UNCHANGED req /\ Go(t, "create")
          /\ \A u \in AllThreads \ {t} : marked'[u] = marked[u]
      BY <1>9, <1>a, StoreSteps DEF SweepForLogin, TypeOK
    <2>2. OnCourse(t)'
      BY <1>9, <1>a DEF SweepForLogin, TypeOK, OnCourse, Go
    <2>3. QED
      BY <1>a, <2>1, <2>2, GoCourse
  <1>10. ASSUME NEW t \in AllThreads, SweepAccount(t)
        PROVE  Courses'
    <2>1. InfoKept
      BY <1>10, <1>a, StoreSteps DEF SweepAccount
    <2>2. CASE Leave(t)
      BY <1>a, <2>1, <2>2, LeaveCourse
    <2>3. CASE ~Leave(t)
      <3>1. /\ UNCHANGED req /\ Go(t, "retried") /\ req[t].kind = "retry"
            /\ \A u \in AllThreads \ {t} : marked'[u] = marked[u]
        BY <1>10, <1>a, <2>3 DEF SweepAccount, TypeOK
      <3>2. OnCourse(t)'
        BY <1>a, <3>1 DEF TypeOK, OnCourse, Go
      <3>3. QED
        BY <1>a, <2>1, <3>1, <3>2, GoCourse
    <2>4. QED
      BY <2>2, <2>3
  <1>11. ASSUME NEW t \in AllThreads, AccountGone(t)
        PROVE  Courses'
    <2>1. InfoKept /\ req[t].account \in Accounts /\ t \in Threads
      BY <1>11, <1>a, StoreSteps, AccountKnown DEF AccountGone, OnCourse, Courses, Roles, AllThreads
    <2>2. /\ Alone(t) /\ pc'[t] = "wantSet" /\ req'[t].kind = "gone"
          /\ req'[t].session = NoId /\ req'[t].account = req[t].account
      BY <1>11, <1>a DEF AccountGone, Alone, Go, TypeOK, NoRequest
    <2>3. OnCourse(t)' /\ Named(t)'
      BY <2>1, <2>2 DEF OnCourse, Named, InSession
    <2>4. QED
      BY <1>a, <2>1, <2>2, <2>3, OneCourse, ThreadAssumption
  <1>12. ASSUME NEW a \in Accounts, Retry(a)
        PROVE  Courses'
    <2>1. /\ InfoKept /\ Alone(a) /\ pc'[a] = "wantSet" /\ req'[a].kind = "retry"
          /\ req'[a].session = NoId /\ req'[a].account = a
      BY <1>12, <1>a, StoreSteps DEF Retry, Alone, Go, TypeOK, NoRequest, AllThreads
    <2>2. OnCourse(a)' /\ Named(a)'
      BY <2>1 DEF OnCourse, Named, InSession
    <2>3. QED
      BY <1>a, <2>1, <2>2, OneCourse, ThreadAssumption DEF AllThreads
  <1>13. ASSUME NEW a \in Accounts, CountOff(a)
        PROVE  Courses'
    BY <1>13, <1>a, StoreSteps, LeaveCourse DEF CountOff, AllThreads
  <1>14. ASSUME NEW t \in Threads, NEW a \in Accounts, NEW k \in Kinds,
                BeginRevocation(t, k, a)
        PROVE  Courses'
    <2>1. InfoKept /\ Alone(t) /\ t \in AllThreads
      BY <1>14, <1>a, StoreSteps DEF BeginRevocation, Arrive, Alone, Go, TypeOK, AllThreads
    <2>2. /\ pc'[t] = "wantSet" /\ k \in {"revokeAccount", "revokeInLoop"}
          /\ req'[t] = [NoRequest EXCEPT !.kind = k, !.account = a, !.ordinal = begun[a] + 1]
      BY <1>14, <1>a, <2>1 DEF BeginRevocation, Arrive, Go, TypeOK
    <2>3. req'[t].kind = k /\ req'[t].account = a /\ req'[t].session = NoId
      BY <2>2 DEF NoRequest
    <2>4. OnCourse(t)' /\ Named(t)'
      BY <2>2, <2>3 DEF OnCourse, Named, InSession
    <2>5. QED
      BY <1>a, <2>1, <2>2, <2>3, <2>4, OneCourse, ThreadAssumption
  <1>15. ASSUME NEW t \in Threads, NEW a \in Accounts, BeginLogin(t, a)
        PROVE  Courses'
    <2>1. InfoKept /\ Alone(t) /\ t \in AllThreads
      BY <1>15, <1>a, StoreSteps DEF BeginLogin, Arrive, Alone, Go, TypeOK, AllThreads
    <2>2. /\ pc'[t] = "verify"
          /\ req'[t] = [NoRequest EXCEPT !.kind = "login", !.account = a,
                                         !.gen = generation[a], !.unsure = Denied(a)]
      BY <1>15, <1>a, <2>1 DEF BeginLogin, Arrive, Go, TypeOK
    <2>3. req'[t].kind = "login" /\ req'[t].account = a /\ req'[t].session = NoId
      BY <2>2 DEF NoRequest
    <2>4. OnCourse(t)' /\ Named(t)'
      BY <2>2, <2>3 DEF OnCourse, Named, InSession
    <2>5. QED
      BY <1>a, <2>1, <2>3, <2>4, OneCourse, ThreadAssumption
  <1>16. ASSUME NEW t \in Threads, BeginPurge(t)
        PROVE  Courses'
    <2>1. InfoKept /\ Alone(t) /\ t \in AllThreads
      BY <1>16, <1>a, StoreSteps DEF BeginPurge, Arrive, Alone, Go, TypeOK, AllThreads
    <2>2. pc'[t] = "locking" /\ req'[t] = [NoRequest EXCEPT !.kind = "purge"]
      BY <1>16, <1>a, <2>1 DEF BeginPurge, Arrive, Go, TypeOK
    <2>3. req'[t].kind = "purge" /\ req'[t].session = NoId
      BY <2>2 DEF NoRequest
    <2>4. OnCourse(t)' /\ Named(t)'
      BY <2>2, <2>3 DEF OnCourse, Named, InSession
    <2>5. QED
      BY <1>a, <2>1, <2>3, <2>4, OneCourse, ThreadAssumption
  <1>17. ASSUME NEW t \in Threads, NEW s \in live, NEW k, NEW point,
                Arrive(t, point, [NoRequest EXCEPT !.kind = k, !.session = s,
                                                   !.account = info[s].account]),
                \A u \in AllThreads \ {t} : marked'[u] = marked[u],
                \/ point = "verify" /\ k = "rotate"
                \/ point = "wantSet" /\ k = "revokeOthers"
                \/ point = "refresh" /\ k = "refresh"
                \/ point = "wantLock" /\ k \in {"deliver", "logout"}
        PROVE  Courses'
    <2>1. InfoKept /\ Alone(t) /\ t \in AllThreads
      BY <1>17, <1>a, StoreSteps DEF Arrive, Alone, Go, TypeOK, AllThreads
    <2>2. /\ pc'[t] = point
          /\ req'[t] = [NoRequest EXCEPT !.kind = k, !.session = s, !.account = info[s].account]
      BY <1>17, <1>a, <2>1 DEF Arrive, Go, TypeOK
    <2>3. req'[t].kind = k /\ req'[t].account = info[s].account /\ req'[t].session = s
      BY <2>2 DEF NoRequest
    <2>4. s \in 1..(nextId - 1) /\ info[s].account \in Accounts /\ UNCHANGED <<info, nextId>>
      BY <1>17, <1>a DEF FreshIds, TypeOK, Sessions, Arrive, storeVars
    <2>5. OnCourse(t)' /\ Named(t)'
      BY <1>17, <2>2, <2>3, <2>4 DEF OnCourse, Named, InSession
    <2>6. QED
      BY <1>17, <1>a, <2>1, <2>3, <2>5, OneCourse, ThreadAssumption
  <1>18. ASSUME NEW t \in Threads, NEW s \in live, NEW k \in Kinds, BeginInSession(t, k, s)
        PROVE  Courses'
    BY <1>17, <1>18 DEF BeginInSession
  <1>19. ASSUME NEW t \in Threads, NEW s \in live, BeginLogout(t, s)
        PROVE  Courses'
    BY <1>17, <1>19, <1>a DEF BeginLogout, TypeOK
  <1>20. CASE UNCHANGED <<pc, req, info, nextId>>
    BY <1>20, <1>a DEF Courses, Roles, OnCourse, Named
  <1>21. ASSUME NEW s \in live, Expire(s) \/ GoStale(s) \/ DropExpired(s)
        PROVE  UNCHANGED <<pc, req, info, nextId>>
    BY <1>21 DEF Expire, GoStale, DropExpired, Drop
  <1>22. CASE Rest \/ UNCHANGED vars
    BY <1>20, <1>22 DEF Rest, vars, storeVars
  <1>23. ASSUME NEW t \in AllThreads, Step(t)
        PROVE  Courses'
    BY <1>1, <1>2, <1>3, <1>4, <1>5, <1>6, <1>7, <1>8, <1>9, <1>10, <1>11, <1>23 DEF Step
  <1>24. QED
    BY <1>12, <1>13, <1>14, <1>15, <1>16, <1>18, <1>19, <1>20, <1>21, <1>22, <1>23 DEF Next

-----------------------------------------------------------------------------
(* Ids *)

LEMMA MakingCounted ==
  /\ IsFiniteSet(Making) /\ Cardinality(Making) \in Nat
  /\ IsFiniteSet(Making') /\ Cardinality(Making') \in Nat
  /\ \A t \in Threads :
       /\ t \in Making <=> req[t].kind \in {"login", "rotate"}
       /\ t \in Making' <=> req'[t].kind \in {"login", "rotate"}
  <1>1. Making \subseteq Threads /\ Making' \subseteq Threads
    BY DEF Making
  <1>2. QED
    BY <1>1, ThreadAssumption, FS_Subset, FS_CardinalityType DEF Making

\* A step that gives no id away and makes no maker.
LEMMA SameIds ==
  ASSUME TypeOK, Courses, FreshIds, nextId' = nextId, live' \subseteq live,
         requests' = requests,
         \A t \in Threads : t \in Making' => t \in Making,
         \/ revoked' = revoked
         \/ \E t \in AllThreads : /\ req[t].kind \in InSession
                                  /\ revoked' = revoked \cup {req[t].session}
  PROVE  FreshIds'
  <1>1. Making' \subseteq Making
    BY DEF Making
  <1>2. Cardinality(Making') <= Cardinality(Making)
    BY <1>1, MakingCounted, FS_Subset
  <1>3. requests \in Nat /\ nextId \in Nat /\ Established \in Nat
    BY NumberAssumption DEF TypeOK
  <1>4. nextId' + Cardinality(Making') <= Established + 1 + requests'
    BY <1>2, <1>3, MakingCounted DEF FreshIds
  <1>5. revoked' \subseteq 1..(nextId - 1)
    BY DEF FreshIds, Courses, Named
  <1>6. QED
    BY <1>4, <1>5 DEF FreshIds

\* A request that arrives may make one session.
LEMMA OneMoreMaker ==
  ASSUME TypeOK, FreshIds, NEW t \in Threads, NEW point, NEW r, Arrive(t, point, r),
         UNCHANGED revoked
  PROVE  FreshIds'
  <1>1. Making' \subseteq Making \cup {t}
    BY DEF Making, Arrive, TypeOK
  <1>2. /\ IsFiniteSet(Making \cup {t})
        /\ Cardinality(Making \cup {t}) \in {Cardinality(Making), Cardinality(Making) + 1}
    BY MakingCounted, FS_AddElement
  <1>3. Cardinality(Making') <= Cardinality(Making) + 1
    BY <1>1, <1>2, MakingCounted, FS_Subset
  <1>4. requests \in Nat /\ nextId \in Nat /\ Established \in Nat
    BY NumberAssumption DEF TypeOK
  <1>5. requests' = requests + 1 /\ nextId' = nextId /\ live' = live
    BY DEF Arrive, storeVars
  <1>6. QED
    BY <1>3, <1>4, <1>5, MakingCounted DEF FreshIds

\* A thread that has made its session makes no other.
LEMMA OneMakerLess ==
  ASSUME TypeOK, FreshIds, NEW t \in Threads, t \in Making, Leave(t), NEW S, Insert(t, S),
         UNCHANGED <<requests, revoked>>
  PROVE  FreshIds'
  <1>1. Making' \subseteq Making \ {t}
    BY ThreadAssumption, LeaveOK, TypeParts, NoRequestOK DEF Making, Alone, AllThreads
  <1>2. /\ IsFiniteSet(Making \ {t})
        /\ Cardinality(Making \ {t}) = Cardinality(Making) - 1
    BY MakingCounted, FS_RemoveElement
  <1>3. Cardinality(Making') <= Cardinality(Making) - 1
    BY <1>1, <1>2, MakingCounted, FS_Subset
  <1>4. requests \in Nat /\ nextId \in Nat /\ Established \in Nat
    BY NumberAssumption DEF TypeOK
  <1>5. nextId' = nextId + 1 /\ live' \subseteq live \cup {nextId}
    BY DEF Insert
  <1>6. live' \subseteq 1..(nextId' - 1) /\ revoked' \subseteq 1..(nextId' - 1) /\ nextId' >= 1
    BY <1>4, <1>5 DEF FreshIds
  <1>7. nextId' + Cardinality(Making') <= Established + 1 + requests'
    BY <1>3, <1>4, <1>5, MakingCounted DEF FreshIds
  <1>8. QED
    BY <1>6, <1>7 DEF FreshIds

\* What one thread's step other than the making of a session does to the store.
LEMMA StepDrops ==
  ASSUME TypeOK, Courses, NEW t \in AllThreads, Step(t)
  PROVE  /\ requests' = requests
         /\ \/ \E S : Insert(t, S) /\ Leave(t) /\ UNCHANGED revoked
                      /\ req[t].kind \in {"login", "rotate"}
            \/ /\ nextId' = nextId /\ info' = info /\ live' \subseteq live
               /\ req'[t].kind \in {req[t].kind, "none", "gone"}
               /\ \A u \in AllThreads \ {t} : req'[u] = req[u]
               /\ \/ revoked' = revoked
                  \/ req[t].kind = "logout" /\ revoked' = revoked \cup {req[t].session}
                     /\ live' \subseteq live \ {req[t].session} /\ pc[t] = "locked"
  <1> USE DEF storeVars, historyVars
  <1> DEFINE Left == /\ req'[t].kind \in {req[t].kind, "none", "gone"}
                     /\ \A u \in AllThreads \ {t} : req'[u] = req[u]
  <1>1. UNCHANGED req => Left
    OBVIOUS
  <1>2. Leave(t) => Left
    BY LeaveOK, TypeParts, NoRequestOK DEF Alone
  <1>3. CASE Verify(t)
    BY <1>2, <1>3 DEF Verify, TypeOK, Requests
  <1>4. CASE AccountGone(t)
    BY <1>4 DEF AccountGone, TypeOK, Deny, NoRequest
  <1>5. CASE CommitCreate(t) \/ CommitRotate(t)
    BY <1>2, <1>5 DEF CommitCreate, CommitRotate
  <1>6. CASE Sweep(t) \/ SweepForLogin(t) \/ SweepAccount(t) \/ CheckRotate(t) \/ RefuseSend(t)
             \/ Recheck(t) \/ AnswerTooLate(t) \/ RoleUnknown(t)
    BY <1>1, <1>2, <1>6 DEF Sweep, SweepForLogin, SweepAccount, CheckRotate, RefuseSend,
                Recheck, AnswerTooLate, RoleUnknown, Drop
  <1>7. CASE Logout(t)
    BY <1>2, <1>7 DEF Logout, Drop
  <1>8. CASE TakeSet(t) \/ SetBusy(t) \/ Choose(t) \/ LocksBusy(t) \/ ChooseRotate(t)
             \/ CallerGone(t) \/ LockNext(t) \/ CheckCreate(t) \/ RefuseCreate(t) \/ Audit(t)
             \/ TakeLock(t) \/ GiveUp(t) \/ CheckSend(t) \/ SendEnds(t) \/ Refresh(t)
             \/ RoleConfirmed(t)
    BY <1>1, <1>2, <1>8 DEF TakeSet, SetBusy, Choose, LocksBusy, ChooseRotate, CallerGone,
                LockNext, CheckCreate, RefuseCreate, Audit, TakeLock, GiveUp, CheckSend,
                SendEnds, Refresh, RoleConfirmed, Postpone
  <1>9. QED
    BY <1>3, <1>4, <1>5, <1>6, <1>7, <1>8 DEF Step

\* A step of the retry thread's own, of time, or none.
Aside ==
  \/ \E a \in Accounts : Retry(a) \/ CountOff(a)
  \/ \E s \in live : Expire(s) \/ GoStale(s) \/ DropExpired(s)
  \/ Rest \/ UNCHANGED vars
LEMMA AsideDrops ==
  ASSUME TypeOK, Aside
  PROVE  /\ requests' = requests /\ nextId' = nextId /\ info' = info /\ live' \subseteq live
         /\ revoked' = revoked
         /\ \A u \in Threads : req'[u] = req[u]
         /\ \A s \in live \ live' : s \in expired
  <1> USE DEF storeVars, historyVars
  <1>1. ASSUME NEW a \in Accounts, CountOff(a)
        PROVE  live' = live /\ \A u \in Threads : req'[u] = req[u]
    BY <1>1, LeaveOK, TypeParts, ThreadAssumption DEF CountOff, Alone, AllThreads
  <1>2. ASSUME NEW a \in Accounts, Retry(a)
        PROVE  live' = live /\ \A u \in Threads : req'[u] = req[u]
    <2>1. live' = live /\ \E r : req' = [req EXCEPT ![a] = r]
      BY <1>2 DEF Retry
    <2>2. QED
      BY <2>1, ThreadAssumption DEF TypeOK, AllThreads
  <1>3. ASSUME NEW s \in live, Expire(s) \/ GoStale(s) \/ DropExpired(s)
        PROVE  live' \subseteq live /\ UNCHANGED req /\ live \ live' \subseteq expired
    BY <1>3 DEF Expire, GoStale, DropExpired, Drop
  <1>4. QED
    BY <1>1, <1>2, <1>3 DEF Aside, Retry, CountOff, Expire, GoStale, DropExpired, Drop, Rest, vars

\* A request arrives.
Arrival ==
  \E t \in Threads :
    \/ \E a \in Accounts : BeginLogin(t, a)
    \/ \E a \in Accounts, k \in Kinds : BeginRevocation(t, k, a)
    \/ \E s \in live, k \in Kinds : BeginInSession(t, k, s)
    \/ \E s \in live : BeginLogout(t, s)
    \/ BeginPurge(t)
LEMMA ArrivalArrives ==
  ASSUME Arrival
  PROVE  UNCHANGED revoked /\ \E t \in Threads : \E point, r : Arrive(t, point, r)
  <1> DEFINE Arrives == UNCHANGED revoked /\ \E t \in Threads : \E point, r : Arrive(t, point, r)
  <1>1. ASSUME NEW t \in Threads, NEW a \in Accounts, BeginLogin(t, a)
        PROVE  Arrives
    BY <1>1 DEF BeginLogin
  <1>2. ASSUME NEW t \in Threads, NEW a \in Accounts, NEW k \in Kinds, BeginRevocation(t, k, a)
        PROVE  Arrives
    BY <1>2 DEF BeginRevocation, Deny
  <1>3. ASSUME NEW t \in Threads, NEW s \in live, NEW k \in Kinds, BeginInSession(t, k, s)
        PROVE  Arrives
    BY <1>3 DEF BeginInSession
  <1>4. ASSUME NEW t \in Threads, NEW s \in live, BeginLogout(t, s)
        PROVE  Arrives
    BY <1>4 DEF BeginLogout
  <1>5. ASSUME NEW t \in Threads, BeginPurge(t)
        PROVE  Arrives
    BY <1>5 DEF BeginPurge
  <1> HIDE DEF Arrives
  <1>6. Arrives
    BY <1>1, <1>2, <1>3, <1>4, <1>5 DEF Arrival
  <1>7. QED
    BY <1>6 DEF Arrives

LEMMA NextCases ==
  [Next]_vars => Aside \/ Arrival \/ \E t \in AllThreads : Step(t)
  BY DEF Next, Aside, Arrival

LEMMA NextFreshIds == CountInv /\ [Next]_vars => FreshIds'
  <1> SUFFICES ASSUME CountInv, [Next]_vars
               PROVE  FreshIds'
    OBVIOUS
  <1>a. TypeOK /\ Courses /\ FreshIds
    BY DEF CountInv
  <1>1. CASE Aside
    BY <1>1, <1>a, AsideDrops, SameIds, MakingCounted
  <1>2. CASE Arrival
    BY <1>2, <1>a, ArrivalArrives, OneMoreMaker
  <1>3. ASSUME NEW t \in AllThreads, Step(t)
        PROVE  FreshIds'
    <2>1. ASSUME NEW S, Insert(t, S), Leave(t), UNCHANGED <<revoked, requests>>,
                 req[t].kind \in {"login", "rotate"}
          PROVE  FreshIds'
      <3>1. t \in Threads
        BY <1>a, <2>1 DEF Courses, Roles, AllThreads
      <3>2. QED
        BY <1>a, <2>1, <3>1, OneMakerLess, MakingCounted
    <2>2. ASSUME nextId' = nextId, live' \subseteq live, requests' = requests,
                 req'[t].kind \in {req[t].kind, "none", "gone"},
                 \A u \in AllThreads \ {t} : req'[u] = req[u],
                 \/ revoked' = revoked
                 \/ req[t].kind = "logout" /\ revoked' = revoked \cup {req[t].session}
          PROVE  FreshIds'
      <3>1. \A u \in Threads : u \in Making' => u \in Making
        BY <2>2, MakingCounted DEF AllThreads
      <3>2. QED
        BY <1>a, <2>2, <3>1, SameIds DEF InSession
    <2>3. QED
      BY <1>a, <1>3, <2>1, <2>2, StepDrops
  <1>4. QED
    BY <1>1, <1>2, <1>3, NextCases
-----------------------------------------------------------------------------
(* The counting of revocations *)

\* A thread with nothing to do has no request.
LEMMA IdleHasNone ==
  ASSUME TypeOK, Courses, NEW t \in AllThreads, pc[t] = "idle"
  PROVE  req[t].kind = "none"
  BY DEF TypeOK, Courses, OnCourse, Requests, AllKinds

LEMMA RevokingCounted ==
  ASSUME NEW a
  PROVE  /\ IsFiniteSet(Revoking(a)) /\ Cardinality(Revoking(a)) \in Nat
         /\ IsFiniteSet(Revoking(a)') /\ Cardinality(Revoking(a)') \in Nat
  <1>1. Revoking(a) \subseteq Threads /\ Revoking(a)' \subseteq Threads
    BY DEF Revoking
  <1>2. QED
    BY <1>1, ThreadAssumption, FS_Subset, FS_CardinalityType

LEMMA PendingCounted ==
  ASSUME TypeOK, Ordinals, NEW a \in Accounts
  PROVE  IsFiniteSet(pending[a]) /\ Cardinality(pending[a]) \in Nat
  <1>1. begun[a] \in Nat /\ pending[a] \subseteq 1..begun[a]
    BY DEF TypeOK, Ordinals
  <1>2. IsFiniteSet(1..begun[a])
    BY <1>1, FS_Interval
  <1>3. QED
    BY <1>1, <1>2, FS_Subset, FS_CardinalityType

\* Steps that begin no revocation, end none and put none off.
SameRevocation(u) == /\ req'[u].kind \in Revocations <=> req[u].kind \in Revocations
                     /\ req[u].kind \in Revocations => req'[u] = req[u]
Calm ==
  /\ UNCHANGED <<denials, pending, begun, barrier>>
  /\ \A u \in Threads : SameRevocation(u)
  /\ \A a \in Accounts : /\ pc'[a] = "retried" <=> pc[a] = "retried"
                         /\ req'[a].kind = "retry" => req'[a].ordinal \in pending[a]

LEMMA CalmKeeps ==
  ASSUME TypeOK, Ordinals, DenialsMatch, Calm
  PROVE  Ordinals' /\ DenialsMatch'
  <1>1. ASSUME NEW a \in Accounts
        PROVE  Revoking(a)' = Revoking(a)
    BY <1>1 DEF Calm, Revoking, SameRevocation
  <1>2. DenialsMatch'
    BY <1>1 DEF Calm, DenialsMatch, Revoking
  <1>3. \A a \in Accounts : \A t \in Revoking(a) : req'[t] = req[t]
    BY DEF Calm, Revoking, SameRevocation
  <1>4. Ordinals'
    BY <1>1, <1>3 DEF Calm, Ordinals
  <1>5. QED
    BY <1>2, <1>4

\* A revocation begins.
LEMMA DenyCounts ==
  ASSUME CountInv, NEW t \in Threads, NEW a \in Accounts, Deny(a),
         req[t].kind \notin Revocations,
         req'[t].kind \in Revocations, req'[t].account = a, req'[t].ordinal = begun[a] + 1,
         \A u \in AllThreads \ {t} : pc'[u] = pc[u] /\ req'[u] = req[u]
  PROVE  Ordinals' /\ DenialsMatch'
  <1>1. /\ denials' = [denials EXCEPT ![a] = @ + 1] /\ begun' = [begun EXCEPT ![a] = @ + 1]
        /\ pending' = pending /\ barrier' = barrier
        /\ \A b \in Accounts : denials[b] \in Nat /\ begun[b] \in Nat /\ barrier[b] \in Nat
        /\ \A b \in Accounts : pc'[b] = pc[b] /\ req'[b] = req[b]
        /\ denials \in [Accounts -> Nat] /\ begun \in [Accounts -> Nat]
        /\ Ordinals /\ DenialsMatch /\ TypeOK
    BY ThreadAssumption DEF Deny, CountInv, TypeOK, AllThreads
  <1>2. Revoking(a)' = Revoking(a) \cup {t} /\ t \notin Revoking(a)
    BY DEF Revoking, AllThreads
  <1>3. \A b \in Accounts \ {a} : Revoking(b)' = Revoking(b)
    BY DEF Revoking, AllThreads
  <1>4. Cardinality(Revoking(a)') = Cardinality(Revoking(a)) + 1
    <2>1. IsFiniteSet(Revoking(a))
      BY RevokingCounted
    <2>2. Cardinality(Revoking(a) \cup {t}) = Cardinality(Revoking(a)) + 1
      BY <1>2, <2>1, FS_AddElement
    <2>3. QED
      BY <1>2, <2>2
  <1>5. DenialsMatch'
    <2> SUFFICES ASSUME NEW b \in Accounts
                 PROVE  denials'[b] + (IF pc'[b] = "retried" THEN 1 ELSE 0) =
                          Cardinality(Revoking(b)') + Cardinality(pending'[b])
      BY DEF DenialsMatch, Revoking
    <2>1. denials[b] + (IF pc[b] = "retried" THEN 1 ELSE 0) =
            Cardinality(Revoking(b)) + Cardinality(pending[b])
      BY <1>1 DEF DenialsMatch, Revoking
    <2>2. Cardinality(Revoking(b)) \in Nat /\ Cardinality(pending[b]) \in Nat
      BY <1>1, RevokingCounted, PendingCounted
    <2>3. QED
      BY <1>1, <1>3, <1>4, <2>1, <2>2
  <1>6. Ordinals'
    <2> SUFFICES ASSUME NEW b \in Accounts
                 PROVE  /\ barrier'[b] \in 0..begun'[b]
                        /\ pending'[b] \in SUBSET (1..begun'[b])
                        /\ req'[b].kind = "retry" => req'[b].ordinal \in pending'[b]
                        /\ \A u \in Revoking(b)' :
                             /\ req'[u].ordinal \in 1..begun'[b] \ pending'[b]
                             /\ \A v \in Revoking(b)' :
                                  req'[v].ordinal = req'[u].ordinal => v = u
      BY DEF Ordinals
    <2>1. begun'[b] \in {begun[b], begun[b] + 1} /\ begun[b] \in Nat
      BY <1>1
    <2>2. /\ barrier[b] \in 0..begun[b] /\ pending[b] \in SUBSET (1..begun[b])
          /\ req[b].kind = "retry" => req[b].ordinal \in pending[b]
          /\ \A u \in Revoking(b) :
               /\ req[u].ordinal \in 1..begun[b] \ pending[b]
               /\ \A v \in Revoking(b) : req[v].ordinal = req[u].ordinal => v = u
      BY <1>1 DEF Ordinals
    <2>3. \A u \in Revoking(b) : req'[u] = req[u]
      BY DEF Revoking, AllThreads
    <2>4. CASE b # a
      BY <1>1, <1>3, <2>1, <2>2, <2>3, <2>4
    <2>5. CASE b = a
      <3>1. begun'[a] = begun[a] + 1 /\ req'[t].ordinal = begun[a] + 1
        BY <1>1
      <3>2. req'[t].ordinal \notin pending[a] /\ \A u \in Revoking(a) : req'[u].ordinal # req'[t].ordinal
        BY <2>1, <2>2, <2>3, <2>5, <3>1
      <3>3. QED
        BY <1>1, <1>2, <2>1, <2>2, <2>3, <2>5, <3>1, <3>2
    <2>6. QED
      BY <2>4, <2>5
  <1>7. QED
    BY <1>5, <1>6

\* A revocation leaves its thread: the event loop hands it to the retry thread,
\* or it has swept.
LEMMA RevocationLeaves ==
  ASSUME CountInv, NEW t \in Threads, req[t].kind \in Revocations, Leave(t),
         NEW a, a = req[t].account
  PROVE  /\ a \in Accounts /\ t \in Revoking(a)
         /\ \A b \in Accounts :
              /\ Cardinality(Revoking(b)') =
                   IF b = a THEN Cardinality(Revoking(b)) - 1 ELSE Cardinality(Revoking(b))
              /\ req'[b] = req[b] /\ pc'[b] = pc[b]
              /\ \A u \in Revoking(b)' : u \in Revoking(b) \ {t} /\ req'[u] = req[u]
  <1>1. /\ TypeOK /\ Courses
        /\ \A u \in AllThreads \ {t} : pc'[u] = pc[u] /\ req'[u] = req[u]
        /\ req'[t].kind = "none" /\ t \in AllThreads
    BY LeaveOK, TypeParts, NoRequestOK DEF CountInv, Alone, AllThreads
  <1>2. a \in Accounts
    BY <1>1, AccountKnown DEF Revocations
  <1>3. req'[t].kind \notin Revocations /\ t \in Revoking(a)
    BY <1>1 DEF Revoking, Revocations
  <1>4. \A u \in Threads \ {t} : req'[u] = req[u]
    BY <1>1 DEF AllThreads
  <1>5. ASSUME NEW b \in Accounts
        PROVE  /\ Revoking(b)' = Revoking(b) \ {t}
               /\ t \in Revoking(b) <=> b = a
    BY <1>3, <1>4 DEF Revoking
  <1>6. ASSUME NEW b \in Accounts
        PROVE  Cardinality(Revoking(b)') =
                   IF b = a THEN Cardinality(Revoking(b)) - 1 ELSE Cardinality(Revoking(b))
    BY <1>5, RevokingCounted, FS_RemoveElement
  <1>7. ASSUME NEW b \in Accounts
        PROVE  /\ req'[b] = req[b] /\ pc'[b] = pc[b]
               /\ \A u \in Revoking(b)' : u \in Revoking(b) \ {t} /\ req'[u] = req[u]
    <2>1. Revoking(b)' \subseteq Threads
      BY DEF Revoking
    <2>2. QED
      BY <1>1, <1>4, <1>5, <2>1, ThreadAssumption DEF AllThreads
  <1>8. QED
    BY <1>2, <1>3, <1>6, <1>7

LEMMA PostponeCounts ==
  ASSUME CountInv, NEW t \in AllThreads, Postpone(t)
  PROVE  Ordinals' /\ DenialsMatch'
  <1> SUFFICES ASSUME NEW a, a = req[t].account
               PROVE  Ordinals' /\ DenialsMatch'
    OBVIOUS
  <1>1. t \in Threads /\ req[t].kind \in Revocations /\ Leave(t) /\ TypeOK /\ Ordinals
        /\ DenialsMatch
    BY DEF CountInv, Postpone, Courses, Roles, AllThreads, Revocations
  <1>2. /\ a \in Accounts /\ t \in Revoking(a)
        /\ \A b \in Accounts :
             /\ Cardinality(Revoking(b)') =
                  IF b = a THEN Cardinality(Revoking(b)) - 1 ELSE Cardinality(Revoking(b))
             /\ req'[b] = req[b] /\ pc'[b] = pc[b]
             /\ \A u \in Revoking(b)' : u \in Revoking(b) \ {t} /\ req'[u] = req[u]
    BY <1>1, RevocationLeaves
  <1>3. /\ pending' = [pending EXCEPT ![a] = @ \cup {req[t].ordinal}]
        /\ UNCHANGED <<denials, begun, barrier>> /\ pending \in [Accounts -> SUBSET Nat]
    BY <1>1 DEF Postpone, Deferred, historyVars, TypeOK
  <1>4. req[t].ordinal \in 1..begun[a] \ pending[a]
    BY <1>1, <1>2 DEF Ordinals
  <1>5. Cardinality(pending'[a]) = Cardinality(pending[a]) + 1
    <2>1. IsFiniteSet(pending[a])
      BY <1>1, <1>2, PendingCounted
    <2>2. pending'[a] = pending[a] \cup {req[t].ordinal}
      BY <1>2, <1>3
    <2>3. Cardinality(pending[a] \cup {req[t].ordinal}) = Cardinality(pending[a]) + 1
      BY <1>4, <2>1, FS_AddElement
    <2>4. QED
      BY <2>2, <2>3
  <1>6. DenialsMatch'
    <2> SUFFICES ASSUME NEW b \in Accounts
                 PROVE  denials'[b] + (IF pc'[b] = "retried" THEN 1 ELSE 0) =
                          Cardinality(Revoking(b)') + Cardinality(pending'[b])
      BY DEF DenialsMatch, Revoking
    <2>1. denials[b] + (IF pc[b] = "retried" THEN 1 ELSE 0) =
            Cardinality(Revoking(b)) + Cardinality(pending[b])
      BY <1>1 DEF DenialsMatch, Revoking
    <2>2. Cardinality(Revoking(b)) \in Nat /\ Cardinality(pending[b]) \in Nat
          /\ denials[b] \in Nat
      BY <1>1, RevokingCounted, PendingCounted DEF TypeOK
    <2>3. CASE b = a
      BY <1>2, <1>3, <1>5, <2>1, <2>2, <2>3
    <2>4. CASE b # a
      BY <1>2, <1>3, <1>5, <2>1, <2>2, <2>4
    <2>5. QED
      BY <2>3, <2>4
  <1>7. Ordinals'
    <2> SUFFICES ASSUME NEW b \in Accounts
                 PROVE  /\ barrier'[b] \in 0..begun'[b]
                        /\ pending'[b] \in SUBSET (1..begun'[b])
                        /\ req'[b].kind = "retry" => req'[b].ordinal \in pending'[b]
                        /\ \A u \in Revoking(b)' :
                             /\ req'[u].ordinal \in 1..begun'[b] \ pending'[b]
                             /\ \A v \in Revoking(b)' :
                                  req'[v].ordinal = req'[u].ordinal => v = u
      BY DEF Ordinals
    <2>1. /\ barrier[b] \in 0..begun[b] /\ pending[b] \in SUBSET (1..begun[b])
          /\ req[b].kind = "retry" => req[b].ordinal \in pending[b]
          /\ \A u \in Revoking(b) :
               /\ req[u].ordinal \in 1..begun[b] \ pending[b]
               /\ \A v \in Revoking(b) : req[v].ordinal = req[u].ordinal => v = u
      BY <1>1 DEF Ordinals
    <2>2. CASE b # a
      BY <1>2, <1>3, <2>1, <2>2
    <2>3. CASE b = a
      <3>1. \A u \in Revoking(a)' : req[u].ordinal # req[t].ordinal
        BY <1>2, <2>1, <2>3
      <3>2. QED
        BY <1>2, <1>3, <1>4, <2>1, <2>3, <3>1
    <2>4. QED
      BY <2>2, <2>3
  <1>8. QED
    BY <1>6, <1>7

LEMMA SweepAccountCounts ==
  ASSUME CountInv, NEW t \in AllThreads, SweepAccount(t)
  PROVE  Ordinals' /\ DenialsMatch'
  <1> SUFFICES ASSUME NEW a, a = req[t].account, NEW n, n = req[t].ordinal
               PROVE  Ordinals' /\ DenialsMatch'
    OBVIOUS
  <1>1. /\ req[t].kind \in Revocations /\ pc[t] = "locking"
        /\ TypeOK /\ Ordinals /\ DenialsMatch /\ Courses
    BY DEF SweepAccount, CountInv
  <1>2. a \in Accounts /\ denials[a] > 0
    BY <1>1, RevocationCounted DEF Denied
  <1>3. n \in 1..begun[a]
    <2>1. CASE t \in Threads
      BY <1>1, <1>2, <2>1 DEF Ordinals, Revoking
    <2>2. CASE t \in Accounts
      BY <1>1, <1>2, <2>2 DEF Ordinals, Courses, Roles, Revocations
    <2>3. QED
      BY <2>1, <2>2 DEF AllThreads
  <1>4. /\ denials' = [denials EXCEPT ![a] = @ - 1]
        /\ barrier' = [barrier EXCEPT ![a] = IF n > @ THEN n ELSE @]
        /\ UNCHANGED <<pending, begun>>
        /\ denials \in [Accounts -> Nat] /\ barrier \in [Accounts -> Nat]
        /\ begun \in [Accounts -> Nat]
    BY <1>1 DEF SweepAccount, TypeOK
  <1>5. \A b \in Accounts : barrier'[b] \in 0..begun[b]
    BY <1>1, <1>3, <1>4 DEF Ordinals
  <1>6. CASE t \in Threads
    <2>1. Leave(t)
      BY <1>1, <1>6 DEF SweepAccount, Courses, Roles
    <2>2. /\ t \in Revoking(a)
          /\ \A b \in Accounts :
               /\ Cardinality(Revoking(b)') =
                    IF b = a THEN Cardinality(Revoking(b)) - 1 ELSE Cardinality(Revoking(b))
               /\ req'[b] = req[b] /\ pc'[b] = pc[b]
               /\ \A u \in Revoking(b)' : u \in Revoking(b) \ {t} /\ req'[u] = req[u]
      BY <1>1, <1>6, <2>1, RevocationLeaves
    <2>3. DenialsMatch'
      <3> SUFFICES ASSUME NEW b \in Accounts
                   PROVE  denials'[b] + (IF pc'[b] = "retried" THEN 1 ELSE 0) =
                            Cardinality(Revoking(b)') + Cardinality(pending'[b])
        BY DEF DenialsMatch, Revoking
      <3>1. denials[b] + (IF pc[b] = "retried" THEN 1 ELSE 0) =
              Cardinality(Revoking(b)) + Cardinality(pending[b])
        BY <1>1 DEF DenialsMatch, Revoking
      <3>2. Cardinality(Revoking(b)) \in Nat /\ Cardinality(pending[b]) \in Nat
            /\ denials[b] \in Nat
        BY <1>1, RevokingCounted, PendingCounted DEF TypeOK
      <3>3. CASE b = a
        BY <1>4, <2>2, <3>1, <3>2, <3>3
      <3>4. CASE b # a
        BY <1>4, <2>2, <3>1, <3>2, <3>4
      <3>5. QED
        BY <3>3, <3>4
    <2>4. Ordinals'
      BY <1>1, <1>4, <1>5, <2>2 DEF Ordinals
    <2>5. QED
      BY <2>3, <2>4
  <1>7. CASE t \in Accounts
    <2>1. a = t /\ req[t].kind = "retry"
      BY <1>1, <1>7 DEF Courses, Roles, Revocations
    <2>2. UNCHANGED req /\ pc'[t] = "retried" /\ \A u \in AllThreads \ {t} : pc'[u] = pc[u]
      BY <1>1, <2>1 DEF SweepAccount, Go, TypeOK
    <2>3. \A b : Revoking(b)' = Revoking(b)
      BY <2>2 DEF Revoking
    <2>4. DenialsMatch'
      <3> SUFFICES ASSUME NEW b \in Accounts
                   PROVE  denials'[b] + (IF pc'[b] = "retried" THEN 1 ELSE 0) =
                            Cardinality(Revoking(b)') + Cardinality(pending'[b])
        BY DEF DenialsMatch, Revoking
      <3>1. denials[b] + (IF pc[b] = "retried" THEN 1 ELSE 0) =
              Cardinality(Revoking(b)) + Cardinality(pending[b])
        BY <1>1 DEF DenialsMatch, Revoking
      <3>2. Cardinality(Revoking(b)) \in Nat /\ Cardinality(pending[b]) \in Nat
            /\ denials[b] \in Nat
        BY <1>1, RevokingCounted, PendingCounted DEF TypeOK
      <3>3. QED
        BY <1>1, <1>2, <1>4, <2>1, <2>2, <2>3, <3>1, <3>2 DEF AllThreads
    <2>5. Ordinals'
      BY <1>1, <1>4, <1>5, <2>2, <2>3 DEF Ordinals
    <2>6. QED
      BY <2>4, <2>5
  <1>8. QED
    BY <1>6, <1>7 DEF AllThreads

LEMMA CountOffCounts ==
  ASSUME CountInv, NEW a \in Accounts, CountOff(a)
  PROVE  Ordinals' /\ DenialsMatch'
  <1>1. /\ TypeOK /\ Ordinals /\ DenialsMatch /\ Courses /\ pc[a] = "retried" /\ Leave(a)
        /\ a \in AllThreads
    BY DEF CountOff, CountInv, AllThreads
  <1>2. req[a].kind = "retry" /\ req[a].ordinal \in pending[a]
    BY <1>1 DEF Courses, Roles, OnCourse, Ordinals
  <1>3. /\ pending' = [pending EXCEPT ![a] = @ \ {req[a].ordinal}]
        /\ UNCHANGED <<denials, begun, barrier>> /\ pending \in [Accounts -> SUBSET Nat]
    BY <1>1 DEF CountOff, historyVars, TypeOK
  <1>4. /\ pc'[a] = "idle" /\ req'[a].kind = "none"
        /\ \A u \in AllThreads \ {a} : pc'[u] = pc[u] /\ req'[u] = req[u]
    BY <1>1, LeaveOK, TypeParts, NoRequestOK DEF Alone
  <1>5. \A b : Revoking(b)' = Revoking(b)
    BY <1>4, ThreadAssumption DEF Revoking, AllThreads
  <1>6. Cardinality(pending'[a]) = Cardinality(pending[a]) - 1
    <2>1. IsFiniteSet(pending[a])
      BY <1>1, PendingCounted
    <2>2. pending'[a] = pending[a] \ {req[a].ordinal}
      BY <1>3
    <2>3. Cardinality(pending[a] \ {req[a].ordinal}) = Cardinality(pending[a]) - 1
      BY <1>2, <2>1, FS_RemoveElement
    <2>4. QED
      BY <2>2, <2>3
  <1>7. DenialsMatch'
    <2> SUFFICES ASSUME NEW b \in Accounts
                 PROVE  denials'[b] + (IF pc'[b] = "retried" THEN 1 ELSE 0) =
                          Cardinality(Revoking(b)') + Cardinality(pending'[b])
      BY DEF DenialsMatch, Revoking
    <2>1. denials[b] + (IF pc[b] = "retried" THEN 1 ELSE 0) =
            Cardinality(Revoking(b)) + Cardinality(pending[b])
      BY <1>1 DEF DenialsMatch, Revoking
    <2>2. Cardinality(Revoking(b)) \in Nat /\ Cardinality(pending[b]) \in Nat
          /\ denials[b] \in Nat
      BY <1>1, RevokingCounted, PendingCounted DEF TypeOK
    <2>3. QED
      BY <1>1, <1>3, <1>4, <1>5, <1>6, <2>1, <2>2 DEF AllThreads
  <1>8. \A b \in Accounts : \A u \in Revoking(b) : req'[u] = req[u]
    BY <1>4, ThreadAssumption DEF Revoking, AllThreads
  <1>9. Ordinals'
    BY <1>1, <1>3, <1>4, <1>5, <1>8 DEF Ordinals, AllThreads
  <1>10. QED
    BY <1>7, <1>9
\* The other steps leave the counts alone.
LEMMA StepIsCalm ==
  ASSUME CountInv, NEW t \in AllThreads, Step(t), ~Postpone(t), ~SweepAccount(t), ~AccountGone(t)
  PROVE  Calm
  <1> USE DEF accountVars, historyVars
  <1>a. /\ TypeOK /\ Courses /\ OnCourse(t) /\ \A a \in Accounts : a \in AllThreads
        /\ \A a \in Accounts : req[a].kind = "retry" => req[a].ordinal \in pending[a]
        /\ {"none", "login", "rotate", "logout", "refresh", "deliver", "purge",
            "revokeOthers"} \cap Revocations = {}
    BY DEF CountInv, Courses, AllThreads, Ordinals, Revocations
  <1>1. ASSUME UNCHANGED <<denials, pending, begun, barrier, req>>,
               pc'[t] # "retried", pc[t] # "retried",
               \A u \in AllThreads \ {t} : pc'[u] = pc[u]
        PROVE  Calm
    BY <1>a, <1>1 DEF Calm, SameRevocation
  <1>2. ASSUME UNCHANGED <<denials, pending, begun, barrier>>,
               Leave(t), pc[t] # "retried", req[t].kind \notin Revocations
        PROVE  Calm
    <2>1. /\ pc'[t] # "retried" /\ req'[t].kind = "none"
          /\ \A u \in AllThreads \ {t} : pc'[u] = pc[u] /\ req'[u] = req[u]
      BY <1>a, <1>2, LeaveOK, TypeParts, NoRequestOK DEF Alone
    <2>2. \A u \in Threads : SameRevocation(u)
      BY <1>a, <1>2, <2>1 DEF SameRevocation, AllThreads
    <2>3. \A a \in Accounts : /\ pc'[a] = "retried" <=> pc[a] = "retried"
                              /\ req'[a].kind = "retry" => req'[a].ordinal \in pending[a]
      BY <1>a, <1>2, <2>1
    <2>4. QED
      BY <1>2, <2>2, <2>3 DEF Calm
  <1>3. CASE Verify(t)
    <2>1. CASE Leave(t)
      BY <1>2, <1>3, <1>a, <2>1 DEF Verify, OnCourse, Revocations
    <2>2. CASE ~Leave(t)
      <3>1. /\ req[t].kind \in {"login", "rotate"} /\ req'[t].kind = req[t].kind
            /\ pc[t] # "retried" /\ pc'[t] # "retried"
            /\ \A u \in AllThreads \ {t} : pc'[u] = pc[u] /\ req'[u] = req[u]
            /\ UNCHANGED <<denials, pending, begun, barrier>>
        BY <1>3, <1>a, <2>2 DEF Verify, OnCourse, Go, TypeOK, Requests, AllKinds
      <3>2. QED
        BY <1>a, <3>1 DEF Calm, SameRevocation, AllThreads
    <2>3. QED
      BY <2>1, <2>2
  <1>4. CASE CommitCreate(t) \/ CommitRotate(t) \/ Sweep(t) \/ RefuseSend(t) \/ Logout(t)
             \/ RefuseCreate(t) \/ GiveUp(t) \/ SendEnds(t) \/ CallerGone(t)
             \/ AnswerTooLate(t) \/ RoleUnknown(t)
    <2>1. Leave(t) /\ UNCHANGED <<denials, pending, begun, barrier>>
      BY <1>4 DEF CommitCreate, CommitRotate, Sweep, RefuseSend, Logout, RefuseCreate, GiveUp,
                  SendEnds, CallerGone, AnswerTooLate, RoleUnknown
    <2>2. pc[t] # "retried" /\ req[t].kind \notin Revocations
      BY <1>4, <1>a DEF CommitCreate, CommitRotate, Sweep, RefuseSend, Logout, RefuseCreate,
                  GiveUp, SendEnds, CallerGone, AnswerTooLate, RoleUnknown, OnCourse, Revocations
    <2>3. QED
      BY <1>2, <2>1, <2>2
  <1>5. CASE CheckRotate(t) \/ Recheck(t) \/ RoleConfirmed(t) \/ Audit(t) \/ Refresh(t)
    <2>1. /\ UNCHANGED <<denials, pending, begun, barrier>>
          /\ pc[t] # "retried" /\ req[t].kind \notin Revocations
      BY <1>5, <1>a DEF CheckRotate, Recheck, RoleConfirmed, Audit, Refresh, OnCourse, Revocations
    <2>2. CASE Leave(t)
      BY <1>2, <2>1, <2>2
    <2>3. CASE ~Leave(t)
      <3>1. UNCHANGED req /\ pc'[t] # "retried" /\ \A u \in AllThreads \ {t} : pc'[u] = pc[u]
        BY <1>5, <1>a, <2>3 DEF CheckRotate, Recheck, RoleConfirmed, Audit, Refresh, Go, TypeOK
      <3>2. QED
        BY <1>1, <2>1, <3>1
    <2>4. QED
      BY <2>2, <2>3
  <1>6. CASE TakeSet(t) \/ Choose(t) \/ ChooseRotate(t) \/ LockNext(t) \/ SweepForLogin(t)
             \/ CheckCreate(t) \/ TakeLock(t) \/ CheckSend(t)
    <2>1. /\ UNCHANGED <<denials, pending, begun, barrier, req>>
          /\ pc[t] # "retried" /\ pc'[t] # "retried"
          /\ \A u \in AllThreads \ {t} : pc'[u] = pc[u]
      BY <1>6, <1>a DEF TakeSet, Choose, ChooseRotate, LockNext, SweepForLogin, CheckCreate,
                  TakeLock, CheckSend, Go, TypeOK
    <2>2. QED
      BY <1>1, <2>1
  <1>7. QED
    BY <1>3, <1>4, <1>5, <1>6 DEF Step, SetBusy, LocksBusy

LEMMA AsideIsCalm ==
  ASSUME CountInv, Aside, \A a \in Accounts : ~CountOff(a)
  PROVE  Calm
  <1>a. /\ TypeOK /\ Courses /\ \A a \in Accounts : a \in AllThreads
        /\ \A a \in Accounts : req[a].kind = "retry" => req[a].ordinal \in pending[a]
    BY DEF CountInv, Courses, AllThreads, Ordinals
  <1>1. CASE UNCHANGED <<denials, pending, begun, barrier, req, pc>>
    BY <1>a, <1>1 DEF Calm, SameRevocation
  <1>2. ASSUME NEW a \in Accounts, Retry(a)
        PROVE  Calm
    <2>1. PICK n : /\ req' = [req EXCEPT ![a] = [NoRequest EXCEPT !.kind = "retry",
                                                    !.account = a, !.ordinal = n]]
                   /\ n = CHOOSE m \in pending[a] : \A o \in pending[a] : m <= o
      BY <1>2 DEF Retry
    <2>2. n \in pending[a]
      BY <1>2, <1>a, <2>1, FirstPending DEF Retry
    <2>3. /\ req'[a].ordinal = n
          /\ \A u \in AllThreads \ {a} : req'[u] = req[u]
      BY <1>a, <2>1 DEF TypeOK, NoRequest
    <2>4. /\ UNCHANGED <<denials, pending, begun, barrier>>
          /\ pc[a] # "retried" /\ pc'[a] # "retried"
          /\ \A u \in AllThreads \ {a} : pc'[u] = pc[u]
      BY <1>2, <1>a DEF Retry, Go, TypeOK, accountVars, historyVars
    <2>5. QED
      BY <1>a, <2>2, <2>3, <2>4, ThreadAssumption DEF Calm, SameRevocation, AllThreads
  <1>3. ASSUME NEW s \in live, Expire(s) \/ GoStale(s) \/ DropExpired(s)
        PROVE  UNCHANGED <<denials, pending, begun, barrier, req, pc>>
    BY <1>3 DEF Expire, GoStale, DropExpired, accountVars, historyVars
  <1>4. CASE Rest \/ UNCHANGED vars
    BY <1>1, <1>4 DEF Rest, vars, accountVars, historyVars
  <1>5. QED
    BY <1>1, <1>2, <1>3, <1>4 DEF Aside

\* A request that arrives is no revocation, or it denies its account.
LEMMA ArrivalCounts ==
  ASSUME CountInv, Arrival
  PROVE  Ordinals' /\ DenialsMatch'
  <1>a. TypeOK /\ Courses /\ Ordinals /\ DenialsMatch
        /\ \A a \in Accounts : req[a].kind = "retry" => req[a].ordinal \in pending[a]
    BY DEF CountInv, Ordinals
  <1>1. ASSUME NEW t \in Threads, NEW point, NEW r, Arrive(t, point, r)
        PROVE  /\ req[t].kind \notin Revocations /\ req'[t] = r
               /\ \A u \in AllThreads \ {t} : pc'[u] = pc[u] /\ req'[u] = req[u]
    <2>1. pc[t] = "idle" /\ t \in AllThreads
      BY <1>1 DEF Arrive, AllThreads
    <2>2. req[t].kind \notin Revocations
      BY <1>a, <2>1, IdleHasNone DEF Revocations
    <2>3. QED
      BY <1>1, <1>a, <2>1, <2>2 DEF Arrive, Go, TypeOK
  <1>2. ASSUME NEW t \in Threads, NEW point, NEW r, Arrive(t, point, r),
               r.kind \notin Revocations, UNCHANGED <<denials, pending, begun, barrier>>
        PROVE  Ordinals' /\ DenialsMatch'
    <2>1. /\ req[t].kind \notin Revocations /\ req'[t] = r
          /\ \A u \in AllThreads \ {t} : pc'[u] = pc[u] /\ req'[u] = req[u]
      BY <1>1, <1>2
    <2>2. Calm
      BY <1>a, <1>2, <2>1, ThreadAssumption DEF Calm, SameRevocation, AllThreads
    <2>3. QED
      BY <1>a, <2>2, CalmKeeps
  <1>3. ASSUME NEW t \in Threads, NEW a \in Accounts, NEW k \in Kinds, BeginRevocation(t, k, a)
        PROVE  Ordinals' /\ DenialsMatch'
    <2>1. PICK r : /\ r = [NoRequest EXCEPT !.kind = k, !.account = a, !.ordinal = begun[a] + 1]
                   /\ Arrive(t, "wantSet", r) /\ k \in Revocations /\ Deny(a)
      BY <1>3 DEF BeginRevocation, Revocations
    <2>2. r.kind = k /\ r.account = a /\ r.ordinal = begun[a] + 1
      BY <2>1 DEF NoRequest
    <2>3. /\ req[t].kind \notin Revocations /\ req'[t] = r
          /\ \A u \in AllThreads \ {t} : pc'[u] = pc[u] /\ req'[u] = req[u]
      BY <1>1, <2>1
    <2>4. QED
      BY <2>1, <2>2, <2>3, DenyCounts
  <1>4. ASSUME NEW t \in Threads, NEW a \in Accounts, BeginLogin(t, a)
        PROVE  Ordinals' /\ DenialsMatch'
    <2>1. "login" \notin Revocations /\ UNCHANGED <<denials, pending, begun, barrier>>
      BY <1>4 DEF BeginLogin, Revocations, accountVars
    <2>2. [NoRequest EXCEPT !.kind = "login", !.account = a, !.gen = generation[a],
                            !.unsure = Denied(a)].kind = "login"
      BY DEF NoRequest
    <2>3. QED
      BY <1>2, <1>4, <2>1, <2>2 DEF BeginLogin
  <1>5. ASSUME NEW t \in Threads, NEW s \in live, NEW k \in Kinds, BeginInSession(t, k, s)
        PROVE  Ordinals' /\ DenialsMatch'
    <2>1. k \notin Revocations /\ UNCHANGED <<denials, pending, begun, barrier>>
      BY <1>5 DEF BeginInSession, Revocations, accountVars
    <2>2. [NoRequest EXCEPT !.kind = k, !.session = s, !.account = info[s].account].kind = k
      BY DEF NoRequest
    <2>3. QED
      BY <1>2, <1>5, <2>1, <2>2 DEF BeginInSession
  <1>6. ASSUME NEW t \in Threads, NEW s \in live, BeginLogout(t, s)
        PROVE  Ordinals' /\ DenialsMatch'
    <2>1. "logout" \notin Revocations /\ UNCHANGED <<denials, pending, begun, barrier>>
      BY <1>6 DEF BeginLogout, Revocations, accountVars
    <2>2. [NoRequest EXCEPT !.kind = "logout", !.session = s,
                            !.account = info[s].account].kind = "logout"
      BY DEF NoRequest
    <2>3. QED
      BY <1>2, <1>6, <2>1, <2>2 DEF BeginLogout
  <1>7. ASSUME NEW t \in Threads, BeginPurge(t)
        PROVE  Ordinals' /\ DenialsMatch'
    <2>1. "purge" \notin Revocations /\ UNCHANGED <<denials, pending, begun, barrier>>
      BY <1>7 DEF BeginPurge, Revocations, accountVars
    <2>2. QED
      BY <1>2, <1>7, <2>1 DEF BeginPurge, NoRequest
  <1>8. QED
    BY <1>3, <1>4, <1>5, <1>6, <1>7 DEF Arrival

\* An account found missing is denied.
LEMMA AccountGoneCounts ==
  ASSUME CountInv, NEW t \in AllThreads, AccountGone(t)
  PROVE  Ordinals' /\ DenialsMatch'
  <1> SUFFICES ASSUME NEW a, a = req[t].account
               PROVE  Ordinals' /\ DenialsMatch'
    OBVIOUS
  <1>1. TypeOK /\ Courses /\ pc[t] = "resolving"
    BY DEF CountInv, AccountGone
  <1>2. t \in Threads /\ a \in Accounts /\ req[t].kind \notin Revocations
    BY <1>1, AccountKnown DEF Courses, Roles, OnCourse, AllThreads, Revocations
  <1>3. Deny(a) /\ "gone" \in Revocations
    BY DEF AccountGone, Revocations
  <1>4. /\ req'[t].kind = "gone" /\ req'[t].account = a /\ req'[t].ordinal = begun[a] + 1
        /\ \A u \in AllThreads \ {t} : pc'[u] = pc[u] /\ req'[u] = req[u]
    BY <1>1 DEF AccountGone, Go, TypeOK, NoRequest
  <1>5. QED
    BY <1>2, <1>3, <1>4, DenyCounts

LEMMA NextCounts == CountInv /\ [Next]_vars => Ordinals' /\ DenialsMatch'
  <1> SUFFICES ASSUME CountInv, [Next]_vars
               PROVE  Ordinals' /\ DenialsMatch'
    OBVIOUS
  <1>1. Calm => Ordinals' /\ DenialsMatch'
    BY CalmKeeps DEF CountInv
  <1>2. CASE Aside
    BY <1>1, <1>2, AsideIsCalm, CountOffCounts
  <1>3. ASSUME NEW t \in AllThreads, Step(t)
        PROVE  Ordinals' /\ DenialsMatch'
    BY <1>1, <1>3, StepIsCalm, PostponeCounts, SweepAccountCounts, AccountGoneCounts
  <1>4. QED
    BY <1>2, <1>3, ArrivalCounts, NextCases

LEMMA NextCountInv == CountInv /\ [Next]_vars => CountInv'
  <1> SUFFICES ASSUME CountInv, [Next]_vars
               PROVE  CountInv'
    OBVIOUS
  <1>1. TypeOK' /\ Courses' /\ FreshIds' /\ Ordinals' /\ DenialsMatch'
    BY NextTypeOK, NextCourses, NextFreshIds, NextCounts
  <1>2. QED
    BY <1>1 DEF CountInv

LEMMA InitCountInv == Init => CountInv
  <1> SUFFICES ASSUME Init
               PROVE  CountInv
    OBVIOUS
  <1>1. /\ Established \in Nat /\ Established + MaxRequests \in Nat /\ MaxRequests \in Nat
        /\ 1..Established \subseteq Ids
    BY NumberAssumption, IdsAreNumbers DEF Ids
  <1>2. PICK a \in Accounts :
          info = [s \in Ids |-> [account |-> a, authAt |-> 0, unsure |-> FALSE, from |-> NoId]]
    BY DEF Init
  <1>3. TypeOK
    <2>1. info \in [Ids -> Sessions]
      BY <1>2 DEF Sessions
    <2>2. ThreadsOK /\ LocksOK
      BY NoRequestOK DEF Init, ThreadsOK, LocksOK
    <2>3. StoreOK
      <3>1. live = 1..Established /\ expired = {} /\ stale = {} /\ nextId = Established + 1
        BY DEF Init
      <3>2. QED
        BY <1>1, <2>1, <3>1 DEF StoreOK
    <2>4. HistoryOK /\ AccountsOK
      BY <1>1 DEF Init, HistoryOK, AccountsOK
    <2>5. QED
      BY <2>2, <2>3, <2>4, TypeParts
  <1>4. \A t \in AllThreads : req[t] = NoRequest /\ pc[t] = "idle"
    BY DEF Init
  <1>5. Courses
    BY <1>4, NoRequestOK DEF Courses, Roles, OnCourse, Named, InSession, AllThreads
  <1>6. Making = {} /\ \A b : Revoking(b) = {}
    BY <1>4, NoRequestOK DEF Making, Revoking, Revocations, AllThreads
  <1>7. FreshIds
    BY <1>1, <1>6, FS_EmptySet DEF Init, FreshIds
  <1>8. Ordinals
    BY <1>4, <1>6, NoRequestOK DEF Init, Ordinals, AllThreads
  <1>9. DenialsMatch
    BY <1>4, <1>6, FS_EmptySet DEF Init, DenialsMatch, Revoking, AllThreads
  <1>10. QED
    BY <1>3, <1>5, <1>7, <1>8, <1>9 DEF CountInv

LEMMA AlwaysCounted == Spec => []CountInv
  BY InitCountInv, NextCountInv, PTL DEF Spec

\* Every variable keeps to its type, and the session ids the bound provides are
\* never used up.
THEOREM TypeCorrect == Spec => []TypeOK
  <1>1. CountInv => TypeOK
    BY DEF CountInv
  <1>2. QED
    BY <1>1, AlwaysCounted, PTL

\* An account is denied by exactly the revocations begun on it and not completed:
\* whichever of them waits for locks, was put off by the event loop or is being
\* retried, none is forgotten and none counted off twice.
THEOREM DenialsAreCounted == Spec => []DenialsMatch
  <1>1. CountInv => DenialsMatch
    BY DEF CountInv
  <1>2. QED
    BY <1>1, AlwaysCounted, PTL

-----------------------------------------------------------------------------
(* The shapes of the steps *)

\* What no step of another thread disturbs.
Others(t) ==
    /\ Alone(t)
    /\ \A s \in Ids : checkLock[s] \in AllThreads \ {t} => checkLock'[s] = checkLock[s]

LEMMA StepOthers ==
  ASSUME TypeOK, NEW t \in AllThreads, Step(t)
  PROVE  Others(t)
  <1>a. ThreadsOK /\ LocksOK
    BY TypeParts
  <1>1. ASSUME Alone(t), UNCHANGED checkLock \/ checkLock' = Free(t)
        PROVE  Others(t)
    BY <1>1 DEF Others, Free
  <1>2. ASSUME Leave(t)
        PROVE  Others(t)
    BY <1>a, <1>2, LeaveOK DEF Others
  <1>3. ASSUME NEW point, Go(t, point), UNCHANGED req,
               \A u \in AllThreads \ {t} : marked'[u] = marked[u]
        PROVE  Alone(t)
    BY <1>a, <1>3 DEF Alone, Go, ThreadsOK
  <1>4. CASE TakeSet(t) \/ ChooseRotate(t) \/ CheckCreate(t) \/ CheckSend(t) \/ SweepForLogin(t)
    <2>1. Alone(t)
      BY <1>3, <1>4, <1>a DEF TakeSet, ChooseRotate, CheckCreate, CheckSend, SweepForLogin, ThreadsOK
    <2>2. QED
      BY <1>1, <1>4, <2>1 DEF TakeSet, ChooseRotate, CheckCreate, CheckSend, SweepForLogin,
                  lockVars
  <1>5. CASE Verify(t) \/ Audit(t) \/ CheckRotate(t) \/ Refresh(t) \/ Recheck(t)
             \/ RoleConfirmed(t) \/ SweepAccount(t) \/ AccountGone(t)
    <2>1. CASE Leave(t)
      BY <1>2, <2>1
    <2>2. CASE ~Leave(t)
      <3>1. Alone(t)
        BY <1>5, <1>a, <2>2 DEF Verify, Audit, CheckRotate, Refresh, Recheck, RoleConfirmed,
                    SweepAccount, AccountGone, Go, Alone, ThreadsOK
      <3>2. QED
        BY <1>1, <1>5, <2>2, <3>1 DEF Verify, Audit, CheckRotate, Refresh, Recheck, RoleConfirmed,
                    SweepAccount, AccountGone, lockVars
    <2>3. QED
      BY <2>1, <2>2
  <1>6. CASE CommitCreate(t) \/ CommitRotate(t) \/ Sweep(t) \/ RefuseSend(t) \/ Logout(t)
             \/ RefuseCreate(t) \/ GiveUp(t) \/ SendEnds(t) \/ CallerGone(t)
             \/ AnswerTooLate(t) \/ RoleUnknown(t) \/ SetBusy(t) \/ LocksBusy(t)
    BY <1>2, <1>6 DEF CommitCreate, CommitRotate, Sweep, RefuseSend, Logout, RefuseCreate,
                GiveUp, SendEnds, CallerGone, AnswerTooLate, RoleUnknown, SetBusy, LocksBusy,
                Postpone
  <1>7. CASE Choose(t)
    <2>1. Alone(t)
      BY <1>3, <1>7, <1>a DEF Choose, ThreadsOK
    <2>2. QED
      BY <1>7, <1>a, <2>1, ThreadAssumption DEF Choose, Busy, Others, LocksOK, AllThreads
  <1>8. CASE LockNext(t)
    BY <1>8, <1>a, ThreadAssumption DEF LockNext, Others, Alone, LocksOK, AllThreads
  <1>9. CASE TakeLock(t)
    <2>1. Alone(t)
      BY <1>3, <1>9 DEF TakeLock
    <2>2. QED
      BY <1>9, <1>a, <2>1, ThreadAssumption DEF TakeLock, Others, LocksOK, AllThreads
  <1>10. QED
    BY <1>4, <1>5, <1>6, <1>7, <1>8, <1>9 DEF Step

\* What becomes of a login, a rotation or a logout in a step of its thread.
LEMMA StepRequests ==
  ASSUME TypeOK, Courses, NEW t \in AllThreads, Step(t),
         req'[t].kind \in {"login", "rotate", "logout"}
  PROVE  /\ req'[t].kind = req[t].kind /\ req'[t].account = req[t].account
         /\ req'[t].session = req[t].session /\ req'[t].gen = req[t].gen
         /\ req'[t].unsure = req[t].unsure /\ pc'[t] # "verify"
         /\ pc[t] # "verify" => req'[t].authAt = req[t].authAt
         /\ pc[t] = "verify" => req'[t].authAt = begun[req[t].account]
         /\ req[t].kind = "logout" => marked'[t] = marked[t]
  <1>a. ThreadsOK /\ OnCourse(t) /\ ~Leave(t)
    BY TypeParts, LeaveOK, NoRequestOK DEF Courses
  <1>1. CASE Verify(t)
    BY <1>1, <1>a DEF Verify, Go, ThreadsOK, Requests, OnCourse
  <1>2. CASE Choose(t) \/ ChooseRotate(t) \/ SweepForLogin(t)
    BY <1>2, <1>a DEF Choose, ChooseRotate, SweepForLogin, Go, ThreadsOK, OnCourse
  <1>3. CASE TakeSet(t) \/ LockNext(t) \/ CheckCreate(t) \/ Audit(t) \/ TakeLock(t)
             \/ CheckRotate(t) \/ CheckSend(t) \/ Refresh(t) \/ Recheck(t) \/ RoleConfirmed(t)
    BY <1>3, <1>a DEF TakeSet, LockNext, CheckCreate, Audit, TakeLock, CheckRotate, CheckSend,
                Refresh, Recheck, RoleConfirmed, Go, ThreadsOK
  <1>4. CASE SweepAccount(t)
    BY <1>4, <1>a DEF SweepAccount, Revocations
  <1>5. CASE AccountGone(t)
    BY <1>5, <1>a DEF AccountGone, ThreadsOK, NoRequest
  <1>6. QED
    BY <1>1, <1>2, <1>3, <1>4, <1>5, <1>a DEF Step, CommitCreate, CommitRotate, Sweep, RefuseSend,
       Logout, RefuseCreate, GiveUp, SendEnds, CallerGone, AnswerTooLate, RoleUnknown, SetBusy,
       LocksBusy, Postpone

\* What the counts of revocations are for a step.
SameCounts == UNCHANGED <<denials, generation, begun, barrier>>
LEMMA StepAccounts ==
  ASSUME NEW t \in AllThreads, Step(t)
  PROVE  SameCounts \/ SweepAccount(t) \/ (AccountGone(t) /\ Deny(req[t].account))
  BY DEF Step, SameCounts, accountVars, historyVars, TakeSet, SetBusy, Choose, LocksBusy,
         ChooseRotate, CallerGone, LockNext, Sweep, SweepForLogin, CheckCreate, RefuseCreate,
         Audit, CommitCreate, TakeLock, GiveUp, Logout, CheckRotate, CommitRotate, CheckSend,
         RefuseSend, SendEnds, Refresh, Recheck, RoleConfirmed, AnswerTooLate, RoleUnknown,
         AccountGone, Verify, Postpone

LEMMA AsideAccounts ==
  ASSUME Aside
  PROVE  SameCounts
  BY DEF Aside, SameCounts, accountVars, historyVars, Retry, CountOff, Expire, GoStale,
         DropExpired, Rest, vars

\* A thread aside: the retry thread's own steps touch no session's request.
LEMMA AsideOthers ==
  ASSUME TypeOK, Courses, Aside
  PROVE  /\ \A u \in AllThreads :
              \/ pc'[u] = pc[u] /\ req'[u] = req[u] /\ marked'[u] = marked[u]
              \/ pc'[u] = "idle" /\ req'[u].kind = "none"
              \/ pc'[u] = "wantSet" /\ req'[u].kind = "retry"
         /\ \A s \in Ids, u \in AllThreads :
              checkLock[s] = u => checkLock'[s] = u \/ pc[u] = "retried"
  <1>1. ASSUME NEW a \in Accounts, CountOff(a)
        PROVE  /\ Alone(a) /\ pc'[a] = "idle" /\ req'[a].kind = "none"
               /\ pc[a] = "retried"
               /\ \A s \in Ids : checkLock[s] # a => checkLock'[s] = checkLock[s]
    BY <1>1, LeaveOK, TypeParts, NoRequestOK DEF CountOff, AllThreads
  <1>2. ASSUME NEW a \in Accounts, Retry(a)
        PROVE  /\ Alone(a) /\ pc'[a] = "wantSet" /\ req'[a].kind = "retry"
               /\ UNCHANGED checkLock
    BY <1>2 DEF Retry, Go, Alone, TypeOK, NoRequest, AllThreads, lockVars
  <1>3. ASSUME NEW s \in live, Expire(s) \/ GoStale(s) \/ DropExpired(s)
        PROVE  UNCHANGED <<pc, req, marked, checkLock>>
    BY <1>3 DEF Expire, GoStale, DropExpired, lockVars
  <1>4. CASE Rest \/ UNCHANGED vars
    BY <1>4 DEF Rest, vars, lockVars
  <1>5. QED
    BY <1>1, <1>2, <1>3, <1>4 DEF Aside, Alone, AllThreads

\* An arrival starts its request and touches nothing else of the store.
LEMMA ArrivalStarts ==
  ASSUME TypeOK, Arrival
  PROVE  \E t \in Threads :
           /\ UNCHANGED <<storeVars, lockVars, revoked>>
           /\ \A u \in AllThreads \ {t} : pc'[u] = pc[u] /\ req'[u] = req[u]
                                          /\ marked'[u] = marked[u]
           /\ pc[t] = "idle"
           /\ \/ /\ pc'[t] \in {"verify", "wantSet", "refresh", "wantLock"}
                 /\ req'[t].kind # "logout" /\ req'[t].kind # "login" /\ SameCounts
                 /\ req'[t].kind = "rotate" => pc'[t] = "verify"
                 /\ marked' = marked
              \/ \E a \in Accounts : BeginLogin(t, a)
              \/ \E s \in live : BeginLogout(t, s)
              \/ /\ pc'[t] = "wantSet" /\ \E a \in Accounts : Deny(a)
                 /\ req'[t].kind \in Revocations /\ marked' = marked
              \/ /\ pc'[t] = "locking" /\ req'[t].kind = "purge" /\ SameCounts
  <1>1. ASSUME NEW t \in Threads, NEW point, NEW r, Arrive(t, point, r)
        PROVE  /\ UNCHANGED <<storeVars, lockVars>> /\ pc[t] = "idle"
               /\ \A u \in AllThreads \ {t} : pc'[u] = pc[u] /\ req'[u] = req[u]
               /\ pc'[t] = point /\ req'[t] = r
    BY <1>1 DEF Arrive, Go, TypeOK, AllThreads
  <1>2. ASSUME NEW t \in Threads, NEW a \in Accounts, BeginLogin(t, a)
        PROVE  UNCHANGED marked /\ UNCHANGED revoked /\ \E point, r : Arrive(t, point, r)
    BY <1>2 DEF BeginLogin
  <1>3. ASSUME NEW t \in Threads, NEW a \in Accounts, NEW k \in Kinds, BeginRevocation(t, k, a)
        PROVE  /\ \E r : Arrive(t, "wantSet", r) /\ r.kind \in Revocations
               /\ Deny(a) /\ UNCHANGED marked /\ UNCHANGED revoked
    <2>1. [NoRequest EXCEPT !.kind = k, !.account = a, !.ordinal = begun[a] + 1].kind = k
      BY DEF NoRequest
    <2>2. k \in Revocations
      BY <1>3 DEF BeginRevocation, Revocations
    <2>3. QED
      BY <1>3, <2>1, <2>2 DEF BeginRevocation, Deny
  <1>4. ASSUME NEW t \in Threads, NEW s \in live, NEW k \in Kinds, BeginInSession(t, k, s)
        PROVE  /\ UNCHANGED marked /\ UNCHANGED revoked /\ SameCounts
               /\ \E point \in {"verify", "wantSet", "refresh", "wantLock"} : \E r :
                     /\ Arrive(t, point, r) /\ r.kind \notin {"logout", "login"}
                     /\ r.kind = "rotate" => point = "verify"
    <2>1. [NoRequest EXCEPT !.kind = k, !.session = s, !.account = info[s].account].kind = k
      BY DEF NoRequest
    <2>2. QED
      BY <1>4, <2>1 DEF BeginInSession, SameCounts, accountVars
  <1>5. ASSUME NEW t \in Threads, NEW s \in live, BeginLogout(t, s)
        PROVE  /\ UNCHANGED revoked /\ \E point, r : Arrive(t, point, r)
               /\ \A u \in AllThreads \ {t} : marked'[u] = marked[u]
    BY <1>5 DEF BeginLogout, TypeOK
  <1>6. ASSUME NEW t \in Threads, BeginPurge(t)
        PROVE  /\ UNCHANGED revoked /\ SameCounts
               /\ \E r : Arrive(t, "locking", r) /\ r.kind = "purge"
               /\ \A u \in AllThreads \ {t} : marked'[u] = marked[u]
    BY <1>6 DEF BeginPurge, TypeOK, NoRequest, SameCounts, accountVars
  <1>7. CASE \E t \in Threads, a \in Accounts : BeginLogin(t, a)
    BY <1>1, <1>2, <1>7
  <1>8. CASE \E t \in Threads, a \in Accounts, k \in Kinds : BeginRevocation(t, k, a)
    BY <1>1, <1>3, <1>8
  <1>9. CASE \E t \in Threads, s \in live, k \in Kinds : BeginInSession(t, k, s)
    BY <1>1, <1>4, <1>9
  <1>10. CASE \E t \in Threads, s \in live : BeginLogout(t, s)
    BY <1>1, <1>5, <1>10
  <1>11. CASE \E t \in Threads : BeginPurge(t)
    BY <1>1, <1>6, <1>11
  <1>12. QED
    BY <1>7, <1>8, <1>9, <1>10, <1>11 DEF Arrival

-----------------------------------------------------------------------------
(* Locks *)

\* Whoever is at a session has it named.
LEMMA AtSessionNamed ==
  ASSUME CountInv, NEW t \in AllThreads, AtSession(t)
  PROVE  req[t].session \in Ids /\ req[t].session \in 1..(nextId - 1) /\ req[t].kind \in InSession
         /\ info[req[t].session].account = req[t].account
  <1>1. /\ pc[t] \in Points /\ req[t].kind \in AllKinds \cup {"none", "gone", "retry"}
        /\ OnCourse(t) /\ Named(t) /\ TypeOK /\ Courses /\ FreshIds
    BY DEF CountInv, TypeOK, Requests, Courses
  <1>2. req[t].kind \in InSession
    BY <1>1 DEF OnCourse, AtSession, InSession, AllKinds
  <1>3. QED
    BY <1>1, <1>2, SessionKnown DEF Named

\* What its own step makes of a thread at a session.
LEMMA StepLocks ==
  ASSUME CountInv, LocksHeld, NEW t \in AllThreads, Step(t), AtSession(t)'
  PROVE  checkLock'[req'[t].session] = t
  <1>a. ThreadsOK /\ LocksOK /\ OnCourse(t) /\ ~Leave(t) /\ TypeOK
    BY TypeParts, LeaveOK DEF AtSession, CountInv, Courses
  <1>1. CASE TakeLock(t)
    <2>1. req[t].kind \in InSession
      BY <1>1, <1>a DEF TakeLock, OnCourse, InSession, ThreadsOK, Requests, AllKinds
    <2>2. req[t].session \in Ids
      BY <2>1, SessionKnown DEF CountInv
    <2>3. QED
      BY <1>1, <1>a, <2>2 DEF TakeLock, LocksOK
  <1>2. CASE CheckRotate(t) \/ Recheck(t) \/ Audit(t)
    <2>1. AtSession(t) /\ UNCHANGED <<req, checkLock>>
      BY <1>2, <1>a DEF CheckRotate, Recheck, Audit, AtSession, Go, ThreadsOK, lockVars
    <2>2. QED
      BY <2>1 DEF LocksHeld
  <1>3. CASE CheckSend(t)
    <2>1. AtSession(t) /\ UNCHANGED <<req, checkLock>>
      BY <1>3, <1>a DEF CheckSend, AtSession, Go, ThreadsOK
    <2>2. QED
      BY <2>1 DEF LocksHeld
  <1>4. CASE Verify(t) \/ TakeSet(t) \/ Choose(t) \/ ChooseRotate(t) \/ LockNext(t)
             \/ SweepForLogin(t) \/ SweepAccount(t) \/ CheckCreate(t) \/ Refresh(t)
             \/ RoleConfirmed(t) \/ AccountGone(t)
    <2>1. ~AtSession(t)'
      BY <1>4, <1>a DEF Verify, TakeSet, Choose, ChooseRotate, LockNext, SweepForLogin,
                  SweepAccount, CheckCreate, Refresh, RoleConfirmed, AccountGone, AtSession,
                  Go, ThreadsOK, OnCourse
    <2>2. QED
      BY <2>1
  <1>5. QED
    BY <1>1, <1>2, <1>3, <1>4, <1>a DEF Step, CommitCreate, CommitRotate, Sweep, RefuseSend,
       Logout, RefuseCreate, GiveUp, SendEnds, CallerGone, AnswerTooLate, RoleUnknown, SetBusy,
       LocksBusy, Postpone

LEMMA NextLocksHeld == CountInv /\ LocksHeld /\ [Next]_vars => LocksHeld'
  <1> SUFFICES ASSUME CountInv, LocksHeld, [Next]_vars, NEW u \in AllThreads, AtSession(u)'
               PROVE  checkLock'[req'[u].session] = u
    BY DEF LocksHeld
  <1>a. TypeOK /\ Courses
    BY DEF CountInv
  <1>1. ASSUME pc'[u] = pc[u], req'[u] = req[u],
               \A s \in Ids : checkLock[s] = u => checkLock'[s] = u \/ pc[u] = "retried"
        PROVE  checkLock'[req'[u].session] = u
    <2>1. AtSession(u)
      BY <1>1 DEF AtSession
    <2>2. checkLock[req[u].session] = u /\ req[u].session \in Ids /\ pc[u] # "retried"
      BY <2>1, AtSessionNamed DEF LocksHeld, AtSession
    <2>3. QED
      BY <1>1, <2>2
  <1>2. CASE Aside
    BY <1>1, <1>2, <1>a, AsideOthers DEF AtSession
  <1>3. CASE Arrival
    <2>1. PICK t \in Threads :
             /\ UNCHANGED lockVars
             /\ \A v \in AllThreads \ {t} : pc'[v] = pc[v] /\ req'[v] = req[v]
             /\ pc'[t] \notin {"locked", "sending", "check", "resolving", "audit", "commit"}
      <3>1. PICK t \in Threads :
               /\ UNCHANGED lockVars
               /\ \A v \in AllThreads \ {t} : pc'[v] = pc[v] /\ req'[v] = req[v]
               /\ \/ pc'[t] \in {"verify", "wantSet", "refresh", "wantLock", "locking"}
                  \/ \E a \in Accounts : BeginLogin(t, a)
                  \/ \E s \in live : BeginLogout(t, s)
        BY <1>3, <1>a, ArrivalStarts
      <3>2. pc'[t] \in {"verify", "wantSet", "refresh", "wantLock", "locking"}
        BY <1>a, <3>1 DEF BeginLogin, BeginLogout, Arrive, Go, TypeOK, AllThreads
      <3>3. QED
        BY <3>1, <3>2
    <2>2. u # t
      BY <2>1 DEF AtSession
    <2>3. QED
      BY <1>1, <2>1, <2>2 DEF lockVars
  <1>4. ASSUME NEW t \in AllThreads, Step(t)
        PROVE  checkLock'[req'[u].session] = u
    <2>1. CASE u = t
      BY <1>4, <2>1, StepLocks
    <2>2. CASE u # t
      BY <1>1, <1>4, <1>a, <2>2, StepOthers DEF Others, Alone
    <2>3. QED
      BY <2>1, <2>2
  <1>5. QED
    BY <1>2, <1>3, <1>4, NextCases

-----------------------------------------------------------------------------
(* Sessions made *)

\* Sessions only go, unless a login or an unchallenged rotation commits.
Goes == live' \subseteq live /\ info' = info /\ nextId' = nextId
Makes(t) == CommitCreate(t) \/ (CommitRotate(t) /\ Unchallenged(t))

LEMMA StepStore ==
  ASSUME NEW t \in AllThreads, Step(t)
  PROVE  Goes \/ Makes(t)
  <1>1. UNCHANGED storeVars => Goes
    BY DEF storeVars, Goes
  <1>2. \A S : Drop(S) => Goes
    BY DEF Drop, Goes
  <1>3. CASE Sweep(t) \/ SweepForLogin(t) \/ SweepAccount(t) \/ RefuseSend(t) \/ Recheck(t)
             \/ AnswerTooLate(t) \/ RoleUnknown(t) \/ Logout(t)
    BY <1>1, <1>2, <1>3 DEF Sweep, SweepForLogin, SweepAccount, RefuseSend, Recheck,
                AnswerTooLate, RoleUnknown, Logout
  <1>4. CASE CheckRotate(t) \/ RoleConfirmed(t)
    BY <1>2, <1>4 DEF CheckRotate, RoleConfirmed, Goes
  <1>5. QED
    BY <1>1, <1>3, <1>4 DEF Step, Makes, Verify, TakeSet, SetBusy, Choose, LocksBusy,
       ChooseRotate, CallerGone, LockNext, CheckCreate, RefuseCreate, Audit, CommitRotate,
       TakeLock, GiveUp, CheckSend, SendEnds, Refresh, AccountGone, Postpone

LEMMA AsideStore == ASSUME TypeOK, Aside PROVE Goes
  BY AsideDrops DEF Goes

LEMMA ArrivalStore == ASSUME Arrival PROVE Goes
  <1>1. PICK t \in Threads : \E point, r : Arrive(t, point, r)
    BY ArrivalArrives
  <1>2. QED
    BY <1>1 DEF Arrive, storeVars, Goes

\* The session a commit makes.
LEMMA Made ==
  ASSUME CountInv, NEW t \in AllThreads, Makes(t)
  PROVE  /\ nextId \in Ids \ live /\ nextId \notin revoked /\ Leave(t) /\ SameCounts
         /\ t \in Threads
         /\ info'[nextId] = [account |-> req[t].account, authAt |-> req[t].authAt,
                             unsure |-> req[t].unsure, from |-> req[t].session]
         /\ \A s \in 1..(nextId - 1) : info'[s] = info[s]
         /\ live \subseteq 1..(nextId - 1) /\ nextId' = nextId + 1
         /\ revoked' = revoked
         /\ req[t].account \in Accounts /\ ~Denied(req[t].account)
         /\ \/ /\ req[t].kind = "login" /\ live' = live \cup {nextId}
               /\ req[t].session = NoId /\ CommitCreate(t)
            \/ /\ req[t].kind = "rotate" /\ live' = (live \ {req[t].session}) \cup {nextId}
               /\ req[t].session \in live /\ info[req[t].session].account = req[t].account
               /\ req[t].session \notin MarkedBy(AllThreads \ {t})
               /\ pc[t] = "commit"
  <1>a. TypeOK /\ Courses /\ FreshIds
    BY DEF CountInv
  <1>1. /\ req[t].kind \in {"login", "rotate"} /\ Leave(t) /\ SameCounts /\ revoked' = revoked
        /\ \E S : Insert(t, S)
    BY DEF Makes, CommitCreate, CommitRotate, SameCounts, accountVars, historyVars
  <1>2. req[t].account \in Accounts /\ t \in Threads /\ t \in Making
    BY <1>a, <1>1, AccountKnown DEF Courses, Roles, AllThreads, Making
  <1>3. nextId \in Ids /\ nextId \in Nat
    BY <1>a, <1>1, <1>2, InsertOK DEF TypeOK
  <1>4. live \subseteq 1..(nextId - 1) /\ nextId \notin live /\ nextId \notin revoked
    BY <1>a, <1>3 DEF FreshIds
  <1>5. /\ info' = [info EXCEPT ![nextId] =
             [account |-> req[t].account, authAt |-> req[t].authAt,
              unsure |-> req[t].unsure, from |-> req[t].session]]
        /\ nextId' = nextId + 1
    BY <1>1 DEF Insert
  <1>6. /\ info'[nextId] = [account |-> req[t].account, authAt |-> req[t].authAt,
                            unsure |-> req[t].unsure, from |-> req[t].session]
        /\ \A s \in 1..(nextId - 1) : info'[s] = info[s]
    BY <1>a, <1>3, <1>5 DEF TypeOK
  <1>7. ~Denied(req[t].account)
    BY DEF Makes, CommitCreate, Superseded, Unchallenged
  <1>8. CASE CommitCreate(t)
    <2>1. req[t].kind = "login" /\ live' = live \cup {nextId} /\ req[t].session = NoId
      BY <1>8, <1>a DEF CommitCreate, Insert, Courses, Named, InSession
    <2>2. QED
      BY <1>1, <1>2, <1>3, <1>4, <1>5, <1>6, <1>7, <1>8, <2>1
  <1>9. CASE CommitRotate(t) /\ Unchallenged(t)
    <2>1. /\ req[t].kind = "rotate" /\ live' = (live \ {req[t].session}) \cup {nextId}
          /\ req[t].session \in live /\ req[t].session \notin MarkedBy(AllThreads \ {t})
          /\ pc[t] = "commit"
      BY <1>9 DEF CommitRotate, Unchallenged, Insert
    <2>2. info[req[t].session].account = req[t].account
      BY <1>a, <2>1 DEF Courses, Named, InSession
    <2>3. QED
      BY <1>1, <1>2, <1>3, <1>4, <1>5, <1>6, <1>7, <2>1, <2>2
  <1>10. QED
    BY <1>8, <1>9 DEF Makes

-----------------------------------------------------------------------------
(* The limit *)

LEMMA SessionsCounted ==
  ASSUME TypeOK, TypeOK', NEW a
  PROVE  /\ IsFiniteSet(SessionsOf(a)) /\ Cardinality(SessionsOf(a)) \in Nat
         /\ IsFiniteSet(SessionsOf(a)') /\ Cardinality(SessionsOf(a)') \in Nat
  <1>1. SessionsOf(a) \subseteq Ids /\ SessionsOf(a)' \subseteq Ids
    BY DEF SessionsOf, TypeOK
  <1>2. QED
    BY <1>1, IdsAreNumbers, FS_Subset, FS_CardinalityType

LEMMA FewerSessions ==
  ASSUME TypeOK, TypeOK', WithinLimit, Goes
  PROVE  WithinLimit'
  <1>1. ASSUME NEW a \in Accounts
        PROVE  Cardinality(SessionsOf(a)') <= Limit
    <2>1. SessionsOf(a)' \subseteq SessionsOf(a)
      BY DEF SessionsOf, Goes
    <2>2. Cardinality(SessionsOf(a)') <= Cardinality(SessionsOf(a))
      BY <2>1, SessionsCounted, FS_Subset
    <2>3. QED
      BY <2>2, SessionsCounted, NumberAssumption DEF WithinLimit
  <1>2. QED
    BY <1>1 DEF WithinLimit

\* A session more for the account of a login, another one for that of a rotation.
LEMMA MadeSessions ==
  ASSUME CountInv, NEW t \in AllThreads, Makes(t), NEW a
  PROVE  /\ nextId \notin SessionsOf(a)
         /\ req[t].account # a => SessionsOf(a)' = SessionsOf(a)
         /\ req[t].account = a /\ req[t].kind = "login" =>
              SessionsOf(a)' = SessionsOf(a) \cup {nextId}
         /\ req[t].account = a /\ req[t].kind = "rotate" =>
              /\ req[t].session \in SessionsOf(a)
              /\ SessionsOf(a)' = (SessionsOf(a) \ {req[t].session}) \cup {nextId}
  <1>1. /\ info'[nextId].account = req[t].account /\ nextId \notin live
        /\ \A s \in live : info'[s] = info[s]
    <2>1. info'[nextId] = [account |-> req[t].account, authAt |-> req[t].authAt,
                           unsure |-> req[t].unsure, from |-> req[t].session]
      BY Made
    <2>2. nextId \notin live /\ \A s \in live : info'[s] = info[s]
      BY Made
    <2>3. QED
      BY <2>1, <2>2
  <1>2. CASE req[t].kind = "login"
    <2>1. live' = live \cup {nextId}
      BY <1>2, Made
    <2>2. QED
      BY <1>1, <1>2, <2>1 DEF SessionsOf
  <1>3. CASE req[t].kind = "rotate"
    <2>1. /\ live' = (live \ {req[t].session}) \cup {nextId}
          /\ req[t].session \in live /\ info[req[t].session].account = req[t].account
      BY <1>3, Made
    <2>2. QED
      BY <1>1, <1>3, <2>1 DEF SessionsOf
  <1>4. QED
    BY <1>2, <1>3, Made

LEMMA MadeWithinLimit ==
  ASSUME CountInv, TypeOK', WithinLimit, NEW t \in AllThreads, Makes(t)
  PROVE  WithinLimit'
  <1>a. TypeOK
    BY DEF CountInv
  <1> SUFFICES ASSUME NEW a \in Accounts
               PROVE  Cardinality(SessionsOf(a)') <= Limit
    BY DEF WithinLimit
  <1>1. Cardinality(SessionsOf(a)) <= Limit /\ Cardinality(SessionsOf(a)) \in Nat
        /\ IsFiniteSet(SessionsOf(a)) /\ Cardinality(SessionsOf(a)') \in Nat /\ Limit \in Nat
    BY <1>a, SessionsCounted, NumberAssumption DEF WithinLimit
  <1>2. CASE req[t].account # a
    <2>1. SessionsOf(a)' \subseteq SessionsOf(a)
      BY <1>2, MadeSessions
    <2>2. QED
      BY <1>1, <2>1, FS_Subset
  <1>3. CASE req[t].account = a /\ req[t].kind = "login"
    <2>1. SessionsOf(a)' = SessionsOf(a) \cup {nextId} /\ nextId \notin SessionsOf(a)
      BY <1>3, MadeSessions
    <2>2. ~(Cardinality(SessionsOf(a)) >= Limit)
      BY <1>3, Made DEF CommitCreate, Full
    <2>3. Cardinality(SessionsOf(a) \cup {nextId}) = Cardinality(SessionsOf(a)) + 1
      BY <1>1, <2>1, FS_AddElement
    <2>4. Cardinality(SessionsOf(a)') = Cardinality(SessionsOf(a)) + 1
      BY <2>1, <2>3
    <2>5. QED
      BY <1>1, <2>2, <2>4
  <1>4. CASE req[t].account = a /\ req[t].kind = "rotate"
    <2>1. /\ SessionsOf(a)' = (SessionsOf(a) \ {req[t].session}) \cup {nextId}
          /\ req[t].session \in SessionsOf(a) /\ nextId \notin SessionsOf(a)
      BY <1>4, MadeSessions
    <2>2. /\ IsFiniteSet(SessionsOf(a) \ {req[t].session})
          /\ Cardinality(SessionsOf(a) \ {req[t].session}) = Cardinality(SessionsOf(a)) - 1
      BY <1>1, <2>1, FS_RemoveElement
    <2>3. Cardinality(SessionsOf(a)') = Cardinality(SessionsOf(a))
      <3>1. nextId \notin SessionsOf(a) \ {req[t].session}
        BY <2>1
      <3>2. Cardinality((SessionsOf(a) \ {req[t].session}) \cup {nextId}) =
              Cardinality(SessionsOf(a) \ {req[t].session}) + 1
        BY <2>2, <3>1, FS_AddElement
      <3>3. QED
        BY <1>1, <2>1, <2>2, <3>2
    <2>4. QED
      BY <1>1, <2>3
  <1>5. QED
    BY <1>2, <1>3, <1>4, Made

LEMMA NextWithinLimit == CountInv /\ WithinLimit /\ [Next]_vars => WithinLimit'
  <1> SUFFICES ASSUME CountInv, WithinLimit, [Next]_vars
               PROVE  WithinLimit'
    OBVIOUS
  <1>1. TypeOK /\ TypeOK'
    BY NextTypeOK DEF CountInv
  <1>2. QED
    BY <1>1, NextCases, StepStore, AsideStore, ArrivalStore, FewerSessions, MadeWithinLimit

-----------------------------------------------------------------------------
(* Sweeps *)

LEMMA StepMarks ==
  ASSUME CountInv, AllMarked, NEW t \in AllThreads, Step(t),
         pc'[t] = "locking", req'[t].kind \in Revocations
  PROVE  /\ Goes /\ SessionsOf(req[t].account) \subseteq marked'[t]
         /\ req'[t].account = req[t].account
  <1>a. ThreadsOK /\ OnCourse(t) /\ ~Leave(t)
    BY TypeParts, LeaveOK DEF CountInv, Courses
  <1>1. CASE Choose(t)
    BY <1>1, <1>a DEF Choose, Candidates, ThreadsOK, Revocations, storeVars, Goes
  <1>2. CASE LockNext(t)
    BY <1>2 DEF LockNext, AllMarked, storeVars, Goes
  <1>3. CASE ~Choose(t) /\ ~LockNext(t)
    <2>1. pc'[t] # "locking"
      BY <1>3, <1>a DEF Step, Verify, TakeSet, ChooseRotate, SweepForLogin, SweepAccount,
                  CheckCreate, Audit, TakeLock, CheckRotate, CheckSend, Refresh, Recheck,
                  RoleConfirmed, AccountGone, Go, ThreadsOK, CommitCreate, CommitRotate, Sweep,
                  RefuseSend, Logout, RefuseCreate, GiveUp, SendEnds, CallerGone, AnswerTooLate,
                  RoleUnknown, SetBusy, LocksBusy, Postpone
    <2>2. QED
      BY <2>1
  <1>4. QED
    BY <1>1, <1>2, <1>3

\* No session is made while its account is denied.
LEMMA DeniedMakesNone ==
  ASSUME CountInv, NEW t \in AllThreads, Makes(t), NEW a \in Accounts, Denied(a)
  PROVE  SessionsOf(a)' \subseteq SessionsOf(a)
  <1>1. req[t].account # a
    BY Made
  <1>2. QED
    BY <1>1, MadeSessions

LEMMA NextAllMarked == CountInv /\ AllMarked /\ [Next]_vars => AllMarked'
  <1> SUFFICES ASSUME CountInv, AllMarked, [Next]_vars, NEW u \in AllThreads,
                      pc'[u] = "locking", req'[u].kind \in Revocations
               PROVE  SessionsOf(req[u].account)' \subseteq marked'[u]
    BY DEF AllMarked
  <1>a. TypeOK /\ Courses
    BY DEF CountInv
  <1>1. ASSUME pc'[u] = pc[u], req'[u] = req[u], marked'[u] = marked[u],
               Goes \/ \E t \in AllThreads : Makes(t)
        PROVE  SessionsOf(req[u].account)' \subseteq marked'[u]
    <2>1. /\ pc[u] = "locking" /\ req[u].kind \in Revocations
          /\ SessionsOf(req[u].account) \subseteq marked[u]
      BY <1>1 DEF AllMarked
    <2>2. PICK a : a = req[u].account
      OBVIOUS
    <2>3. a \in Accounts /\ Denied(a)
      BY <2>1, <2>2, RevocationCounted
    <2>4. SessionsOf(a)' \subseteq SessionsOf(a)
      BY <1>1, <2>3, DeniedMakesNone DEF Goes, SessionsOf
    <2>5. QED
      BY <1>1, <2>1, <2>2, <2>4 DEF SessionsOf
  <1>2. CASE Aside
    BY <1>1, <1>2, <1>a, AsideOthers, AsideStore
  <1>3. CASE Arrival
    <2>1. PICK t \in Threads :
             /\ \A v \in AllThreads \ {t} : pc'[v] = pc[v] /\ req'[v] = req[v]
                                            /\ marked'[v] = marked[v]
             /\ \/ pc'[t] \in {"verify", "wantSet", "refresh", "wantLock"}
                \/ \E a \in Accounts : BeginLogin(t, a)
                \/ \E s \in live : BeginLogout(t, s)
                \/ pc'[t] = "locking" /\ req'[t].kind = "purge"
      BY <1>3, <1>a, ArrivalStarts
    <2>2. pc'[t] # "locking" \/ req'[t].kind = "purge"
      BY <1>a, <2>1 DEF BeginLogin, BeginLogout, Arrive, Go, TypeOK, AllThreads
    <2>3. u # t
      BY <2>2 DEF Revocations
    <2>4. QED
      BY <1>1, <1>3, <2>1, <2>3, ArrivalStore
  <1>4. ASSUME NEW t \in AllThreads, Step(t)
        PROVE  SessionsOf(req[u].account)' \subseteq marked'[u]
    <2>1. CASE u = t
      BY <1>4, <2>1, StepMarks DEF Goes, SessionsOf
    <2>2. CASE u # t
      BY <1>1, <1>4, <1>a, <2>2, StepOthers, StepStore DEF Others, Alone
    <2>3. QED
      BY <2>1, <2>2
  <1>5. QED
    BY <1>2, <1>3, <1>4, NextCases

-----------------------------------------------------------------------------
(* Generations *)

\* What binds one login, as a condition on that thread alone.
LoginBound(t) ==
    req[t].kind = "login" /\ ~req[t].unsure =>
        /\ req[t].gen <= generation[req[t].account]
        /\ req[t].gen = generation[req[t].account] =>
             /\ ~Denied(req[t].account)
             /\ pc[t] # "verify" => req[t].authAt = begun[req[t].account]

\* A denial of its account, begun, put off or completed, leaves a login bound.
LEMMA DenyBinds ==
  ASSUME TypeOK, Courses, LoginsBound, NEW a \in Accounts, Deny(a), NEW t \in AllThreads,
         req'[t] = req[t], pc'[t] = pc[t]
  PROVE  LoginBound(t)'
  <1> SUFFICES ASSUME req[t].kind = "login", ~req[t].unsure
               PROVE  LoginBound(t)'
    BY DEF LoginBound
  <1>1. PICK b : b = req[t].account
    OBVIOUS
  <1>2. b \in Accounts
    BY <1>1, AccountKnown
  <1>3. /\ req[t].gen <= generation[b]
        /\ req[t].gen = generation[b] =>
             ~Denied(b) /\ (pc[t] # "verify" => req[t].authAt = begun[b])
        /\ req[t].gen \in Nat /\ generation[b] \in Nat
    BY <1>1, <1>2 DEF LoginsBound, TypeOK, Requests
  <1>4. CASE a = b
    <2>1. generation'[b] = IF Denied(b) THEN generation[b] ELSE generation[b] + 1
      BY <1>2, <1>4 DEF Deny, NextGeneration, TypeOK
    <2>2. req[t].gen <= generation'[b] /\ req[t].gen # generation'[b]
      BY <1>3, <2>1
    <2>3. QED
      BY <1>1, <2>2 DEF LoginBound
  <1>5. CASE a # b
    <2>1. generation'[b] = generation[b] /\ denials'[b] = denials[b] /\ begun'[b] = begun[b]
      BY <1>2, <1>5 DEF Deny, TypeOK
    <2>2. QED
      BY <1>1, <1>3, <2>1 DEF LoginBound, Denied
  <1>6. QED
    BY <1>4, <1>5

LEMMA SweepBinds ==
  ASSUME CountInv, LoginsBound, NEW u \in AllThreads, SweepAccount(u), NEW t \in AllThreads,
         req'[t] = req[t], pc'[t] = pc[t]
  PROVE  LoginBound(t)'
  <1> SUFFICES ASSUME req[t].kind = "login", ~req[t].unsure
               PROVE  LoginBound(t)'
    BY DEF LoginBound
  <1>1. PICK a, b : a = req[u].account /\ b = req[t].account
    OBVIOUS
  <1>2. a \in Accounts /\ Denied(a) /\ b \in Accounts
    BY <1>1, AccountKnown, RevocationCounted DEF SweepAccount, CountInv
  <1>3. /\ req[t].gen <= generation[b]
        /\ req[t].gen = generation[b] =>
             ~Denied(b) /\ (pc[t] # "verify" => req[t].authAt = begun[b])
    BY <1>1 DEF LoginsBound
  <1>4. /\ denials' = [denials EXCEPT ![a] = @ - 1] /\ UNCHANGED <<generation, begun>>
        /\ denials \in [Accounts -> Nat]
    BY <1>1 DEF SweepAccount, CountInv, TypeOK
  <1>5. req[t].gen = generation[b] => a # b /\ denials'[b] = denials[b]
    BY <1>2, <1>3, <1>4
  <1>6. QED
    BY <1>1, <1>3, <1>4, <1>5 DEF LoginBound, Denied

LEMMA SameBinds ==
  ASSUME LoginsBound, SameCounts, NEW t \in AllThreads, req'[t] = req[t], pc'[t] = pc[t]
  PROVE  LoginBound(t)'
  BY DEF LoginsBound, LoginBound, SameCounts, Denied

LEMMA NextLoginsBound == CountInv /\ LoginsBound /\ [Next]_vars => LoginsBound'
  <1> SUFFICES ASSUME CountInv, LoginsBound, [Next]_vars, NEW t \in AllThreads
               PROVE  LoginBound(t)'
    BY DEF LoginsBound, LoginBound
  <1>a. TypeOK /\ Courses
    BY DEF CountInv
  <1>b. req'[t].kind # "login" => LoginBound(t)'
    BY DEF LoginBound
  <1>1. CASE Aside
    <2>1. \/ pc'[t] = pc[t] /\ req'[t] = req[t]
          \/ req'[t].kind # "login"
      BY <1>1, <1>a, AsideOthers
    <2>2. QED
      BY <1>1, <1>b, <2>1, SameBinds, AsideAccounts
  <1>2. CASE Arrival
    <2>1. PICK u \in Threads :
             /\ \A v \in AllThreads \ {u} : pc'[v] = pc[v] /\ req'[v] = req[v]
             /\ pc[u] = "idle"
             /\ \/ req'[u].kind # "login" /\ SameCounts
                \/ \E a \in Accounts : BeginLogin(u, a)
                \/ \E s \in live : BeginLogout(u, s)
                \/ req'[u].kind \in Revocations /\ \E a \in Accounts : Deny(a)
      BY <1>2, <1>a, ArrivalStarts
    <2>2. "login" \notin Revocations
      BY DEF Revocations
    <2>3. ASSUME NEW a \in Accounts, BeginLogin(u, a)
          PROVE  SameCounts /\ LoginBound(u)'
      <3>1. SameCounts
        BY <2>3 DEF BeginLogin, SameCounts, accountVars
      <3>2. /\ req'[u] = [NoRequest EXCEPT !.kind = "login", !.account = a,
                                           !.gen = generation[a], !.unsure = Denied(a)]
            /\ pc'[u] = "verify"
        BY <1>a, <2>3 DEF BeginLogin, Arrive, Go, TypeOK, AllThreads
      <3>3. /\ req'[u].account = a /\ req'[u].gen = generation[a]
            /\ ~req'[u].unsure => ~Denied(a)
        BY <3>2 DEF NoRequest
      <3>4. generation[a] \in Nat /\ generation'[a] = generation[a]
            /\ (~Denied(a) => ~Denied(a)')
        BY <1>a, <3>1 DEF TypeOK, SameCounts, Denied
      <3>5. LoginBound(u)'
        BY <3>2, <3>3, <3>4 DEF LoginBound, Denied
      <3>6. QED
        BY <3>1, <3>5
    <2>4. ASSUME NEW s \in live, BeginLogout(u, s)
          PROVE  SameCounts /\ req'[u].kind # "login"
      <3>1. req'[u] = [NoRequest EXCEPT !.kind = "logout", !.session = s,
                                        !.account = info[s].account]
        BY <1>a, <2>4 DEF BeginLogout, Arrive, TypeOK, AllThreads
      <3>2. QED
        BY <2>4, <3>1 DEF BeginLogout, SameCounts, accountVars, NoRequest
    <2>5. CASE t = u
      BY <1>b, <2>1, <2>2, <2>3, <2>4, <2>5
    <2>6. CASE t # u
      BY <1>a, <2>1, <2>3, <2>4, <2>6, SameBinds, DenyBinds
    <2>7. QED
      BY <2>5, <2>6
  <1>3. ASSUME NEW u \in AllThreads, Step(u)
        PROVE  LoginBound(t)'
    <2>1. CASE t # u
      <3>1. pc'[t] = pc[t] /\ req'[t] = req[t]
        BY <1>3, <1>a, <2>1, StepOthers DEF Others, Alone
      <3>2. AccountGone(u) => req[u].account \in Accounts
        BY <1>a, AccountKnown DEF AccountGone, Courses, OnCourse
      <3>3. QED
        BY <1>3, <1>a, <3>1, <3>2, StepAccounts, SameBinds, SweepBinds, DenyBinds
    <2>2. CASE t = u /\ req'[t].kind = "login"
      <3>1. /\ req[t].kind = "login" /\ req'[t].account = req[t].account
            /\ req'[t].gen = req[t].gen /\ req'[t].unsure = req[t].unsure
            /\ pc'[t] # "verify"
            /\ pc[t] # "verify" => req'[t].authAt = req[t].authAt
            /\ pc[t] = "verify" => req'[t].authAt = begun[req[t].account]
        BY <1>3, <1>a, <2>2, StepRequests
      <3>2. SameCounts
        BY <1>3, <1>a, <2>2, <3>1, StepAccounts DEF SweepAccount, AccountGone, Revocations,
                    Courses, OnCourse
      <3>3. QED
        BY <3>1, <3>2 DEF LoginBound, LoginsBound, SameCounts, Denied
    <2>3. QED
      BY <1>b, <2>1, <2>2
  <1>4. QED
    BY <1>1, <1>2, <1>3, NextCases

-----------------------------------------------------------------------------
(* What a completed revocation binds *)

Binding == RevokedStayGone /\ RotationsBound

\* A barrier is no later than the revocations begun.
LEMMA BarrierBegun ==
  ASSUME CountInv, NEW a \in Accounts
  PROVE  barrier[a] \in Nat /\ begun[a] \in Nat /\ begun[a] >= barrier[a]
  BY DEF CountInv, Ordinals, TypeOK

\* A sweep leaves no session of its account.
LEMMA SweptGone ==
  ASSUME CountInv, NEW u \in AllThreads, SweepAccount(u)
  PROVE  /\ Goes /\ \A s \in live' : info'[s].account # req[u].account
         /\ \A b \in Accounts : b # req[u].account => barrier'[b] = barrier[b]
  <1>1. PICK a : a = req[u].account
    OBVIOUS
  <1>2. Goes /\ live' = live \ SessionsOf(a)
    BY <1>1 DEF SweepAccount, Drop, SweptBy, Goes
  <1>3. \A s \in live' : info'[s].account # a
    BY <1>2 DEF Goes, SessionsOf
  <1>4. \A b \in Accounts : b # a => barrier'[b] = barrier[b]
    BY <1>1 DEF SweepAccount, CountInv, TypeOK
  <1>5. QED
    BY <1>1, <1>2, <1>3, <1>4

LEMMA MadeBound ==
  ASSUME CountInv, LoginsBound, Binding, NEW u \in AllThreads, Makes(u)
  PROVE  RevokedStayGone'
  <1>a. TypeOK /\ SameCounts
    BY Made DEF CountInv
  <1> SUFFICES ASSUME NEW s \in live'
               PROVE  info'[s].unsure \/ info'[s].authAt >= barrier[info'[s].account]
    BY <1>a DEF RevokedStayGone, SameCounts
  <1>1. CASE s \in live
    <2>1. info'[s] = info[s]
      BY <1>1, Made
    <2>2. QED
      BY <1>1, <2>1 DEF Binding, RevokedStayGone
  <1>2. CASE s \notin live
    <2>1. s = nextId
      BY <1>2, Made
    <2>2. info'[s] = [account |-> req[u].account, authAt |-> req[u].authAt,
                      unsure |-> req[u].unsure, from |-> req[u].session]
      BY <2>1, Made
    <2>3. CASE req[u].kind = "rotate"
      <3>1. req[u].session \in live /\ pc[u] = "commit"
        BY <2>3, Made
      <3>2. QED
        BY <2>2, <2>3, <3>1 DEF Binding, RotationsBound
    <2>4. CASE req[u].kind = "login"
      <3>1. pc[u] = "commit" /\ generation[req[u].account] = req[u].gen
        BY <2>4, Made DEF CommitCreate, Superseded
      <3>2. ~req[u].unsure => req[u].authAt = begun[req[u].account]
        BY <2>4, <3>1 DEF LoginsBound
      <3>3. req[u].account \in Accounts
        BY Made
      <3>4. QED
        BY <2>2, <3>2, <3>3, BarrierBegun
    <2>5. QED
      BY <2>3, <2>4, Made
  <1>3. QED
    BY <1>1, <1>2

LEMMA NextBinding == CountInv /\ LoginsBound /\ Binding /\ [Next]_vars => Binding'
  <1> SUFFICES ASSUME CountInv, LoginsBound, Binding, [Next]_vars
               PROVE  Binding'
    OBVIOUS
  <1>a. TypeOK /\ Courses /\ FreshIds
    BY DEF CountInv
  <1>b. ASSUME Goes, barrier' = barrier
        PROVE  RevokedStayGone'
    BY <1>b DEF Binding, RevokedStayGone, Goes
  <1>c. ASSUME Goes, barrier' = barrier,
               \A t \in AllThreads :
                  (pc'[t] = pc[t] /\ req'[t] = req[t]) \/ req'[t].kind # "rotate"
                  \/ pc'[t] = "verify"
        PROVE  Binding'
    <2>1. RotationsBound'
      BY <1>c DEF Binding, RotationsBound, Goes
    <2>2. QED
      BY <1>b, <1>c, <2>1 DEF Binding
  <1>1. CASE Aside
    <2>1. Goes /\ barrier' = barrier
      BY <1>1, <1>a, AsideStore, AsideAccounts DEF SameCounts
    <2>2. \A t \in AllThreads :
             (pc'[t] = pc[t] /\ req'[t] = req[t]) \/ req'[t].kind # "rotate"
      BY <1>1, <1>a, AsideOthers
    <2>3. QED
      BY <1>c, <2>1, <2>2
  <1>2. CASE Arrival
    <2>1. PICK t \in Threads :
             /\ \A v \in AllThreads \ {t} : pc'[v] = pc[v] /\ req'[v] = req[v]
             /\ \/ req'[t].kind = "rotate" => pc'[t] = "verify"
                \/ \E a \in Accounts : BeginLogin(t, a)
                \/ \E s \in live : BeginLogout(t, s)
             /\ barrier' = barrier
      <3>1. Arrival => barrier' = barrier
        BY DEF Arrival, BeginLogin, BeginRevocation, BeginInSession, BeginLogout, BeginPurge, Deny
      <3>2. {"login", "purge"} \cap {"rotate"} = {} /\ "rotate" \notin Revocations
        BY DEF Revocations
      <3>3. QED
        BY <1>2, <1>a, <3>1, <3>2, ArrivalStarts
    <2>2. ASSUME NEW a \in Accounts, BeginLogin(t, a)
          PROVE  req'[t].kind # "rotate"
      <3>1. req'[t] = [NoRequest EXCEPT !.kind = "login", !.account = a,
                                        !.gen = generation[a], !.unsure = Denied(a)]
        BY <1>a, <2>2 DEF BeginLogin, Arrive, TypeOK, AllThreads
      <3>2. QED
        BY <3>1 DEF NoRequest
    <2>3. ASSUME NEW s \in live, BeginLogout(t, s)
          PROVE  req'[t].kind # "rotate"
      <3>1. req'[t] = [NoRequest EXCEPT !.kind = "logout", !.session = s,
                                        !.account = info[s].account]
        BY <1>a, <2>3 DEF BeginLogout, Arrive, TypeOK, AllThreads
      <3>2. QED
        BY <3>1 DEF NoRequest
    <2>4. QED
      BY <1>2, <1>c, <2>1, <2>2, <2>3, ArrivalStore
  <1>3. ASSUME NEW u \in AllThreads, Step(u)
        PROVE  Binding'
    <2>0. \A t \in AllThreads \ {u} : pc'[t] = pc[t] /\ req'[t] = req[t]
      BY <1>3, <1>a, StepOthers DEF Others, Alone
    <2>u. ASSUME req'[u].kind = "rotate"
          PROVE  /\ req[u].kind = "rotate" /\ req'[u].account = req[u].account
                 /\ req'[u].session = req[u].session /\ SameCounts
                 /\ pc[u] # "verify" => req'[u].authAt = req[u].authAt
                 /\ pc[u] = "verify" => req'[u].authAt = begun[req[u].account]
      <3>1. /\ req[u].kind = "rotate" /\ req'[u].account = req[u].account
            /\ req'[u].session = req[u].session
            /\ pc[u] # "verify" => req'[u].authAt = req[u].authAt
            /\ pc[u] = "verify" => req'[u].authAt = begun[req[u].account]
        BY <1>3, <1>a, <2>u, StepRequests
      <3>2. SameCounts
        BY <1>3, <1>a, <3>1, StepAccounts DEF SweepAccount, AccountGone, Revocations,
                    Courses, OnCourse
      <3>3. QED
        BY <3>1, <3>2
    <2>1. ASSUME SweepAccount(u)
          PROVE  Binding'
      <3>1. PICK a : a = req[u].account
        OBVIOUS
      <3>2. /\ \A s \in live' : info'[s].account # a
            /\ \A b \in Accounts : b # a => barrier'[b] = barrier[b]
            /\ Goes
        BY <2>1, <3>1, SweptGone
      <3>3. \A s \in live : info[s].account \in Accounts
        BY <1>a DEF TypeOK, Sessions
      <3>4. RevokedStayGone'
        BY <3>2, <3>3 DEF Binding, RevokedStayGone, Goes
      <3>5. req'[u].kind # "rotate"
        BY <2>1, <2>u DEF SweepAccount, Revocations
      <3>6. ASSUME NEW t \in AllThreads, req'[t].kind = "rotate", pc'[t] # "verify",
                   req'[t].session \in live'
            PROVE  req'[t].authAt >= barrier'[req'[t].account]
        <4>1. req'[t] = req[t] /\ pc'[t] = pc[t]
          BY <2>0, <3>5, <3>6
        <4>2. info[req[t].session].account = req[t].account /\ req[t].account \in Accounts
          BY <1>a, <3>6, <4>1, AccountKnown DEF Courses, Named, InSession
        <4>3. req[t].account # a /\ req[t].session \in live
          BY <3>2, <3>6, <4>1, <4>2 DEF Goes
        <4>4. QED
          BY <3>2, <3>6, <4>1, <4>2, <4>3 DEF Binding, RotationsBound
      <3>7. QED
        BY <3>4, <3>6 DEF Binding, RotationsBound
    <2>2. ASSUME barrier' = barrier
          PROVE  RotationsBound'
      <3> SUFFICES ASSUME NEW t \in AllThreads, req'[t].kind = "rotate", pc'[t] # "verify",
                          req'[t].session \in live'
                   PROVE  req'[t].authAt >= barrier'[req'[t].account]
        BY DEF RotationsBound
      <3>1. /\ req[t].kind = "rotate" /\ req'[t].account = req[t].account
            /\ req'[t].session = req[t].session
            /\ pc[t] # "verify" => req'[t].authAt = req[t].authAt
            /\ pc[t] = "verify" => req'[t].authAt = begun[req[t].account]
        BY <2>0, <2>u
      <3>2. req[t].account \in Accounts /\ req[t].session \in 1..(nextId - 1)
        BY <1>a, <3>1, AccountKnown DEF Courses, Named, InSession
      <3>3. req[t].session \in live
        <4>1. CASE Goes
          BY <3>1, <4>1 DEF Goes
        <4>2. CASE Makes(u)
          <5>1. nextId \in Nat /\ req[t].session # nextId
            BY <1>a, <3>2 DEF TypeOK
          <5>2. live' \subseteq live \cup {nextId}
            BY <4>2, Made
          <5>3. QED
            BY <3>1, <5>1, <5>2
        <4>3. QED
          BY <1>3, <4>1, <4>2, StepStore
      <3>4. CASE pc[t] # "verify"
        BY <2>2, <3>1, <3>3, <3>4 DEF Binding, RotationsBound
      <3>5. CASE pc[t] = "verify"
        BY <2>2, <3>1, <3>2, <3>5, BarrierBegun
      <3>6. QED
        BY <3>4, <3>5
    <2>3. ~SweepAccount(u) => barrier' = barrier
      BY <1>3, StepAccounts DEF SameCounts, Deny
    <2>4. CASE Makes(u)
      <3>1. RevokedStayGone' /\ barrier' = barrier
        BY <2>4, MadeBound, Made DEF SameCounts
      <3>2. QED
        BY <2>2, <3>1 DEF Binding
    <2>5. CASE Goes /\ barrier' = barrier
      BY <1>b, <2>2, <2>5 DEF Binding
    <2>6. QED
      BY <1>3, <2>1, <2>3, <2>4, <2>5, StepStore
  <1>4. QED
    BY <1>1, <1>2, <1>3, NextCases

-----------------------------------------------------------------------------
(* Successors *)

NoHeirOnTheWay(t) ==
    req[t].kind = "logout" =>
      marked[t] = {req[t].session} /\ \A s \in live : info[s].from # req[t].session
Replaced ==
    /\ live \cap revoked = {}
    /\ \A s \in live : info[s].from \notin live \cup revoked /\ info[s].from < nextId
LEMMA SuccessionParts ==
  /\ Succession <=> Replaced /\ \A t \in AllThreads : NoHeirOnTheWay(t)
  /\ Succession' <=> Replaced' /\ \A t \in AllThreads : NoHeirOnTheWay(t)'
  BY DEF Succession, Replaced, NoHeirOnTheWay

\* Sessions that go have no heirs.
LEMMA GoesReplaced ==
  ASSUME Replaced, Goes, revoked' = revoked
  PROVE  Replaced'
  BY DEF Replaced, Goes

\* A rotation that commits has not been overtaken by a logout of its session.
LEMMA MadeReplaced ==
  ASSUME CountInv, Succession, NEW u \in AllThreads, Makes(u)
  PROVE  Succession'
  <1>a. TypeOK /\ FreshIds /\ Courses
    BY DEF CountInv
  <1>b. Replaced /\ \A t \in AllThreads : NoHeirOnTheWay(t)
    BY SuccessionParts
  <1>1. /\ nextId \in Nat \ {0} /\ nextId \notin live /\ nextId \notin revoked
        /\ nextId' = nextId + 1 /\ revoked' = revoked
        /\ \A s \in live : info'[s] = info[s]
        /\ live \subseteq 1..(nextId - 1) /\ revoked \subseteq 1..(nextId - 1)
        /\ live' \subseteq live \cup {nextId}
    BY <1>a, IdsAreNumbers, Made DEF FreshIds, TypeOK, NoId
  <1>2. info'[nextId].from = req[u].session
    <2>1. info'[nextId] = [account |-> req[u].account, authAt |-> req[u].authAt,
                           unsure |-> req[u].unsure, from |-> req[u].session]
      BY Made
    <2>2. QED
      BY <2>1
  <1>s. req[u].session \in Nat
    <2>1. req[u].session \in Ids \cup {NoId}
      BY <1>a DEF TypeOK, Requests
    <2>2. NoId \in Nat /\ Ids \subseteq Nat
      BY IdsAreNumbers DEF NoId
    <2>3. QED
      BY <2>1, <2>2
  <1>3. req[u].session \notin live' \cup revoked /\ req[u].session < nextId
    <2>1. CASE req[u].kind = "login"
      <3>1. req[u].session = 0
        BY <2>1, Made DEF NoId
      <3>2. QED
        BY <1>1, <3>1
    <2>2. CASE req[u].kind = "rotate"
      <3>1. req[u].session \in live /\ live' = (live \ {req[u].session}) \cup {nextId}
        BY <2>2, Made
      <3>2. req[u].session \notin live' /\ req[u].session \notin revoked
        BY <1>1, <1>b, <3>1 DEF Replaced
      <3>3. req[u].session \in 1..(nextId - 1)
        BY <1>1, <3>1
      <3>4. req[u].session < nextId
        BY <1>1, <1>s, <3>3
      <3>5. QED
        BY <3>2, <3>4
    <2>3. QED
      BY <2>1, <2>2, Made
  <1>4. Replaced'
    <2>1. live' \cap revoked' = {}
      BY <1>1, <1>b DEF Replaced
    <2>2. ASSUME NEW s \in live'
          PROVE  info'[s].from \notin live' \cup revoked' /\ info'[s].from < nextId'
      <3>1. CASE s = nextId
        BY <1>1, <1>2, <1>3, <1>s, <3>1
      <3>2. CASE s # nextId
        <4>1. s \in live /\ info'[s] = info[s]
          BY <1>1, <2>2, <3>2
        <4>2. info[s].from \notin live \cup revoked /\ info[s].from < nextId
          BY <1>b, <4>1 DEF Replaced
        <4>3. info[s].from # nextId /\ info[s].from < nextId + 1
          <5>1. info[s].from \in Ids \cup {NoId}
            BY <1>a, <4>1 DEF TypeOK, Sessions
          <5>2. info[s].from \in Nat
            BY <5>1, IdsAreNumbers DEF NoId
          <5>3. QED
            BY <1>1, <4>2, <5>2
        <4>4. QED
          BY <1>1, <4>1, <4>2, <4>3
      <3>3. QED
        BY <3>1, <3>2
    <2>3. QED
      BY <2>1, <2>2 DEF Replaced
  <1>5. ASSUME NEW t \in AllThreads, req'[t].kind = "logout"
        PROVE  NoHeirOnTheWay(t)'
    <2>1. u # t /\ req'[t] = req[t] /\ marked'[t] = marked[t]
      <3>1. Leave(u) /\ ThreadsOK /\ LocksOK
        BY <1>a, TypeParts, Made
      <3>2. Alone(u) /\ req'[u] = NoRequest
        BY <3>1, LeaveOK
      <3>3. NoRequest.kind # "logout"
        BY NoRequestOK
      <3>4. QED
        BY <1>5, <3>2, <3>3 DEF Alone
    <2>2. marked[t] = {req[t].session} /\ \A s \in live : info[s].from # req[t].session
      BY <1>5, <1>b, <2>1 DEF NoHeirOnTheWay
    <2>3. req[u].session # req[t].session
      <3>1. CASE req[u].kind = "rotate"
        <4>1. req[u].session \notin MarkedBy(AllThreads \ {u})
          BY <3>1, Made
        <4>2. QED
          BY <2>1, <2>2, <4>1 DEF MarkedBy
      <3>2. CASE req[u].kind = "login"
        <4>1. req[u].session = NoId /\ req[t].session \in 1..(nextId - 1)
          BY <1>a, <1>5, <2>1, <3>2, Made DEF Courses, Named, InSession
        <4>2. QED
          BY <4>1 DEF NoId
      <3>3. QED
        BY <3>1, <3>2, Made
    <2>4. \A s \in live' : info'[s].from # req'[t].session
      BY <1>1, <1>2, <2>1, <2>2, <2>3
    <2>5. QED
      BY <2>1, <2>2, <2>4 DEF NoHeirOnTheWay
  <1>6. QED
    BY <1>4, <1>5, SuccessionParts DEF NoHeirOnTheWay

LEMMA NextSuccession == CountInv /\ Succession /\ [Next]_vars => Succession'
  <1> SUFFICES ASSUME CountInv, Succession, [Next]_vars
               PROVE  Succession'
    OBVIOUS
  <1>a. TypeOK /\ Courses
    BY DEF CountInv
  <1>b. Replaced /\ \A t \in AllThreads : NoHeirOnTheWay(t)
    BY SuccessionParts
  <1>c. ASSUME Goes, NEW t \in AllThreads, req'[t].kind = "logout", req[t].kind = "logout",
               req'[t].session = req[t].session, marked'[t] = marked[t]
        PROVE  NoHeirOnTheWay(t)'
    BY <1>b, <1>c DEF NoHeirOnTheWay, Goes
  <1>1. CASE Aside
    <2>1. Goes /\ revoked' = revoked
      BY <1>1, <1>a, AsideStore, AsideDrops
    <2>2. ASSUME NEW t \in AllThreads, req'[t].kind = "logout"
          PROVE  NoHeirOnTheWay(t)'
      <3>1. req'[t] = req[t] /\ marked'[t] = marked[t]
        BY <1>1, <1>a, <2>2, AsideOthers
      <3>2. QED
        BY <1>c, <2>1, <2>2, <3>1
    <2>3. QED
      BY <1>b, <2>1, <2>2, GoesReplaced, SuccessionParts DEF NoHeirOnTheWay
  <1>2. CASE Arrival
    <2>1. PICK u \in Threads :
             /\ UNCHANGED revoked
             /\ \A v \in AllThreads \ {u} : pc'[v] = pc[v] /\ req'[v] = req[v]
                                            /\ marked'[v] = marked[v]
             /\ \/ req'[u].kind # "logout"
                \/ \E a \in Accounts : BeginLogin(u, a)
                \/ \E s \in live : BeginLogout(u, s)
      <3>1. "logout" \notin Revocations
        BY DEF Revocations
      <3>2. QED
        BY <1>2, <1>a, <3>1, ArrivalStarts
    <2>2. Goes
      BY <1>2, ArrivalStore
    <2>3. ASSUME NEW a \in Accounts, BeginLogin(u, a)
          PROVE  req'[u].kind # "logout"
      <3>1. req'[u] = [NoRequest EXCEPT !.kind = "login", !.account = a,
                                        !.gen = generation[a], !.unsure = Denied(a)]
        BY <1>a, <2>3 DEF BeginLogin, Arrive, TypeOK, AllThreads
      <3>2. QED
        BY <3>1 DEF NoRequest
    <2>4. ASSUME NEW s \in live, BeginLogout(u, s)
          PROVE  NoHeirOnTheWay(u)'
      <3>1. req'[u] = [NoRequest EXCEPT !.kind = "logout", !.session = s,
                                        !.account = info[s].account]
        BY <1>a, <2>4 DEF BeginLogout, Arrive, TypeOK, AllThreads
      <3>2. req'[u].session = s
        BY <3>1 DEF NoRequest
      <3>3. marked'[u] = {s}
        BY <1>a, <2>4 DEF BeginLogout, TypeOK, AllThreads
      <3>4. \A r \in live' : info'[r].from # s
        BY <1>b, <2>2, <2>4 DEF Replaced, Goes
      <3>5. QED
        BY <3>2, <3>3, <3>4 DEF NoHeirOnTheWay
    <2>5. ASSUME NEW t \in AllThreads, req'[t].kind = "logout"
          PROVE  NoHeirOnTheWay(t)'
      <3>1. CASE t = u
        BY <2>1, <2>3, <2>4, <2>5, <3>1
      <3>2. CASE t # u
        BY <1>c, <2>1, <2>2, <2>5, <3>2
      <3>3. QED
        BY <3>1, <3>2
    <2>6. QED
      BY <1>b, <2>1, <2>2, <2>5, GoesReplaced, SuccessionParts DEF NoHeirOnTheWay
  <1>3. ASSUME NEW u \in AllThreads, Step(u), Goes
        PROVE  Succession'
    <2>1. ASSUME NEW t \in AllThreads, req'[t].kind = "logout"
          PROVE  NoHeirOnTheWay(t)'
      <3>1. CASE t = u
        BY <1>3, <1>a, <1>c, <2>1, <3>1, StepRequests
      <3>2. CASE t # u
        BY <1>3, <1>a, <1>c, <2>1, <3>2, StepOthers DEF Others, Alone
      <3>3. QED
        BY <3>1, <3>2
    <2>2. Replaced'
      <3>1. CASE revoked' = revoked
        BY <1>3, <1>b, <3>1, GoesReplaced
      <3>2. CASE /\ req[u].kind = "logout" /\ revoked' = revoked \cup {req[u].session}
                 /\ live' \subseteq live \ {req[u].session}
        BY <1>3, <1>b, <3>2 DEF Replaced, NoHeirOnTheWay, Goes
      <3>3. nextId' = nextId => ~\E S : Insert(u, S)
        BY <1>a DEF TypeOK, Insert
      <3>4. QED
        BY <1>3, <1>a, <3>1, <3>2, <3>3, StepDrops DEF Goes
    <2>3. QED
      BY <2>1, <2>2, SuccessionParts DEF NoHeirOnTheWay
  <1>4. QED
    BY <1>1, <1>2, <1>3, NextCases, StepStore, MadeReplaced

-----------------------------------------------------------------------------
(* The inductive invariant *)

LEMMA NextStoreInv == StoreInv /\ [Next]_vars => StoreInv'
  <1> SUFFICES ASSUME StoreInv, [Next]_vars
               PROVE  StoreInv'
    OBVIOUS
  <1>1. CountInv /\ LocksHeld /\ AllMarked /\ LoginsBound /\ Binding /\ Succession /\ WithinLimit
    BY DEF StoreInv, Binding, RevokedStayOut
  <1>2. CountInv' /\ LocksHeld' /\ AllMarked' /\ LoginsBound' /\ Binding' /\ Succession'
        /\ WithinLimit'
    BY <1>1, NextCountInv, NextLocksHeld, NextAllMarked, NextLoginsBound, NextBinding,
       NextSuccession, NextWithinLimit
  <1>3. Succession' => RevokedHaveNoHeir'
    BY DEF Succession, RevokedHaveNoHeir
  <1>4. QED
    BY <1>2, <1>3 DEF StoreInv, Binding, RevokedStayOut

LEMMA InitStoreInv == Init => StoreInv
  <1> SUFFICES ASSUME Init
               PROVE  StoreInv
    OBVIOUS
  <1>1. CountInv
    BY InitCountInv
  <1>2. /\ \A t \in AllThreads : req[t] = NoRequest /\ pc[t] = "idle"
        /\ revoked = {} /\ live = 1..Established /\ nextId = Established + 1
        /\ \A a \in Accounts : barrier[a] = 0
    BY DEF Init
  <1>3. PICK a \in Accounts :
          info = [s \in Ids |-> [account |-> a, authAt |-> 0, unsure |-> FALSE, from |-> NoId]]
    BY DEF Init
  <1>4. Established \in Nat /\ Established <= Limit /\ Limit \in Nat /\ live \subseteq Ids
    BY <1>1, NumberAssumption DEF CountInv, TypeOK
  <1>5. LocksHeld /\ AllMarked /\ LoginsBound /\ RotationsBound
    BY <1>2, NoRequestOK DEF LocksHeld, AtSession, AllMarked, LoginsBound, RotationsBound
  <1>6. \A s \in live : info[s].from = NoId /\ info[s].authAt = 0 /\ info[s].account = a
    BY <1>3, <1>4
  <1>7. Succession /\ RevokedStayOut
    BY <1>2, <1>3, <1>4, <1>6, NoRequestOK DEF Succession, RevokedStayOut, RevokedStayGone,
                RevokedHaveNoHeir, NoId
  <1>8. WithinLimit
    <2>1. IsFiniteSet(1..Established) /\ Cardinality(1..Established) = Established
      BY <1>4, FS_Interval
    <2>2. ASSUME NEW b \in Accounts
          PROVE  Cardinality(SessionsOf(b)) <= Established /\ Cardinality(SessionsOf(b)) \in Nat
      <3>1. SessionsOf(b) \subseteq 1..Established
        BY <1>2 DEF SessionsOf
      <3>2. QED
        BY <2>1, <3>1, FS_Subset, FS_CardinalityType
    <2>3. QED
      BY <1>4, <2>2 DEF WithinLimit
  <1>9. QED
    BY <1>1, <1>5, <1>7, <1>8 DEF StoreInv

LEMMA AlwaysStored == Spec => []StoreInv
  BY InitStoreInv, NextStoreInv, PTL DEF Spec

-----------------------------------------------------------------------------
(* What follows *)

\* No account ever has more sessions than its limit, whatever logins, rotations and
\* sweeps are under way: a login counts again as it commits.
THEOREM LimitKept == Spec => []WithinLimit
  <1>1. StoreInv => WithinLimit
    BY DEF StoreInv
  <1>2. QED
    BY <1>1, AlwaysStored, PTL

\* Once a revocation has completed, no session is left that was verified before it,
\* and a session logged out or revoked has no successor.
THEOREM RevocationsBind == Spec => []RevokedStayOut
  <1>1. StoreInv => RevokedStayOut
    BY DEF StoreInv
  <1>2. QED
    BY <1>1, AlwaysStored, PTL

\* What a step takes away was expired, or the thread that takes it holds its lock.
LEMMA TakenLocked ==
  ASSUME StoreInv, NEW t \in AllThreads, Step(t), NEW s \in live \ live'
  PROVE  s \in expired \/ (checkLock[s] = t /\ pc[t] # "sending")
  <1>a. TypeOK /\ OnCourse(t) /\ LocksHeld /\ AllMarked
    BY DEF StoreInv, CountInv, Courses
  <1>1. CASE Makes(t)
    <2>1. CountInv
      BY DEF StoreInv
    <2>2. s = req[t].session /\ pc[t] = "commit" /\ req[t].kind = "rotate"
      BY <1>1, <2>1, Made
    <2>3. QED
      BY <1>a, <2>2 DEF LocksHeld, AtSession
  <1>2. CASE Sweep(t) \/ SweepForLogin(t)
    <2>1. s \in marked[t] /\ marked[t] \subseteq Held(t) /\ pc[t] = "locking"
      BY <1>2 DEF Sweep, SweepForLogin, Drop, SweptBy, AllLocks, Revocations
    <2>2. QED
      BY <2>1 DEF Held
  <1>3. CASE SweepAccount(t)
    BY <1>3, <1>a DEF SweepAccount, Drop, SweptBy, AllLocks, Held, AllMarked
  <1>4. CASE Logout(t) \/ RefuseSend(t) \/ CheckRotate(t)
    <2>1. s = req[t].session /\ pc[t] = "locked"
      BY <1>4 DEF Logout, RefuseSend, CheckRotate, Drop
    <2>2. QED
      BY <1>a, <2>1 DEF LocksHeld, AtSession
  <1>5. CASE Recheck(t) \/ AnswerTooLate(t) \/ RoleUnknown(t) \/ RoleConfirmed(t)
    <2>1. s = req[t].session /\ pc[t] \in {"check", "resolving"}
      BY <1>5 DEF Recheck, AnswerTooLate, RoleUnknown, RoleConfirmed, Drop, storeVars
    <2>2. QED
      BY <1>a, <2>1 DEF LocksHeld, AtSession
  <1>6. QED
    BY <1>1, <1>2, <1>3, <1>4, <1>5 DEF Step, Makes, Verify, TakeSet, SetBusy, Choose,
       LocksBusy, ChooseRotate, CallerGone, LockNext, CheckCreate, RefuseCreate, Audit,
       CommitRotate, TakeLock, GiveUp, CheckSend, SendEnds, Refresh, AccountGone, Postpone,
       storeVars

\* A session with a send under way is not taken away by logout, rotation, sweep or
\* role refresh: each takes the session's check lock first, which the send holds.
THEOREM SendsAreFinished == Spec => SendsFinishFirst
  <1> DEFINE Sent == \A t \in Threads :
                        pc[t] = "sending" /\ req[t].session \in live
                        => req[t].session \in live' \cup expired
  <1>1. StoreInv /\ [Next]_vars => Sent
    <2> SUFFICES ASSUME StoreInv, [Next]_vars, NEW t \in Threads, pc[t] = "sending",
                        req[t].session \in live, req[t].session \notin live'
                 PROVE  req[t].session \in expired
      OBVIOUS
    <2>1. TypeOK /\ t \in AllThreads /\ checkLock[req[t].session] = t
      BY DEF StoreInv, CountInv, LocksHeld, AtSession, AllThreads
    <2>2. CASE Aside
      BY <2>1, <2>2, AsideDrops
    <2>3. CASE Arrival
      <3>1. PICK u \in Threads : \E point, r : Arrive(u, point, r)
        BY <2>3, ArrivalArrives
      <3>2. QED
        BY <3>1 DEF Arrive, storeVars
    <2>4. ASSUME NEW u \in AllThreads, Step(u)
          PROVE  req[t].session \in expired
      BY <2>1, <2>4, TakenLocked
    <2>5. QED
      BY <2>2, <2>3, <2>4, NextCases
  <1>2. StoreInv /\ [Next]_vars => [Sent]_vars
    BY <1>1
  <1>3. QED
    BY <1>2, AlwaysStored, PTL DEF Spec, SendsFinishFirst
=============================================================================
