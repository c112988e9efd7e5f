-------------------- MODULE AutomationEnforcementProofs ---------------------
(***************************************************************************)
(* Proofs about AutomationEnforcement, for any set of sessions and any     *)
(* number of edits, failures and crashes: type correctness, that what      *)
(* automation disabled stays on record, and that it does not enable what   *)
(* an operator suspended.                                                  *)
(***************************************************************************)
EXTENDS AutomationEnforcement, TLAPS

\* Points at which the worker enforces a restriction.
Enforcing == {"restricting", "sessions", "restrictCheck", "intend", "disableWrite",
              "disableConfirm", "settle"}

\* The worker and a request of an operator are never both in the lock, an
\* enforcing worker knows its restriction, and its intent is stored when the
\* write goes out.
UnderLock ==
    /\ pc \in Section => opc = "idle"
    /\ pc \in Enforcing => want # None
    /\ pc \in {"disableWrite", "disableConfirm"} => record # None

\* After a suspension that was seen through nothing is on record, and a worker
\* that gets the lock finds the account other than in its snapshot.
SuspendedAlone ==
    settled => /\ disabled /\ record = None
               /\ pc \in Section => pc = "restricting" /\ ~seen

Inv == TypeOK /\ UnderLock

-----------------------------------------------------------------------------
(* Type correctness *)

\* The points of the worker, told apart by name.
LEMMA PointFacts ==
  /\ Section \subseteq Points /\ Calling \subseteq Section
  /\ "idle" \in Points \ Section /\ "waiting" \in Points \ Section
  /\ "dead" \in Points \ Section
  /\ Enforcing \subseteq Section
  BY DEF Section, Calling, Points, Enforcing

\* Initially nothing is restricted and nobody holds the lock.
LEMMA InitInv == Init => Inv
  <1> SUFFICES ASSUME Init
               PROVE  Inv
    OBVIOUS
  <1>1. disabled \in BOOLEAN /\ touched \in BOOLEAN /\ pending \in BOOLEAN /\ seen \in BOOLEAN
        /\ settled \in BOOLEAN /\ waived \in BOOLEAN /\ (pending => record # None)
    BY DEF Init
  <1>2. connected \subseteq Sessions /\ targets \subseteq Sessions
        /\ policy \in Policies \cup {None} /\ want \in Reasons \cup {None}
        /\ record \in Reasons \cup {None}
    BY DEF Init
  <1>3. pc \in Points /\ opc \in {"idle", "patch", "confirm", "clear"} /\ job \in AllJobs
        /\ owner \in {"operator", "automation"}
    BY DEF Init, Points, AllJobs
  <1>4. edits \in 0..MaxEdits /\ direct \in 0..MaxDirect /\ mishaps \in 0..MaxMishaps
    BY BoundAssumption DEF Init
  <1>5. TypeOK
    BY <1>1, <1>2, <1>3, <1>4 DEF TypeOK
  <1>6. UnderLock
    BY DEF Init, UnderLock, Section, Calling, Enforcing
  <1>7. QED
    BY <1>5, <1>6 DEF Inv

\* The types, by who keeps the state.
RouterTypes == disabled \in BOOLEAN /\ touched \in BOOLEAN /\ connected \subseteq Sessions
PolicyTypes == policy \in Policies \cup {None}
RecordTypes ==
    record \in Reasons \cup {None} /\ pending \in BOOLEAN /\ (pending => record # None)
WorkerTypes ==
    /\ pc \in Points /\ seen \in BOOLEAN
    /\ want \in Reasons \cup {None} /\ targets \subseteq Sessions
OperatorTypes == opc \in {"idle", "patch", "confirm", "clear"} /\ job \in AllJobs
HistoryTypes ==
    owner \in {"operator", "automation"} /\ settled \in BOOLEAN /\ waived \in BOOLEAN
BoundTypes == edits \in 0..MaxEdits /\ direct \in 0..MaxDirect /\ mishaps \in 0..MaxMishaps

\* A step types what it leaves behind part by part.
LEMMA TypeParts ==
  ASSUME RouterTypes', PolicyTypes', RecordTypes', WorkerTypes', OperatorTypes',
         HistoryTypes', BoundTypes'
  PROVE  TypeOK'
  BY DEF TypeOK, RouterTypes, PolicyTypes, RecordTypes, WorkerTypes, OperatorTypes,
         HistoryTypes, BoundTypes

\* What a step leaves alone keeps its type.
LEMMA TypesStay ==
  ASSUME TypeOK
  PROVE  /\ UNCHANGED routerVars => RouterTypes'
         /\ UNCHANGED policy => PolicyTypes'
         /\ UNCHANGED recordVars => RecordTypes'
         /\ UNCHANGED workerVars => WorkerTypes'
         /\ UNCHANGED operatorVars => OperatorTypes'
         /\ UNCHANGED historyVars => HistoryTypes'
         /\ UNCHANGED boundVars => BoundTypes'
  BY DEF TypeOK, RouterTypes, PolicyTypes, RecordTypes, WorkerTypes, OperatorTypes,
         HistoryTypes, BoundTypes, routerVars, recordVars, workerVars, operatorVars,
         historyVars, boundVars

\* A pass that ends or goes on to another call.
LEMMA WorkerMoves ==
  ASSUME TypeOK
  PROVE  (EndPass \/ \E p \in Points : Go(p)) => WorkerTypes'
  BY PointFacts DEF TypeOK, WorkerTypes, EndPass, Go

\* A record written with a reason, or taken off.
LEMMA Records ==
  ASSUME NEW r \in Reasons \cup {None}, NEW i \in BOOLEAN, i => r # None, Record(r, i)
  PROVE  RecordTypes'
  BY DEF RecordTypes, Record

\* A call that fails counts.
LEMMA Mishaps == TypeOK /\ Mishap => BoundTypes'
  BY BoundAssumption DEF TypeOK, Mishap, BoundTypes

\* Steps of the worker that only move it, and leave the record or rewrite it.
LEMMA PassMoves ==
  ASSUME TypeOK, UNCHANGED <<routerVars, policy, operatorVars, historyVars>>,
         EndPass \/ \E p \in Points : Go(p),
         \/ UNCHANGED recordVars
         \/ Record(None, FALSE)
         \/ Record(record, FALSE)
         \/ want # None /\ \E i \in BOOLEAN : Record(want, i),
         UNCHANGED boundVars \/ Mishap
  PROVE  TypeOK'
  <1>1. RecordTypes'
    BY Records, TypesStay DEF TypeOK
  <1>2. RouterTypes' /\ PolicyTypes' /\ OperatorTypes' /\ HistoryTypes'
    BY TypesStay
  <1>3. WorkerTypes'
    BY WorkerMoves
  <1>4. BoundTypes'
    BY Mishaps, TypesStay
  <1>5. QED
    BY <1>1, <1>2, <1>3, <1>4, TypeParts

\* The worker's steps keep the types.
LEMMA WorkerTypeOK == Inv /\ (Worker \/ WorkerDies) => TypeOK'
  <1> SUFFICES ASSUME Inv, Worker \/ WorkerDies
               PROVE  TypeOK'
    OBVIOUS
  <1> USE PointFacts DEF Inv
  <1>1. CASE Poll
    <2>1. RouterTypes' /\ WorkerTypes'
      BY <1>1 DEF Poll, TypeOK, RouterTypes, WorkerTypes
    <2>2. QED
      BY <1>1, <2>1, TypeParts, TypesStay DEF Poll
  <1>2. CASE Enter
    <2>1. WorkerTypes'
      <3>1. CASE want' = Wanted /\ pc' = "restricting" /\ UNCHANGED <<seen, targets>>
        BY <3>1, PolicyAssumption
           DEF WorkerTypes, Wanted, TypeOK, Calling, Reasons
      <3>2. CASE EndPass \/ Go("restoring")
        BY <3>2, WorkerMoves DEF Calling
      <3>3. QED
        BY <1>2, <3>1, <3>2 DEF Enter
    <2>2. QED
      BY <1>2, <2>1, TypeParts, TypesStay DEF Enter
  <1>3. CASE Restoring
    BY <1>3, PassMoves DEF Restoring, Calling
  <1>4. ASSUME NEW p \in Points, NEW q \in Points, CheckAgain(p, q)
        PROVE  TypeOK'
    BY <1>4, PassMoves DEF CheckAgain
  <1>5. CASE EnableUser
    <2>1. RouterTypes' /\ HistoryTypes'
      BY <1>5 DEF EnableUser, TypeOK, RouterTypes, HistoryTypes
    <2>2. QED
      BY <1>5, <2>1, TypeParts, TypesStay, WorkerMoves, Mishaps DEF EnableUser, Calling
  <1>6. CASE ConfirmEnabled
    BY <1>6, PassMoves DEF ConfirmEnabled
  <1>7. CASE ReadSessions
    BY <1>7, PassMoves DEF ReadSessions, Calling, Section
  <1>8. CASE Intend
    BY <1>8, PassMoves DEF Intend, Intent, UnderLock, Enforcing, Calling
  <1>9. CASE DisableUser
    <2>1. RouterTypes'
      BY <1>9 DEF DisableUser, TypeOK, RouterTypes
    <2>2. HistoryTypes'
      BY <1>9 DEF DisableUser, TypeOK, HistoryTypes
    <2>3. QED
      BY <1>9, <2>1, <2>2, TypeParts, TypesStay, WorkerMoves, Mishaps DEF DisableUser, Calling
  <1>10. CASE ConfirmDisabled
    BY <1>10, PassMoves DEF ConfirmDisabled, Section
  <1>11. CASE Settle
    BY <1>11, PassMoves DEF Settle, UnderLock, Enforcing, Calling
  <1>12. CASE Cleanup
    <2>1. WorkerTypes'
      BY <1>12 DEF Cleanup, WorkerTypes, TypeOK, Calling
    <2>2. QED
      BY <1>12, <2>1, TypeParts, TypesStay DEF Cleanup
  <1>13. CASE CleanupDone \/ PassFails
    BY <1>13, PassMoves DEF CleanupDone, PassFails
  <1>14. ASSUME NEW c \in Sessions, EndSession(c)
         PROVE  TypeOK'
    <2>1. RouterTypes' /\ WorkerTypes'
      BY <1>14 DEF EndSession, RouterTypes, WorkerTypes, TypeOK
    <2>2. QED
      BY <1>14, <2>1, TypeParts, TypesStay, Mishaps DEF EndSession
  <1>15. CASE WorkerDies
    <2>1. WorkerTypes'
      BY <1>15 DEF WorkerDies, WorkerTypes
    <2>2. QED
      BY <1>15, <2>1, TypeParts, TypesStay, Mishaps DEF WorkerDies
  <1>16. QED
    BY <1>1, <1>2, <1>3, <1>4, <1>5, <1>6, <1>7, <1>8, <1>9, <1>10, <1>11, <1>12, <1>13,
       <1>14, <1>15 DEF Worker, CheckRestrict, Section, Calling

\* The operators' steps, and the world's, keep the types.
LEMMA OtherTypeOK == Inv /\ [Next]_vars => Worker \/ WorkerDies \/ TypeOK'
  <1> SUFFICES ASSUME Inv, [Next]_vars, ~(Worker \/ WorkerDies)
               PROVE  TypeOK'
    OBVIOUS
  <1> USE DEF Inv
  <1>1. CASE PatchUser
    <2>1. RouterTypes'
      BY <1>1 DEF PatchUser, RouterTypes, TypeOK, AllJobs
    <2>2. HistoryTypes'
      BY <1>1 DEF PatchUser, HistoryTypes, TypeOK
    <2>3. OperatorTypes'
      BY <1>1 DEF PatchUser, OperatorTypes, TypeOK
    <2>4. QED
      BY <1>1, <2>1, <2>2, <2>3, TypeParts, TypesStay, Mishaps DEF PatchUser
  <1>2. CASE Unconfirmed \/ ConfirmJob
    <2>1. OperatorTypes'
      BY <1>2 DEF Unconfirmed, ConfirmJob, OperatorTypes, TypeOK
    <2>2. QED
      BY <1>2, <2>1, TypeParts, TypesStay, Mishaps DEF Unconfirmed, ConfirmJob
  <1>3. CASE ClearRecord
    <2>1. OperatorTypes' /\ HistoryTypes'
      BY <1>3 DEF ClearRecord, OperatorTypes, HistoryTypes, TypeOK
    <2>2. RecordTypes'
      BY <1>3, Records DEF ClearRecord, TakeOffRecord
    <2>3. QED
      BY <1>3, <2>1, <2>2, TypeParts, TypesStay DEF ClearRecord
  <1>4. ASSUME NEW j \in Jobs, BeginJob(j)
        PROVE  TypeOK'
    <2>1. OperatorTypes' /\ BoundTypes'
      BY <1>4, JobAssumption, BoundAssumption DEF BeginJob, OperatorTypes, BoundTypes, TypeOK
    <2>2. QED
      BY <1>4, <2>1, TypeParts, TypesStay DEF BeginJob
  <1>5. CASE DirectEdit
    <2>1. RouterTypes'
      BY <1>5 DEF DirectEdit, RouterTypes, TypeOK
    <2>2. HistoryTypes'
      BY <1>5 DEF DirectEdit, HistoryTypes, TypeOK
    <2>3. BoundTypes'
      BY <1>5, BoundAssumption DEF DirectEdit, BoundTypes, TypeOK
    <2>4. QED
      BY <1>5, <2>1, <2>2, <2>3, TypeParts, TypesStay DEF DirectEdit
  <1>6. CASE PolicyChanges
    <2>1. PolicyTypes' /\ BoundTypes'
      BY <1>6, BoundAssumption DEF PolicyChanges, PolicyTypes, BoundTypes, TypeOK
    <2>2. QED
      BY <1>6, <2>1, TypeParts, TypesStay DEF PolicyChanges
  <1>7. ASSUME NEW c \in Sessions, Connect(c) \/ Disconnect(c)
        PROVE  TypeOK'
    <2>1. RouterTypes'
      BY <1>7 DEF Connect, Disconnect, RouterTypes, TypeOK
    <2>2. QED
      BY <1>7, <2>1, TypeParts, TypesStay DEF Connect, Disconnect
  <1>8. CASE Crash
    <2>1. WorkerTypes' /\ OperatorTypes'
      BY <1>8, WorkerMoves DEF Crash, OperatorTypes, TypeOK
    <2>2. QED
      BY <1>8, <2>1, TypeParts, TypesStay, Mishaps DEF Crash
  <1>9. CASE UNCHANGED vars
    BY <1>9, TypeParts, TypesStay DEF vars
  <1>10. QED
    BY <1>1, <1>2, <1>3, <1>4, <1>5, <1>6, <1>7, <1>8, <1>9 DEF Next, Operator

-----------------------------------------------------------------------------
(* The lock *)

\* The worker and the operators exclude each other, and the intent is stored
\* before the write.
LEMMA NextUnderLock == Inv /\ [Next]_vars => UnderLock'
  <1> SUFFICES ASSUME Inv, [Next]_vars
               PROVE  UnderLock'
    OBVIOUS
  <1> USE DEF Inv, UnderLock, Section, Calling, Enforcing, Go, EndPass, Record,
              workerVars, operatorVars, recordVars
  <1>1. CASE Poll \/ CleanupDone \/ PassFails \/ WorkerDies \/ Crash
    BY <1>1 DEF Poll, CleanupDone, PassFails, WorkerDies, Crash
  <1>2. CASE Enter
    BY <1>2 DEF Enter, Wanted, Expiring, None
  <1>3. CASE Restoring \/ EnableUser \/ ConfirmEnabled
    BY <1>3 DEF Restoring, EnableUser, ConfirmEnabled
  <1>4. CASE CheckRestrict \/ CheckAgain("restoreCheck", "restoreWrite")
             \/ CheckAgain("restrictCheck", "intend")
    BY <1>4 DEF CheckRestrict, CheckAgain
  <1>5. CASE ReadSessions
    BY <1>5 DEF ReadSessions
  <1>6. CASE Intend
    BY <1>6 DEF Intend, Intent
  <1>7. CASE DisableUser \/ ConfirmDisabled
    BY <1>7 DEF DisableUser, ConfirmDisabled
  <1>8. CASE Settle \/ Cleanup
    BY <1>8 DEF Settle, Cleanup
  <1>9. ASSUME NEW c \in Sessions, EndSession(c) \/ Connect(c) \/ Disconnect(c)
        PROVE  UnderLock'
    BY <1>9 DEF EndSession, Connect, Disconnect
  <1>10. CASE PatchUser \/ Unconfirmed \/ ConfirmJob \/ ClearRecord
    BY <1>10 DEF PatchUser, Unconfirmed, ConfirmJob, ClearRecord, TakeOffRecord
  <1>11. ASSUME NEW j \in Jobs, BeginJob(j)
         PROVE  UnderLock'
    BY <1>11 DEF BeginJob
  <1>12. CASE DirectEdit \/ PolicyChanges \/ UNCHANGED vars
    BY <1>12 DEF DirectEdit, PolicyChanges, vars
  <1>13. QED
    BY <1>1, <1>2, <1>3, <1>4, <1>5, <1>6, <1>7, <1>8, <1>9, <1>10, <1>11, <1>12
       DEF Next, Worker, Operator

\* Types and lock are kept together.
LEMMA InvHolds == Spec => []Inv
  <1>1. Inv /\ [Next]_vars => Inv'
    BY WorkerTypeOK, OtherTypeOK, NextUnderLock DEF Inv
  <1>2. QED
    BY <1>1, InitInv, PTL DEF Spec

\* The router's account, the record and the worker stay well typed whatever
\* calls fail, for any number of sessions, edits and crashes.
THEOREM TypeCorrect == Spec => []TypeOK
  <1>1. Inv => TypeOK
    BY DEF Inv
  <1>2. QED
    BY <1>1, InvHolds, PTL

-----------------------------------------------------------------------------
(* What automation disabled is on record *)

\* Nothing is disabled at first.
LEMMA InitOnRecord == Init => OnRecord /\ SuspendedAlone
  BY DEF Init, OnRecord, SuspendedAlone

\* Automation disables under a stored intent and takes the record off only of an
\* account it read enabled.
LEMMA NextOnRecord == Inv /\ OnRecord /\ [Next]_vars => OnRecord'
  <1> SUFFICES ASSUME Inv, OnRecord, [Next]_vars
               PROVE  OnRecord'
    OBVIOUS
  <1> USE DEF Inv, OnRecord, UnderLock, Enforcing, Record, routerVars, recordVars, historyVars
  <1>1. CASE Poll \/ Enter \/ CleanupDone \/ PassFails \/ WorkerDies \/ Crash \/ Cleanup
    BY <1>1 DEF Poll, Enter, CleanupDone, PassFails, WorkerDies, Crash, Cleanup
  <1>2. CASE Restoring \/ EnableUser \/ ConfirmEnabled
    BY <1>2 DEF Restoring, EnableUser, ConfirmEnabled
  <1>3. ASSUME NEW p, NEW q, CheckAgain(p, q)
        PROVE  OnRecord'
    BY <1>3 DEF CheckAgain
  <1>4. CASE ReadSessions \/ ConfirmDisabled
    BY <1>4 DEF ReadSessions, ConfirmDisabled
  <1>5. CASE Intend \/ Settle
    BY <1>5 DEF Intend, Intent, Settle
  <1>6. CASE DisableUser
    BY <1>6 DEF DisableUser
  <1>7. ASSUME NEW c \in Sessions, EndSession(c) \/ Connect(c) \/ Disconnect(c)
        PROVE  OnRecord'
    BY <1>7 DEF EndSession, Connect, Disconnect
  <1>8. CASE PatchUser
    BY <1>8 DEF PatchUser, TypeOK, AllJobs
  <1>9. CASE Unconfirmed \/ ConfirmJob \/ ClearRecord
    BY <1>9 DEF Unconfirmed, ConfirmJob, ClearRecord, TakeOffRecord
  <1>10. ASSUME NEW j \in Jobs, BeginJob(j)
         PROVE  OnRecord'
    BY <1>10 DEF BeginJob
  <1>11. CASE DirectEdit \/ PolicyChanges \/ UNCHANGED vars
    BY <1>11 DEF DirectEdit, PolicyChanges, vars
  <1>12. QED
    BY <1>1, <1>2, <1>3, <1>4, <1>5, <1>6, <1>7, <1>8, <1>9, <1>10, <1>11
       DEF Next, Worker, Operator, CheckRestrict

\* An account that automation disabled is on record as restricted, through lost
\* answers, failed readbacks and crashes, until an operator takes it off.
THEOREM RestrictionsOnRecord == Spec => []OnRecord
  <1>1. Init => OnRecord
    BY InitOnRecord
  <1>2. Inv /\ OnRecord /\ [Next]_vars => OnRecord'
    BY NextOnRecord
  <1>3. QED
    BY <1>1, <1>2, InvHolds, PTL DEF Spec

-----------------------------------------------------------------------------
(* What an operator suspended stays suspended *)

\* A worker that finds an account suspended since its snapshot leaves the lock
\* at the first fresh read.
LEMMA NextSuspended == Inv /\ SuspendedAlone /\ [Next]_vars => SuspendedAlone'
  <1> SUFFICES ASSUME Inv, SuspendedAlone, [Next]_vars
               PROVE  SuspendedAlone'
    OBVIOUS
  <1> USE DEF Inv, SuspendedAlone, UnderLock, Section, Calling, Go, EndPass, Record,
              routerVars, recordVars, workerVars, operatorVars, historyVars
  <1>1. CASE Poll \/ CleanupDone \/ PassFails \/ WorkerDies \/ Crash
    BY <1>1 DEF Poll, CleanupDone, PassFails, WorkerDies, Crash
  <1>2. CASE Enter
    BY <1>2 DEF Enter, Expiring, Liftable, Manual, None
  <1>3. CASE Restoring \/ EnableUser \/ ConfirmEnabled
    BY <1>3 DEF Restoring, EnableUser, ConfirmEnabled
  <1>4. CASE CheckRestrict
    BY <1>4 DEF CheckRestrict, CheckAgain, Fresh
  <1>5. CASE CheckAgain("restoreCheck", "restoreWrite") \/ CheckAgain("restrictCheck", "intend")
    BY <1>5 DEF CheckAgain
  <1>6. CASE ReadSessions \/ Intend \/ DisableUser \/ ConfirmDisabled \/ Settle \/ Cleanup
    BY <1>6 DEF ReadSessions, Intend, DisableUser, ConfirmDisabled, Settle, Cleanup
  <1>7. ASSUME NEW c \in Sessions, EndSession(c) \/ Connect(c) \/ Disconnect(c)
        PROVE  SuspendedAlone'
    BY <1>7 DEF EndSession, Connect, Disconnect
  <1>8. CASE PatchUser
    BY <1>8 DEF PatchUser
  <1>9. CASE Unconfirmed \/ ConfirmJob
    BY <1>9 DEF Unconfirmed, ConfirmJob
  <1>10. CASE ClearRecord
    BY <1>10 DEF ClearRecord, TakeOffRecord
  <1>11. ASSUME NEW j \in Jobs, BeginJob(j)
         PROVE  SuspendedAlone'
    BY <1>11 DEF BeginJob
  <1>12. CASE DirectEdit \/ PolicyChanges \/ UNCHANGED vars
    BY <1>12 DEF DirectEdit, PolicyChanges, vars
  <1>13. QED
    BY <1>1, <1>2, <1>3, <1>4, <1>5, <1>6, <1>7, <1>8, <1>9, <1>10, <1>11, <1>12
       DEF Next, Worker, Operator

\* What an operator suspended, and its handler confirmed, automation does not
\* enable, whatever its snapshot of the account shows.
THEOREM SuspensionsStand == Spec => SuspensionStands
  <1>1. SuspendedAlone => ~(settled /\ AutomationEnables)
    BY DEF SuspendedAlone, AutomationEnables, Section, Calling
  <1>2. SuspendedAlone => [settled => ~AutomationEnables]_vars
    BY <1>1
  <1>3. Init => SuspendedAlone
    BY InitOnRecord
  <1>4. Inv /\ SuspendedAlone /\ [Next]_vars => SuspendedAlone'
    BY NextSuspended
  <1>5. QED
    BY <1>2, <1>3, <1>4, InvHolds, PTL DEF Spec, SuspensionStands
=============================================================================
