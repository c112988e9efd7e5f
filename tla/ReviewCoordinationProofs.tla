---------------------- MODULE ReviewCoordinationProofs ----------------------
(***************************************************************************)
(* Proofs about ReviewCoordination, for any number of workers, processes   *)
(* and accounts and without its bounds' smallness: type correctness, the   *)
(* exclusion the leases give, the freshness of an honoured receipt, and    *)
(* the refinement of ReviewedChanges.                                      *)
(***************************************************************************)
EXTENDS ReviewCoordination, TLAPS

-----------------------------------------------------------------------------
(* Type correctness *)

\* Program points that use the account state the handler has read.
AfterRead == {"previewEpoch", "previewAgain", "previewRevision", "issueEpoch",
              "issueAgain", "issueRevision", "claimEpoch", "claimAgain", "claimRevision",
              "recheckEpoch", "advance", "approved", "writing", "written"}

HasRead == \A w \in Workers : pc[w] \in AfterRead => base[w] # Unread

\* The initial state is well typed.
LEMMA InitTypeOK == Init => TypeOK
  BY ProcessAssumption, ValueAssumption
  DEF Init, TypeOK, Points, AllJobs, Datasets, NoEpoch, Revisions

\* Finish and Fail leave well-typed worker state.
LEMMA FailTypeOK ==
  ASSUME TypeOK, NEW w \in Workers, Fail(w) \/ Finish(w)
  PROVE  /\ pc' \in [Workers -> Points]
         /\ base' \in [Workers -> Settings \cup {Unread}]
         /\ claim' \in [Workers -> [epoch : Nat, rev : Revisions]]
         /\ tampered' \subseteq Workers
  <1> DEFINE Blank == [epoch |-> NoEpoch, rev |-> Absent]
  <1>1. Blank \in [epoch : Nat, rev : Revisions]
    BY DEF NoEpoch, Revisions
  <1>2. "closing" \in Points /\ "idle" \in Points
    BY DEF Points, Section
  <1>3. CASE Finish(w)
    <2> HIDE DEF Blank
    <2>1. claim' = [claim EXCEPT ![w] = Blank]
      BY <1>3 DEF Finish, Blank
    <2>2. QED
      BY <1>1, <1>2, <1>3, <2>1 DEF Finish, TypeOK
  <1>4. CASE Fail(w) /\ InSection(w)
    BY <1>2, <1>4 DEF Fail, TypeOK
  <1>5. QED
    BY <1>3, <1>4 DEF Fail

\* So do the two reads of the coordinator.
LEMMA ObserveEpochTypeOK ==
  ASSUME TypeOK, NEW w \in Workers, ObserveEpoch(w)
  PROVE  /\ run' \in Nat \ {0} /\ epoch' \in Nat /\ nextEpoch' \in Nat \ {0}
         /\ rev' \in [Accounts -> Revisions]
         /\ lease' \in [Accounts -> Workers \cup {Free, Orphan}]
         /\ saved' \in Datasets
         /\ seenRun' \in [Processes -> Nat]
         /\ seenEpoch' \in [Processes -> Nat]
         /\ highWater' \in [Processes -> [Accounts -> Revisions]]
  <1>1. epoch' \in Nat /\ nextEpoch' \in Nat \ {0}
    BY DEF TypeOK, ObserveEpoch
  <1>2. QED
    BY <1>1 DEF TypeOK, ObserveEpoch

LEMMA ObserveRevisionTypeOK ==
  ASSUME TypeOK, NEW w \in Workers, ObserveRevision(w)
  PROVE  /\ CurrentRevision(target[w]) \in Nat
         /\ run' \in Nat \ {0} /\ epoch' \in Nat /\ nextEpoch' \in Nat \ {0}
         /\ rev' \in [Accounts -> Revisions]
         /\ lease' \in [Accounts -> Workers \cup {Free, Orphan}]
         /\ saved' \in Datasets
         /\ seenRun' \in [Processes -> Nat]
         /\ seenEpoch' \in [Processes -> Nat]
         /\ highWater' \in [Processes -> [Accounts -> Revisions]]
  <1>1. target[w] \in Accounts /\ CurrentRevision(target[w]) \in Nat
    BY DEF TypeOK, CurrentRevision, Revisions, Absent
  <1>2. rev' \in [Accounts -> Revisions]
    BY <1>1 DEF TypeOK, ObserveRevision, Revisions
  <1>3. highWater' \in [Processes -> [Accounts -> Revisions]]
    BY <1>1 DEF TypeOK, ObserveRevision, Revisions
  <1>4. QED
    BY <1>1, <1>2, <1>3 DEF TypeOK, ObserveRevision

\* Every step keeps the state well typed.
LEMMA NextTypeOK == TypeOK /\ HasRead /\ [Next]_vars => TypeOK'
  <1> SUFFICES ASSUME TypeOK, HasRead, [Next]_vars PROVE TypeOK'
    OBVIOUS
  <1> USE ProcessAssumption
  <1>1. CASE UNCHANGED vars
    BY <1>1 DEF TypeOK, vars, redisVars, processVars, workerVars, historyVars
  <1>2. ASSUME NEW w \in Workers, NEW j \in Jobs, NEW a \in Accounts, Begin(w, j, a)
        PROVE TypeOK'
    <2>1. job' \in [Workers -> AllJobs] /\ target' \in [Workers -> Accounts]
      BY <1>2, JobAssumption DEF Begin, TypeOK
    <2>2. pc' \in [Workers -> Points] /\ base' \in [Workers -> Settings \cup {Unread}]
      <3>1. CASE j = "preview"
        <4>1. setting[a] \in Settings \cup {Unread} /\ "previewEpoch" \in Points
          BY DEF TypeOK, Points
        <4>2. /\ pc' = [pc EXCEPT ![w] = "previewEpoch"]
              /\ base' = [base EXCEPT ![w] = setting[a]]
          BY <1>2, <3>1 DEF Begin
        <4>3. QED
          BY <4>1, <4>2 DEF TypeOK
      <3>2. CASE j # "preview"
        BY <1>2, <3>2 DEF Begin, TypeOK, Points
      <3>3. QED
        BY <3>1, <3>2
    <2>3. QED
      BY <1>2, <2>1, <2>2 DEF Begin, TypeOK, redisVars, processVars, historyVars
  <1>3. ASSUME NEW w \in Workers, Acquire(w) PROVE TypeOK'
    BY <1>3 DEF TypeOK, Acquire, processVars, historyVars, Points, Section
  <1>4. ASSUME NEW w \in Workers, GiveUp(w) PROVE TypeOK'
    BY <1>4, FailTypeOK DEF TypeOK, GiveUp, WaitEnds, processVars
  <1>5. ASSUME NEW w \in Workers, LoseLock(w) PROVE TypeOK'
    BY <1>5 DEF TypeOK, LoseLock, redisVars, processVars, historyVars
  <1>6. ASSUME NEW w \in Workers, Close(w) PROVE TypeOK'
    BY <1>6, FailTypeOK DEF TypeOK, Close, Left, Released, processVars, Datasets
  <1>7. ASSUME NEW w \in Workers, ReadAccount(w) PROVE TypeOK'
    BY <1>7 DEF TypeOK, ReadAccount, redisVars, processVars, historyVars, Points, Section
  <1>8. ASSUME NEW w \in Workers, IssueEpoch(w) PROVE TypeOK'
    <2>1. [epoch |-> epoch', rev |-> Absent] \in [epoch : Nat, rev : Revisions]
      BY <1>8, ObserveEpochTypeOK DEF IssueEpoch, Revisions
    <2>2. claim' \in [Workers -> [epoch : Nat, rev : Revisions]]
      BY <1>8, <2>1 DEF IssueEpoch, TypeOK
    <2>3. pc' \in [Workers -> Points]
      BY <1>8 DEF IssueEpoch, TypeOK, Points, Section
    <2>4. QED
      BY <1>8, <2>2, <2>3, ObserveEpochTypeOK DEF IssueEpoch, TypeOK, historyVars
  <1>27. ASSUME NEW w \in Workers, ReobserveEpoch(w) PROVE TypeOK'
    <2>1. pc' \in [Workers -> Points]
      BY <1>27 DEF ReobserveEpoch, TypeOK, Points, Section
    <2>2. QED
      BY <1>27, <2>1, ObserveEpochTypeOK DEF ReobserveEpoch, TypeOK, historyVars
  <1>9. ASSUME NEW w \in Workers, IssueReceipt(w) PROVE TypeOK'
    <2> DEFINE r == [account |-> target[w], epoch |-> claim[w].epoch,
                     rev |-> CurrentRevision(target[w]), setting |-> base[w],
                     seen |-> changes[target[w]]]
    <2>1. r \in Receipts
      BY <1>9, ObserveRevisionTypeOK DEF IssueReceipt, TypeOK, Receipts, HasRead, AfterRead
    <2> HIDE DEF r
    <2>2. receipt' = [receipt EXCEPT ![w] = r]
      BY <1>9 DEF IssueReceipt, r
    <2>3. receipt' \in [Workers -> Receipts \cup {NoReceipt}]
      BY <2>1, <2>2 DEF TypeOK
    <2>4. QED
      BY <1>9, <2>3, FailTypeOK, ObserveRevisionTypeOK DEF IssueReceipt, TypeOK
  <1>10. ASSUME NEW w \in Workers, ClaimEpoch(w) PROVE TypeOK'
    <2> DEFINE mine == IF job[w] = "apply" /\ receipt[w] # NoReceipt
                       THEN receipt[w].epoch ELSE epoch'
               c == [epoch |-> mine, rev |-> Absent]
    <2>1. mine \in Nat
      BY <1>10, ObserveEpochTypeOK DEF ClaimEpoch, TypeOK, Receipts
    <2>2. c \in [epoch : Nat, rev : Revisions]
      BY <2>1 DEF Revisions
    <2>3. claim' = [claim EXCEPT ![w] = c]
      BY <1>10 DEF ClaimEpoch
    <2> HIDE DEF c
    <2>4. claim' \in [Workers -> [epoch : Nat, rev : Revisions]]
      BY <2>2, <2>3 DEF TypeOK
    <2>5. pc' \in [Workers -> Points]
      BY <1>10 DEF ClaimEpoch, TypeOK, Points, Section
    <2>6. QED
      BY <1>10, <2>4, <2>5, ObserveEpochTypeOK DEF ClaimEpoch, TypeOK, historyVars
  <1>11. ASSUME NEW w \in Workers, ClaimRevision(w) PROVE TypeOK'
    <2> DEFINE c == [epoch |-> claim[w].epoch, rev |-> CurrentRevision(target[w])]
    <2>1. c \in [epoch : Nat, rev : Revisions]
      BY <1>11, ObserveRevisionTypeOK DEF ClaimRevision, TypeOK, Revisions
    <2>2. claim' = [claim EXCEPT ![w] = c]
      BY <1>11 DEF ClaimRevision
    <2> HIDE DEF c
    <2>3. claim' \in [Workers -> [epoch : Nat, rev : Revisions]]
      BY <2>1, <2>2 DEF TypeOK
    <2>4. pc' \in [Workers -> Points]
      BY <1>11 DEF ClaimRevision, TypeOK, Points, Section
    <2>5. QED
      BY <1>11, <2>3, <2>4, ObserveRevisionTypeOK DEF ClaimRevision, TypeOK, historyVars
  <1>12. ASSUME NEW w \in Workers, RecheckEpoch(w) PROVE TypeOK'
    <2>1. pc' \in [Workers -> Points]
      BY <1>12 DEF RecheckEpoch, TypeOK, Points, Section
    <2>2. QED
      BY <1>12, <2>1, ObserveEpochTypeOK DEF RecheckEpoch, TypeOK, historyVars
  <1>13. ASSUME NEW w \in Workers, Advance(w) PROVE TypeOK'
    <2>1. claim[w].rev + 1 \in Revisions
      BY DEF TypeOK, Revisions, Absent
    <2>2. /\ rev' \in [Accounts -> Revisions]
          /\ highWater' \in [Processes -> [Accounts -> Revisions]]
      BY <1>13, <2>1 DEF Advance, TypeOK
    <2>3. pc' \in [Workers -> Points]
      BY <1>13 DEF Advance, TypeOK, Points, Section
    <2>4. QED
      BY <1>13, <2>2, <2>3 DEF Advance, TypeOK
  <1>14. ASSUME NEW w \in Workers, AdvanceUnanswered(w) PROVE TypeOK'
    <2>1. claim[w].rev + 1 \in Revisions
      BY DEF TypeOK, Revisions, Absent
    <2>2. rev' \in [Accounts -> Revisions] /\ changes' \in [Accounts -> Nat]
      BY <1>14, <2>1 DEF AdvanceUnanswered, TypeOK
    <2>3. pc' \in [Workers -> Points]
      BY <1>14 DEF AdvanceUnanswered, TypeOK, Points, Section
    <2>4. QED
      BY <1>14, <2>2, <2>3 DEF AdvanceUnanswered, TypeOK, processVars
  <1>15. ASSUME NEW w \in Workers, EpochFails(w) PROVE TypeOK'
    BY <1>15, FailTypeOK DEF TypeOK, EpochFails, redisVars
  <1>16. ASSUME NEW w \in Workers, CallFails(w) PROVE TypeOK'
    BY <1>16, FailTypeOK DEF TypeOK, CallFails, redisVars, processVars
  <1>17. ASSUME NEW w \in Workers, StartWrite(w) \/ Refuse(w) \/ Write(w) \/ Confirm(w)
         PROVE TypeOK'
    <2>1. pc' \in [Workers -> Points]
      <3>1. \E point \in {"writing", "closing", "written"} :
               pc' = [pc EXCEPT ![w] = point]
        BY <1>17 DEF StartWrite, Refuse, Write, Confirm
      <3>2. QED
        BY <3>1 DEF TypeOK, Points, Section
    <2>2. lost' \subseteq Workers
      BY <1>17 DEF StartWrite, Refuse, Write, Confirm, TypeOK
    <2>3. setting' \in [Accounts -> Settings]
      BY <1>17 DEF StartWrite, Refuse, Write, Confirm, TypeOK
    <2>4. QED
      BY <1>17, <2>1, <2>2, <2>3
      DEF StartWrite, Refuse, Write, Confirm, TypeOK, redisVars, processVars, historyVars
  <1>18. ASSUME NEW w \in Workers, DropReceipt(w) PROVE TypeOK'
    BY <1>18 DEF TypeOK, DropReceipt, redisVars, processVars, historyVars
  <1>19. ASSUME NEW w \in Workers, Lapse(w) PROVE TypeOK'
    <2>1. /\ lease' \in [Accounts -> Workers \cup {Free, Orphan}]
          /\ saved' \in Datasets
      BY <1>19 DEF Lapse, Expired, TypeOK, Datasets
    <2>2. lapsed' \subseteq Workers /\ broken' \subseteq Accounts /\ lapses' \in Nat
      BY <1>19 DEF Lapse, TypeOK
    <2>3. QED
      BY <1>19, <2>1, <2>2 DEF Lapse, TypeOK, processVars, workerVars
  <1>20. CASE Persist
    BY <1>20 DEF TypeOK, Persist, processVars, workerVars, historyVars, Datasets
  <1>21. CASE Restart
    BY <1>21 DEF TypeOK, Restart, Breaks, Dispossessed, processVars, workerVars, Datasets
  <1>22. CASE LoseData
    BY <1>22 DEF TypeOK, LoseData, Breaks, Dispossessed, processVars, workerVars, NoEpoch,
                 Revisions
  <1>23. ASSUME NEW a \in Accounts, Expire(a) PROVE TypeOK'
    BY <1>23 DEF TypeOK, Expire, Expired, processVars, workerVars, historyVars, Datasets
  <1>24. ASSUME NEW a \in Accounts, EditOnRouter(a) PROVE TypeOK'
    BY <1>24 DEF TypeOK, EditOnRouter, redisVars, processVars, workerVars
  <1>25. ASSUME NEW p \in Processes, Crash(p) PROVE TypeOK'
    <2> DEFINE dead == {w \in Workers : ProcessOf[w] = p}
               orphaned(l) == [a \in Accounts |-> IF l[a] \in dead THEN Orphan ELSE l[a]]
    <2>1. \A l \in [Accounts -> Workers \cup {Free, Orphan}] :
              orphaned(l) \in [Accounts -> Workers \cup {Free, Orphan}]
      OBVIOUS
    <2>2. /\ lease' \in [Accounts -> Workers \cup {Free, Orphan}]
          /\ saved' \in Datasets
      BY <1>25, <2>1 DEF Crash, TypeOK, Datasets
    <2>3. /\ seenRun' \in [Processes -> Nat]
          /\ seenEpoch' \in [Processes -> Nat]
          /\ highWater' \in [Processes -> [Accounts -> Revisions]]
      BY <1>25 DEF Crash, TypeOK, NoEpoch, Revisions
    <2>4. /\ pc' \in [Workers -> Points]
          /\ base' \in [Workers -> Settings \cup {Unread}]
          /\ receipt' \in [Workers -> Receipts \cup {NoReceipt}]
      BY <1>25 DEF Crash, TypeOK, Points
    <2>5. claim' \in [Workers -> [epoch : Nat, rev : Revisions]]
      BY <1>25 DEF Crash, TypeOK, NoEpoch, Revisions
    <2>6. setting' \in [Accounts -> Settings]
      BY <1>25 DEF Crash, TypeOK
    <2>7. QED
      BY <1>25, <2>2, <2>3, <2>4, <2>5, <2>6 DEF Crash, TypeOK
  <1>26. QED
    BY <1>1, <1>2, <1>3, <1>4, <1>5, <1>6, <1>7, <1>8, <1>9, <1>10, <1>11, <1>12, <1>13, <1>27,
       <1>14, <1>15, <1>16, <1>17, <1>18, <1>19, <1>20, <1>21, <1>22, <1>23, <1>24, <1>25
    DEF Next, Step

\* A worker that uses the account state has read it.
LEMMA NextHasRead == TypeOK /\ HasRead /\ [Next]_vars => HasRead'
  <1> SUFFICES ASSUME TypeOK, HasRead, [Next]_vars,
                      NEW u \in Workers, pc'[u] \in AfterRead
               PROVE  base'[u] # Unread
    BY DEF HasRead
  <1> USE DEF HasRead, AfterRead, TypeOK
  <1>1. CASE pc' = pc /\ base' = base
    BY <1>1
  <1>2. ASSUME NEW w \in Workers, NEW j \in Jobs, NEW a \in Accounts, Begin(w, j, a)
        PROVE base'[u] # Unread
    <2>1. \/ base'[u] = base[u] /\ (u = w => pc'[u] = "waiting") /\ (u # w => pc'[u] = pc[u])
          \/ u = w /\ base'[u] = setting[a]
      BY <1>2 DEF Begin
    <2>2. setting[a] # Unread
      BY ValueAssumption
    <2>3. QED
      BY <2>1, <2>2
  <1>3. ASSUME NEW w \in Workers, Finish(w) \/ Fail(w) PROVE base'[u] # Unread
    BY <1>3 DEF Finish, Fail
  <1>4. ASSUME NEW w \in Workers, ReadAccount(w) PROVE base'[u] # Unread
    BY <1>4, ValueAssumption DEF ReadAccount
  <1>5. ASSUME NEW p \in Processes, Crash(p) PROVE base'[u] # Unread
    BY <1>5 DEF Crash
  <1>6. ASSUME NEW w \in Workers, Step(w) PROVE base'[u] # Unread
    <2>1. CASE Acquire(w)
      BY <2>1 DEF Acquire
    <2>2. CASE GiveUp(w) \/ Close(w) \/ IssueReceipt(w) \/ EpochFails(w) \/ CallFails(w)
      BY <2>2, <1>3 DEF GiveUp, Close, IssueReceipt, EpochFails, CallFails
    <2>3. CASE ReadAccount(w)
      BY <2>3, <1>4
    <2>4. CASE IssueEpoch(w) \/ ReobserveEpoch(w) \/ ClaimEpoch(w)
      BY <2>4 DEF IssueEpoch, ReobserveEpoch, ClaimEpoch
    <2>5. CASE ClaimRevision(w) \/ RecheckEpoch(w)
      BY <2>5 DEF ClaimRevision, RecheckEpoch
    <2>6. CASE Advance(w) \/ AdvanceUnanswered(w)
      BY <2>6 DEF Advance, AdvanceUnanswered
    <2>7. CASE StartWrite(w) \/ Refuse(w) \/ Write(w) \/ Confirm(w)
      BY <2>7 DEF StartWrite, Refuse, Write, Confirm
    <2>8. QED
      BY <1>6, <2>1, <2>2, <2>3, <2>4, <2>5, <2>6, <2>7 DEF Step
  <1>7. ASSUME NEW w \in Workers, LoseLock(w) \/ DropReceipt(w) \/ Lapse(w)
        PROVE base'[u] # Unread
    BY <1>7, <1>1 DEF LoseLock, DropReceipt, Lapse, workerVars
  <1>8. CASE Persist \/ Restart \/ LoseData
    BY <1>8, <1>1 DEF Persist, Restart, LoseData, workerVars
  <1>9. ASSUME NEW a \in Accounts, Expire(a) \/ EditOnRouter(a) PROVE base'[u] # Unread
    BY <1>9, <1>1 DEF Expire, EditOnRouter, workerVars
  <1>10. CASE UNCHANGED vars
    BY <1>10, <1>1 DEF vars, workerVars
  <1>11. QED
    BY <1>2, <1>5, <1>6, <1>7, <1>8, <1>9, <1>10 DEF Next

\* The state of the coordination stays well typed: redis, coordinators, receipts
\* and workers, whatever is lost, restarted or delayed.
THEOREM TypeCorrect == Spec => []TypeOK
  <1>1. Init => TypeOK /\ HasRead
    BY InitTypeOK DEF Init, HasRead, AfterRead
  <1>2. TypeOK /\ HasRead /\ [Next]_vars => (TypeOK /\ HasRead)'
    BY NextTypeOK, NextHasRead
  <1>3. QED
    BY <1>1, <1>2, PTL DEF Spec

-----------------------------------------------------------------------------
(* The inductive invariants behind exclusion and freshness *)

\* A worker in its section holds its lease, or has lost it and left a mark.
Exclusion ==
    \A w \in Workers :
        /\ InSection(w) /\ w \notin lapsed => lease[target[w]] = w
        /\ w \in lapsed => InSection(w) /\ target[w] \in broken

\* Epoch markers are drawn in order, and run ids grow.
MarkersAreFresh ==
    /\ epoch < nextEpoch /\ saved.epoch < nextEpoch
    /\ \A p \in Processes : seenEpoch[p] < nextEpoch /\ seenRun[p] <= run

\* Program points that use the epoch a worker has claimed.
Claimants == {"previewAgain", "previewRevision", "issueAgain", "issueRevision", "claimAgain",
              "claimRevision", "recheckEpoch", "advance"}

\* What a worker claims and what its receipt holds carry the only epoch its
\* process has accepted.
Observed ==
    \A w \in Workers :
        LET p == ProcessOf[w] IN
        /\ pc[w] \in Claimants
           => /\ seenRun[p] # 0 /\ seenEpoch[p] # NoEpoch
              /\ claim[w].epoch = seenEpoch[p]
        /\ receipt[w] # NoReceipt
           => /\ seenRun[p] # 0 /\ seenEpoch[p] # NoEpoch
              /\ receipt[w].epoch = seenEpoch[p]

\* Within one run and one epoch the revision and the count of changes move
\* together from where they stood when a receipt was issued.
Offset ==
    \A w \in Workers :
        LET r == receipt[w] IN
        r # NoReceipt /\ seenRun[ProcessOf[w]] = run /\ r.epoch = epoch
        => rev[r.account] # Absent /\ rev[r.account] + r.seen = changes[r.account] + r.rev

\* A worker that consumes its receipt claims what the receipt says.
Claimed ==
    \A w \in Workers :
        /\ job[w] = "apply" /\ pc[w] = "claimEpoch" /\ receipt[w] # NoReceipt
           => receipt[w].account = target[w]
        /\ Consuming(w) => receipt[w] # NoReceipt /\ receipt[w].account = target[w]
        /\ Consuming(w) /\ pc[w] \notin {"claimAgain", "claimRevision"} => claim[w].rev = receipt[w].rev

\* Until it advances the revision, nobody else has, unless a lease was lost.
StillCurrent ==
    \A w \in Workers :
        Consuming(w) /\ target[w] \notin broken =>
        /\ /\ pc[w] = "recheckEpoch"
           /\ seenRun[ProcessOf[w]] = run /\ receipt[w].epoch = epoch
           => changes[target[w]] = receipt[w].seen
        /\ pc[w] = "advance" => changes[target[w]] = receipt[w].seen

-----------------------------------------------------------------------------
(* Exclusion *)

\* A step that leaves the leases and their history alone, and lets nobody into
\* a section or out of it.
Quiet ==
    /\ lease' = lease /\ lapsed' = lapsed /\ broken' = broken
    /\ \A u \in Workers : /\ InSection(u)' <=> InSection(u)
                          /\ InSection(u) => target'[u] = target[u]

LEMMA QuietKeepsExclusion == Exclusion /\ Quiet => Exclusion'
  <1> SUFFICES ASSUME Exclusion, Quiet, NEW w \in Workers
               PROVE  /\ InSection(w)' /\ w \notin lapsed' => lease'[target'[w]] = w
                      /\ w \in lapsed' => InSection(w)' /\ target'[w] \in broken'
    BY DEF Exclusion, InSection
  <1>1. (InSection(w)' <=> InSection(w)) /\ (InSection(w) => target'[w] = target[w])
    BY DEF Quiet
  <1>2. QED
    BY <1>1 DEF Exclusion, Quiet, InSection

\* Every action but those on leases and those that lose data is quiet.
LEMMA QuietSteps ==
  ASSUME TypeOK, NEW w \in Workers,
         \/ ReadAccount(w) \/ IssueEpoch(w) \/ ReobserveEpoch(w) \/ IssueReceipt(w) \/ ClaimEpoch(w)
         \/ ClaimRevision(w) \/ RecheckEpoch(w) \/ Advance(w) \/ AdvanceUnanswered(w)
         \/ EpochFails(w) \/ CallFails(w) \/ StartWrite(w) \/ Refuse(w) \/ Write(w)
         \/ Confirm(w) \/ LoseLock(w) \/ DropReceipt(w)
  PROVE  Quiet
  <1> USE DEF Quiet, InSection, Section, TypeOK
  <1>1. CASE ReadAccount(w)
    BY <1>1 DEF ReadAccount, redisVars, historyVars
  <1>2. CASE IssueEpoch(w)
    BY <1>2 DEF IssueEpoch, ReobserveEpoch, ObserveEpoch, historyVars
  <1>16. CASE ReobserveEpoch(w)
    BY <1>16 DEF ReobserveEpoch, ObserveEpoch, historyVars
  <1>3. CASE IssueReceipt(w)
    BY <1>3 DEF IssueReceipt, ObserveRevision, Fail, Finish
  <1>4. CASE ClaimEpoch(w)
    BY <1>4 DEF ClaimEpoch, ObserveEpoch, historyVars
  <1>5. CASE ClaimRevision(w)
    BY <1>5 DEF ClaimRevision, ObserveRevision, historyVars
  <1>6. CASE RecheckEpoch(w)
    BY <1>6 DEF RecheckEpoch, ObserveEpoch, historyVars
  <1>7. CASE Advance(w)
    BY <1>7 DEF Advance
  <1>8. CASE AdvanceUnanswered(w)
    BY <1>8 DEF AdvanceUnanswered
  <1>9. CASE EpochFails(w) \/ CallFails(w)
    BY <1>9 DEF EpochFails, CallFails, Fail, Finish, redisVars
  <1>10. CASE StartWrite(w)
    BY <1>10 DEF StartWrite, redisVars, historyVars
  <1>11. CASE Refuse(w)
    BY <1>11 DEF Refuse, redisVars, historyVars
  <1>12. CASE Write(w)
    BY <1>12 DEF Write, redisVars, historyVars
  <1>13. CASE Confirm(w)
    BY <1>13 DEF Confirm, redisVars, historyVars
  <1>14. CASE LoseLock(w) \/ DropReceipt(w)
    BY <1>14 DEF LoseLock, DropReceipt, redisVars, historyVars
  <1>15. QED
    BY <1>1, <1>2, <1>3, <1>4, <1>5, <1>6, <1>7, <1>8, <1>9, <1>10, <1>11, <1>12, <1>13, <1>16,
       <1>14

\* No step lets a worker into a section without its lease, or takes the lease
\* away without a mark.
LEMMA NextExclusion == TypeOK /\ Exclusion /\ [Next]_vars => Exclusion'
  <1> SUFFICES ASSUME TypeOK, Exclusion, [Next]_vars PROVE Exclusion'
    OBVIOUS
  <1> USE ValueAssumption
  <1>1. CASE UNCHANGED vars
    BY <1>1, QuietKeepsExclusion
    DEF Quiet, InSection, vars, redisVars, workerVars, historyVars
  <1>2. ASSUME NEW w \in Workers, NEW j \in Jobs, NEW a \in Accounts, Begin(w, j, a)
        PROVE Exclusion'
    <2>1. Quiet
      BY <1>2 DEF Begin, Quiet, InSection, Section, TypeOK, redisVars, historyVars
    <2>2. QED
      BY <2>1, QuietKeepsExclusion
  <1>3. ASSUME NEW w \in Workers, Acquire(w) PROVE Exclusion'
    <2>1. /\ target' = target /\ lapsed' = lapsed /\ broken' = broken
          /\ pc' = [pc EXCEPT ![w] = "locked"]
          /\ lease' = [lease EXCEPT ![target[w]] = w]
          /\ lease[target[w]] = Free
      BY <1>3 DEF Acquire, KeyFree, historyVars
    <2>2. \A u \in Workers \ {w} : lease[target[u]] = u => lease'[target[u]] = u
      BY <2>1 DEF TypeOK
    <2>3. lease'[target[w]] = w
      BY <2>1 DEF TypeOK
    <2>4. \A u \in Workers \ {w} : InSection(u)' <=> InSection(u)
      BY <2>1 DEF InSection, TypeOK
    <2>5. InSection(w)' /\ ~InSection(w)
      BY <1>3, <2>1 DEF Acquire, InSection, Section, TypeOK
    <2>6. QED
      BY <2>1, <2>2, <2>3, <2>4, <2>5 DEF Exclusion
  <1>4. ASSUME NEW w \in Workers, GiveUp(w) PROVE Exclusion'
    <2>1. /\ pc[w] = "waiting" /\ pc' = [pc EXCEPT ![w] = "idle"]
          /\ UNCHANGED <<target, lapsed, broken>>
      BY <1>4 DEF GiveUp, WaitEnds, Finish
    <2>2. \A a \in Accounts : lease[a] # Free => lease'[a] = lease[a]
      BY <1>4 DEF GiveUp, TypeOK
    <2>3. QED
      BY <2>1, <2>2 DEF Exclusion, InSection, Section, TypeOK
  <1>5. ASSUME NEW w \in Workers, Close(w) PROVE Exclusion'
    <2>1. /\ pc' = [pc EXCEPT ![w] = "idle"] /\ target' = target
          /\ lapsed' = lapsed \ {w}
      BY <1>5 DEF Close, Finish
    <2>2. \A a \in Accounts : lease[a] # w => lease'[a] = lease[a]
      BY <1>5 DEF Close, Left, Released, TypeOK
    <2>3. \A u \in Workers \ {w} :
              InSection(u) /\ target[u] \in broken => target[u] \in broken'
      BY <1>5 DEF Close, OnAccount
    <2>4. QED
      BY <2>1, <2>2, <2>3 DEF Exclusion, InSection, Section, TypeOK
  <1>6. ASSUME NEW w \in Workers, Lapse(w) PROVE Exclusion'
    BY <1>6 DEF Lapse, Expired, Exclusion, InSection, TypeOK, workerVars
  <1>7. CASE Persist
    BY <1>7, QuietKeepsExclusion DEF Persist, Quiet, InSection, workerVars, historyVars
  <1>8. ASSUME NEW l, lease' = l, Breaks(l), UNCHANGED workerVars PROVE Exclusion'
    BY <1>8 DEF Breaks, Dispossessed, Exclusion, InSection, workerVars
  <1>9. CASE Restart \/ LoseData
    BY <1>8, <1>9 DEF Restart, LoseData
  <1>10. ASSUME NEW a \in Accounts, Expire(a) PROVE Exclusion'
    BY <1>10 DEF Expire, Expired, Exclusion, InSection, TypeOK, workerVars, historyVars
  <1>11. ASSUME NEW a \in Accounts, EditOnRouter(a) PROVE Exclusion'
    BY <1>11, QuietKeepsExclusion DEF EditOnRouter, Quiet, InSection, redisVars, workerVars
  <1>12. ASSUME NEW p \in Processes, Crash(p) PROVE Exclusion'
    <2> DEFINE dead == {w \in Workers : ProcessOf[w] = p}
    <2>1. /\ target' = target /\ lapsed' = lapsed \ dead
          /\ \A u \in Workers : pc'[u] = IF u \in dead THEN "idle" ELSE pc[u]
          /\ \A a \in Accounts : lease[a] \notin dead => lease'[a] = lease[a]
      BY <1>12 DEF Crash
    <2>2. \A u \in Workers \ dead :
              InSection(u) /\ target[u] \in broken => target[u] \in broken'
      BY <1>12 DEF Crash, OnAccount
    <2>3. QED
      BY <2>1, <2>2 DEF Exclusion, InSection, Section, TypeOK
  <1>13. QED
    BY <1>1, <1>2, <1>3, <1>4, <1>5, <1>6, <1>7, <1>9, <1>10, <1>11, <1>12, QuietSteps,
       QuietKeepsExclusion
    DEF Next, Step

LEMMA ExclusionHolds == Spec => [](TypeOK /\ HasRead /\ Exclusion)
  <1>1. Init => TypeOK /\ HasRead /\ Exclusion
    BY InitTypeOK DEF Init, HasRead, AfterRead, Exclusion, InSection, Section
  <1>2. TypeOK /\ HasRead /\ Exclusion /\ [Next]_vars => (TypeOK /\ HasRead /\ Exclusion)'
    BY NextTypeOK, NextHasRead, NextExclusion
  <1>3. QED
    BY <1>1, <1>2, PTL DEF Spec

\* Of the workers inside one account's lock, all but one have lost their lease:
\* for any number of processes, restarts, data losses and crashes.
THEOREM Mutex == Spec => []OneWorkerPerAccount
  <1>1. TypeOK /\ HasRead /\ Exclusion => OneWorkerPerAccount
    BY DEF Exclusion, OneWorkerPerAccount
  <1>2. QED
    BY <1>1, ExclusionHolds, PTL

\* Only StartWrite brings a worker to its write.
LEMMA WritesStart ==
    ASSUME TypeOK, Next, NEW w \in Workers, pc[w] # "writing", pc'[w] = "writing"
    PROVE  StartWrite(w)
  <1>1. ASSUME NEW u \in Workers, Step(u) PROVE StartWrite(w)
    <2>1. CASE StartWrite(u)
      BY <2>1 DEF StartWrite, TypeOK
    <2>2. CASE Acquire(u) \/ Close(u) \/ GiveUp(u) \/ EpochFails(u) \/ CallFails(u)
      BY <2>2 DEF Acquire, Close, GiveUp, EpochFails, CallFails, Fail, Finish, TypeOK
    <2>3. CASE \/ ReadAccount(u) \/ IssueEpoch(u) \/ ReobserveEpoch(u) \/ IssueReceipt(u) \/ ClaimEpoch(u)
               \/ ClaimRevision(u) \/ RecheckEpoch(u)
      BY <2>3
      DEF ReadAccount, IssueEpoch, ReobserveEpoch, IssueReceipt, ClaimEpoch, ClaimRevision, RecheckEpoch,
          Fail, Finish, TypeOK
    <2>4. CASE \/ Advance(u) \/ AdvanceUnanswered(u) \/ Refuse(u) \/ Write(u) \/ Confirm(u)
      BY <2>4 DEF Advance, AdvanceUnanswered, Refuse, Write, Confirm, TypeOK
    <2>5. QED
      BY <1>1, <2>1, <2>2, <2>3, <2>4 DEF Step
  <1>2. ASSUME NEW u \in Workers, LoseLock(u) \/ DropReceipt(u) \/ Lapse(u)
        PROVE StartWrite(w)
    BY <1>2 DEF LoseLock, DropReceipt, Lapse, workerVars
  <1>3. ASSUME NEW u \in Workers, NEW j \in Jobs, NEW a \in Accounts, Begin(u, j, a)
        PROVE StartWrite(w)
    BY <1>3 DEF Begin, TypeOK
  <1>4. CASE Persist \/ Restart \/ LoseData
    BY <1>4 DEF Persist, Restart, LoseData, workerVars
  <1>5. ASSUME NEW a \in Accounts, Expire(a) \/ EditOnRouter(a) PROVE StartWrite(w)
    BY <1>5 DEF Expire, EditOnRouter, workerVars
  <1>6. ASSUME NEW p \in Processes, Crash(p) PROVE StartWrite(w)
    BY <1>6 DEF Crash
  <1>7. QED
    BY <1>1, <1>2, <1>3, <1>4, <1>5, <1>6 DEF Next

\* A worker whose lease went to another does not start its write while the
\* other is in its section.
THEOREM NoIntrusion == Spec => NoWriteIntoAnothersSection
  <1> DEFINE Intrusion(v, w) ==
                 /\ pc[w] # "writing" /\ pc'[w] = "writing"
                 /\ v # w /\ InSection(v) /\ target[v] = target[w]
  <1>1. TypeOK /\ Exclusion /\ [Next]_vars =>
            [\A v, w \in Workers : Intrusion(v, w) => v \in lapsed]_vars
    <2> SUFFICES ASSUME TypeOK, Exclusion, Next, NEW v \in Workers, NEW w \in Workers,
                        Intrusion(v, w)
                 PROVE  v \in lapsed
      OBVIOUS
    <2>1. StartWrite(w)
      BY WritesStart
    <2>2. QED
      BY <2>1 DEF StartWrite, OwnsLease, Exclusion
  <1>2. QED
    BY <1>1, ExclusionHolds, PTL DEF Spec, NoWriteIntoAnothersSection

-----------------------------------------------------------------------------
(* What a write replaces *)

\* Program points between the reading under the lock and the write's end.
Relying == {"issueEpoch", "issueAgain", "issueRevision", "claimEpoch", "claimAgain",
            "claimRevision", "recheckEpoch", "advance", "approved", "writing"}

AsRead ==
    \A w \in Workers : pc[w] \in Relying =>
        \/ setting[target[w]] = base[w]
        \/ target[w] \in broken
        \/ w \in tampered

\* A step that changes no account, brings nobody to rely on a reading and
\* excuses nobody who does from his excuse.
Untouched ==
    /\ setting' = setting
    /\ \A u \in Workers : pc'[u] \in Relying =>
          /\ pc[u] \in Relying /\ target'[u] = target[u] /\ base'[u] = base[u]
          /\ target[u] \in broken => target[u] \in broken'
          /\ u \in tampered => u \in tampered'

LEMMA UntouchedKeepsAsRead == AsRead /\ Untouched => AsRead'
  BY DEF AsRead, Untouched

\* A worker that writes is alone in its section, or leases have been lost.
LEMMA WriterIsAlone ==
    ASSUME Exclusion, NEW w \in Workers, NEW u \in Workers, InSection(w), InSection(u),
           u # w, target[u] = target[w]
    PROVE  target[u] \in broken
  BY DEF Exclusion

LEMMA NextAsRead ==
    TypeOK /\ HasRead /\ Exclusion /\ AsRead /\ [Next]_vars => AsRead'
  <1> SUFFICES ASSUME TypeOK, HasRead, Exclusion, AsRead, [Next]_vars PROVE AsRead'
    OBVIOUS
  <1> USE DEF Relying
  <1>1. CASE UNCHANGED vars
    BY <1>1, UntouchedKeepsAsRead DEF Untouched, vars, workerVars, historyVars
  <1>2. ASSUME NEW w \in Workers, NEW j \in Jobs, NEW a \in Accounts, Begin(w, j, a)
        PROVE AsRead'
    BY <1>2, UntouchedKeepsAsRead DEF Begin, Untouched, TypeOK, historyVars
  <1>3. ASSUME NEW w \in Workers, Finish(w), UNCHANGED <<setting, target>>,
               \A u \in Workers : pc'[u] \in Relying /\ target[u] \in broken
                                  => target[u] \in broken'
        PROVE AsRead'
    BY <1>3, UntouchedKeepsAsRead DEF Finish, Untouched, TypeOK
  <1>4. ASSUME NEW w \in Workers, Fail(w), UNCHANGED <<setting, target, broken>>
        PROVE AsRead'
    <2>1. CASE InSection(w)
      BY <1>4, <2>1, UntouchedKeepsAsRead DEF Fail, Untouched, TypeOK
    <2>2. CASE ~InSection(w)
      BY <1>3, <1>4, <2>2 DEF Fail
    <2>3. QED
      BY <2>1, <2>2
  <1>5. ASSUME NEW w \in Workers, Step(w) PROVE AsRead'
    <2>1. CASE Acquire(w)
      BY <2>1, UntouchedKeepsAsRead DEF Acquire, Untouched, TypeOK, historyVars
    <2>2. CASE GiveUp(w)
      BY <2>2, <1>3 DEF GiveUp
    <2>3. CASE Close(w)
      <3>1. \A u \in Workers : pc'[u] \in Relying /\ target[u] \in broken
                               => target[u] \in broken'
        BY <2>3 DEF Close, Finish, OnAccount, InSection, Section, TypeOK
      <3>2. QED
        BY <2>3, <3>1, <1>3 DEF Close
    <2>4. CASE ReadAccount(w)
      BY <2>4 DEF ReadAccount, AsRead, TypeOK, historyVars
    <2>5. CASE IssueReceipt(w) \/ EpochFails(w) \/ CallFails(w)
      BY <2>5, <1>4 DEF IssueReceipt, EpochFails, CallFails
    <2>6. CASE \/ IssueEpoch(w) \/ ReobserveEpoch(w) \/ ClaimEpoch(w) \/ ClaimRevision(w) \/ RecheckEpoch(w)
               \/ Advance(w) \/ AdvanceUnanswered(w) \/ StartWrite(w)
      <3>1. Untouched
        BY <2>6
        DEF Untouched, IssueEpoch, ReobserveEpoch, ClaimEpoch, ClaimRevision, RecheckEpoch, Advance,
            AdvanceUnanswered, StartWrite, TypeOK, historyVars
      <3>2. QED
        BY <3>1, UntouchedKeepsAsRead
    <2>7. CASE Refuse(w) \/ Confirm(w)
      BY <2>7, UntouchedKeepsAsRead DEF Refuse, Confirm, Untouched, TypeOK, historyVars
    <2>8. CASE Write(w)
      <3>1. /\ pc[w] = "writing" /\ pc' = [pc EXCEPT ![w] = "written"]
            /\ UNCHANGED <<target, base, broken, tampered>>
            /\ \A a \in Accounts : a # target[w] => setting'[a] = setting[a]
        BY <2>8 DEF Write, TypeOK, historyVars
      <3>2. \A u \in Workers \ {w} : pc[u] \in Relying /\ target[u] = target[w]
                                     => target[u] \in broken
        BY <3>1, WriterIsAlone DEF InSection, Section
      <3>3. QED
        BY <3>1, <3>2 DEF AsRead, TypeOK
    <2>9. QED
      BY <1>5, <2>1, <2>2, <2>3, <2>4, <2>5, <2>6, <2>7, <2>8 DEF Step
  <1>6. ASSUME NEW w \in Workers, LoseLock(w) \/ DropReceipt(w) \/ Lapse(w) PROVE AsRead'
    BY <1>6, UntouchedKeepsAsRead
    DEF LoseLock, DropReceipt, Lapse, Untouched, workerVars, historyVars
  <1>7. CASE Persist \/ Restart \/ LoseData
    BY <1>7, UntouchedKeepsAsRead
    DEF Persist, Restart, LoseData, Breaks, Untouched, workerVars, historyVars
  <1>8. ASSUME NEW a \in Accounts, Expire(a) PROVE AsRead'
    BY <1>8, UntouchedKeepsAsRead DEF Expire, Untouched, workerVars, historyVars
  <1>9. ASSUME NEW a \in Accounts, EditOnRouter(a) PROVE AsRead'
    <2>1. /\ UNCHANGED <<pc, target, base, broken>>
          /\ \A b \in Accounts : b # a => setting'[b] = setting[b]
          /\ tampered' = tampered \cup {w \in Workers : base[w] # Unread /\ target[w] = a}
      BY <1>9 DEF EditOnRouter, TypeOK, workerVars
    <2>2. QED
      BY <2>1 DEF AsRead, HasRead, AfterRead, TypeOK
  <1>10. ASSUME NEW p \in Processes, Crash(p) PROVE AsRead'
    <2> DEFINE dead == {w \in Workers : ProcessOf[w] = p}
               sent == {target[w] : w \in {v \in dead : pc[v] = "writing"}}
    <2>1. /\ target' = target /\ tampered' = tampered \ dead
          /\ \A u \in Workers : /\ pc'[u] = IF u \in dead THEN "idle" ELSE pc[u]
                                /\ u \notin dead => base'[u] = base[u]
          /\ \A a \in Accounts : a \notin sent => setting'[a] = setting[a]
      BY <1>10 DEF Crash
    <2>2. \A u \in Workers \ dead : pc[u] \in Relying /\ target[u] \in broken
                                    => target[u] \in broken'
      BY <1>10 DEF Crash, OnAccount, InSection, Section
    <2>3. \A u \in Workers \ dead : pc[u] \in Relying /\ target[u] \in sent
                                    => target[u] \in broken
      BY WriterIsAlone DEF InSection, Section
    <2>4. QED
      BY <2>1, <2>2, <2>3 DEF AsRead, TypeOK
  <1>11. QED
    BY <1>1, <1>2, <1>5, <1>6, <1>7, <1>8, <1>9, <1>10 DEF Next

\* What a write replaces is what its handler read under the lock, and so what
\* the operator reviewed, unless a lease was lost or the router edited.
THEOREM NoLostUpdate == Spec => []WriteReplacesWhatWasRead
  <1>1. Init => AsRead
    BY DEF Init, AsRead, Relying
  <1>2. TypeOK /\ HasRead /\ Exclusion /\ AsRead /\ [Next]_vars => AsRead'
    BY NextAsRead
  <1>3. AsRead => WriteReplacesWhatWasRead
    BY DEF AsRead, Relying, WriteReplacesWhatWasRead
  <1>4. QED
    BY <1>1, <1>2, <1>3, ExclusionHolds, PTL DEF Spec

-----------------------------------------------------------------------------
(* A receipt that is honoured is current *)

\* A coordinator that has seen a run and an epoch holds on to both until its
\* process dies.
LEMMA Remembers ==
    ASSUME TypeOK, Next, NEW p \in Processes, seenRun[p] # 0, seenEpoch[p] # NoEpoch
    PROVE  \/ Crash(p)
           \/ seenRun'[p] = seenRun[p] /\ seenEpoch'[p] = seenEpoch[p]
  <1>1. ASSUME NEW w \in Workers, ObserveEpoch(w)
        PROVE  seenRun'[p] = seenRun[p] /\ seenEpoch'[p] = seenEpoch[p]
    BY <1>1, ProcessAssumption DEF ObserveEpoch, EpochOK, RunOK, TypeOK, NoEpoch
  <1>2. ASSUME NEW w \in Workers, Step(w)
        PROVE  seenRun'[p] = seenRun[p] /\ seenEpoch'[p] = seenEpoch[p]
    <2>1. CASE IssueEpoch(w) \/ ReobserveEpoch(w) \/ ClaimEpoch(w) \/ RecheckEpoch(w)
      BY <2>1, <1>1 DEF IssueEpoch, ReobserveEpoch, ClaimEpoch, RecheckEpoch
    <2>2. CASE IssueReceipt(w) \/ ClaimRevision(w)
      BY <2>2 DEF IssueReceipt, ClaimRevision, ObserveRevision
    <2>3. CASE EpochFails(w)
      BY <2>3, ProcessAssumption DEF EpochFails, RunOK, TypeOK
    <2>4. CASE Acquire(w) \/ GiveUp(w) \/ Close(w) \/ ReadAccount(w) \/ CallFails(w)
      BY <2>4 DEF Acquire, GiveUp, Close, ReadAccount, CallFails, processVars
    <2>5. CASE \/ Advance(w) \/ AdvanceUnanswered(w) \/ StartWrite(w) \/ Refuse(w)
               \/ Write(w) \/ Confirm(w)
      BY <2>5
      DEF Advance, AdvanceUnanswered, StartWrite, Refuse, Write, Confirm, processVars
    <2>6. QED
      BY <1>2, <2>1, <2>2, <2>3, <2>4, <2>5 DEF Step
  <1>3. ASSUME NEW w \in Workers, LoseLock(w) \/ DropReceipt(w) \/ Lapse(w)
        PROVE  UNCHANGED processVars
    BY <1>3 DEF LoseLock, DropReceipt, Lapse
  <1>4. ASSUME NEW w \in Workers, NEW j \in Jobs, NEW a \in Accounts, Begin(w, j, a)
        PROVE  UNCHANGED processVars
    BY <1>4 DEF Begin
  <1>5. CASE Persist \/ Restart \/ LoseData
    BY <1>5 DEF Persist, Restart, LoseData, processVars
  <1>6. ASSUME NEW a \in Accounts, Expire(a) \/ EditOnRouter(a) PROVE UNCHANGED processVars
    BY <1>6 DEF Expire, EditOnRouter
  <1>7. ASSUME NEW q \in Processes, Crash(q), q # p
        PROVE  seenRun'[p] = seenRun[p] /\ seenEpoch'[p] = seenEpoch[p]
    BY <1>7 DEF Crash, TypeOK
  <1>8. QED
    BY <1>2, <1>3, <1>4, <1>5, <1>6, <1>7 DEF Next, processVars

\* The changes of an account are counted when a worker in its section advances
\* the revision, and only then.
Advances(w) == Advance(w) \/ AdvanceUnanswered(w)

LEMMA RunEpochRevision ==
    ASSUME TypeOK, MarkersAreFresh, Next
    PROVE  /\ \/ run' > run
              \/ epoch' = NoEpoch
              \/ epoch' = nextEpoch
              \/ /\ run' = run /\ epoch' = epoch
                 /\ \A a \in Accounts : rev[a] # Absent =>
                       /\ rev'[a] # Absent
                       /\ rev'[a] - rev[a] = changes'[a] - changes[a]
           /\ \A a \in Accounts : changes'[a] # changes[a] =>
                 \E w \in Workers : Advances(w) /\ target[w] = a
  <1> DEFINE Kept == run' = run /\ rev' = rev /\ changes' = changes /\ epoch' = epoch
  <1> USE DEF Absent, NoEpoch
  <1>1. CASE Kept
    BY <1>1 DEF TypeOK, Revisions
  <1>2. ASSUME NEW w \in Workers, ObserveEpoch(w), changes' = changes
        PROVE  (Kept \/ epoch' = nextEpoch) /\ changes' = changes
    BY <1>2 DEF ObserveEpoch
  <1>3. ASSUME NEW w \in Workers, ObserveRevision(w), changes' = changes
        PROVE  /\ run' = run /\ epoch' = epoch /\ changes' = changes
               /\ \A a \in Accounts : rev[a] # Absent => rev'[a] = rev[a]
    BY <1>3 DEF ObserveRevision, CurrentRevision, TypeOK
  <1>4. ASSUME NEW w \in Workers, Advances(w)
        PROVE  /\ run' = run /\ epoch' = epoch
               /\ \A a \in Accounts : a # target[w] =>
                     rev'[a] = rev[a] /\ changes'[a] = changes[a]
               /\ rev[target[w]] # Absent =>
                     /\ rev'[target[w]] = rev[target[w]] + 1
                     /\ changes'[target[w]] = changes[target[w]] + 1
    BY <1>4 DEF Advances, Advance, AdvanceUnanswered, Matches, TypeOK, Revisions
  <1>5. ASSUME NEW w \in Workers, Advances(w)
        PROVE  /\ run' = run /\ epoch' = epoch
               /\ \A a \in Accounts : rev[a] # Absent =>
                    /\ rev'[a] # Absent
                    /\ rev'[a] - rev[a] = changes'[a] - changes[a]
               /\ \A a \in Accounts : changes'[a] # changes[a] => target[w] = a
    BY <1>4, <1>5 DEF TypeOK, Revisions
  <1>6. CASE \E w \in Workers : Step(w)
    <2> PICK w \in Workers : Step(w)
      BY <1>6
    <2>1. CASE IssueEpoch(w) \/ ReobserveEpoch(w) \/ ClaimEpoch(w) \/ RecheckEpoch(w)
      BY <2>1, <1>1, <1>2 DEF IssueEpoch, ReobserveEpoch, ClaimEpoch, RecheckEpoch, historyVars
    <2>2. CASE IssueReceipt(w) \/ ClaimRevision(w)
      <3>1. ObserveRevision(w) /\ changes' = changes
        BY <2>2 DEF IssueReceipt, ClaimRevision, historyVars
      <3>2. QED
        BY <3>1, <1>3 DEF TypeOK, Revisions
    <2>3. CASE Advances(w)
      BY <2>3, <1>5
    <2>4. CASE \/ Acquire(w) \/ GiveUp(w) \/ Close(w) \/ ReadAccount(w) \/ CallFails(w)
               \/ EpochFails(w)
      BY <2>4, <1>1
      DEF Acquire, GiveUp, Close, ReadAccount, CallFails, EpochFails, redisVars, historyVars
    <2>5. CASE StartWrite(w) \/ Refuse(w) \/ Write(w) \/ Confirm(w)
      BY <2>5, <1>1 DEF StartWrite, Refuse, Write, Confirm, redisVars, historyVars
    <2>6. QED
      BY <2>1, <2>2, <2>3, <2>4, <2>5 DEF Step, Advances
  <1>7. ASSUME NEW w \in Workers, LoseLock(w) \/ DropReceipt(w) \/ Lapse(w) PROVE Kept
    BY <1>7 DEF LoseLock, DropReceipt, Lapse, redisVars, historyVars
  <1>8. ASSUME NEW w \in Workers, NEW j \in Jobs, NEW a \in Accounts, Begin(w, j, a)
        PROVE  Kept
    BY <1>8 DEF Begin, redisVars, historyVars
  <1>9. CASE Persist
    BY <1>9, <1>1 DEF Persist, historyVars
  <1>10. CASE Restart \/ LoseData
    BY <1>10 DEF Restart, LoseData, TypeOK
  <1>11. ASSUME NEW a \in Accounts, Expire(a) \/ EditOnRouter(a) PROVE Kept
    BY <1>11 DEF Expire, EditOnRouter, redisVars, historyVars
  <1>12. ASSUME NEW p \in Processes, Crash(p) PROVE Kept
    BY <1>12 DEF Crash
  <1>13. QED
    BY <1>1, <1>6, <1>7, <1>8, <1>9, <1>10, <1>11, <1>12 DEF Next

LEMMA NextMarkersAreFresh ==
    TypeOK /\ MarkersAreFresh /\ [Next]_vars => MarkersAreFresh'
  <1> SUFFICES ASSUME TypeOK, MarkersAreFresh, [Next]_vars PROVE MarkersAreFresh'
    OBVIOUS
  <1> USE DEF MarkersAreFresh
  <1>1. ASSUME UNCHANGED <<run, epoch, nextEpoch, saved, processVars>> PROVE MarkersAreFresh'
    BY <1>1 DEF processVars
  <1>2. ASSUME NEW w \in Workers, ObserveEpoch(w) PROVE MarkersAreFresh'
    <2> DEFINE p == ProcessOf[w]
    <2>1. /\ run' = run /\ saved' = saved /\ nextEpoch' >= nextEpoch /\ epoch' < nextEpoch'
          /\ epoch' \in Nat /\ nextEpoch' \in Nat
      BY <1>2 DEF ObserveEpoch, TypeOK, NoEpoch
    <2>2. \A q \in Processes : /\ seenRun'[q] = seenRun[q] \/ seenRun'[q] = run
                               /\ seenEpoch'[q] = seenEpoch[q] \/ seenEpoch'[q] = epoch'
      BY <1>2 DEF ObserveEpoch, TypeOK
    <2>3. epoch' < nextEpoch' /\ saved'.epoch < nextEpoch'
      BY <2>1 DEF TypeOK, Datasets
    <2>4. \A q \in Processes : seenEpoch'[q] < nextEpoch'
      BY <2>1, <2>2 DEF TypeOK
    <2>5. \A q \in Processes : seenRun'[q] <= run'
      BY <2>1, <2>2 DEF TypeOK
    <2>6. QED
      BY <2>3, <2>4, <2>5
  <1>3. ASSUME NEW w \in Workers, ObserveRevision(w) PROVE MarkersAreFresh'
    BY <1>3 DEF ObserveRevision
  <1>4. ASSUME UNCHANGED <<run, epoch, nextEpoch, processVars>>, saved'.epoch = saved.epoch
        PROVE MarkersAreFresh'
    BY <1>4 DEF processVars
  <1>5. ASSUME NEW w \in Workers, Step(w) PROVE MarkersAreFresh'
    <2>1. CASE IssueEpoch(w) \/ ReobserveEpoch(w) \/ ClaimEpoch(w) \/ RecheckEpoch(w)
      BY <2>1, <1>2 DEF IssueEpoch, ReobserveEpoch, ClaimEpoch, RecheckEpoch
    <2>2. CASE IssueReceipt(w) \/ ClaimRevision(w)
      BY <2>2, <1>3 DEF IssueReceipt, ClaimRevision
    <2>3. CASE EpochFails(w)
      <3>1. UNCHANGED <<run, epoch, nextEpoch, saved, seenEpoch>>
        BY <2>3 DEF EpochFails, redisVars
      <3>2. \A q \in Processes : seenRun'[q] = seenRun[q] \/ seenRun'[q] = run
        BY <2>3 DEF EpochFails, TypeOK
      <3>3. \A q \in Processes : seenEpoch'[q] < nextEpoch'
        BY <3>1
      <3>4. \A q \in Processes : seenRun'[q] <= run'
        BY <3>1, <3>2 DEF TypeOK
      <3>5. QED
        BY <3>1, <3>3, <3>4
    <2>4. CASE Close(w)
      BY <2>4, <1>4 DEF Close, TypeOK, Datasets
    <2>5. CASE Acquire(w) \/ GiveUp(w) \/ ReadAccount(w) \/ CallFails(w)
      BY <2>5, <1>1 DEF Acquire, GiveUp, ReadAccount, CallFails, redisVars
    <2>6. CASE \/ Advance(w) \/ AdvanceUnanswered(w) \/ StartWrite(w) \/ Refuse(w)
               \/ Write(w) \/ Confirm(w)
      BY <2>6
      DEF Advance, AdvanceUnanswered, StartWrite, Refuse, Write, Confirm, redisVars,
          processVars
    <2>7. QED
      BY <1>5, <2>1, <2>2, <2>3, <2>4, <2>5, <2>6 DEF Step
  <1>6. ASSUME NEW a \in Accounts, NEW l, Expired(a, l),
               UNCHANGED <<run, epoch, nextEpoch, processVars>>
        PROVE MarkersAreFresh'
    <2>1. saved'.epoch = saved.epoch
      BY <1>6 DEF Expired, TypeOK, Datasets
    <2>2. QED
      BY <1>4, <1>6, <2>1
  <1>7. ASSUME NEW w \in Workers, LoseLock(w) \/ DropReceipt(w) \/ Lapse(w)
        PROVE MarkersAreFresh'
    <2>1. CASE LoseLock(w) \/ DropReceipt(w)
      BY <2>1, <1>1 DEF LoseLock, DropReceipt, redisVars
    <2>2. CASE Lapse(w)
      BY <2>2, <1>6 DEF Lapse, TypeOK
    <2>3. QED
      BY <1>7, <2>1, <2>2
  <1>8. ASSUME NEW w \in Workers, NEW j \in Jobs, NEW a \in Accounts, Begin(w, j, a)
        PROVE MarkersAreFresh'
    BY <1>8, <1>1 DEF Begin, redisVars
  <1>9. CASE Persist \/ Restart \/ LoseData
    BY <1>9 DEF Persist, Restart, LoseData, TypeOK, NoEpoch, processVars
  <1>10. ASSUME NEW a \in Accounts, Expire(a) \/ EditOnRouter(a) PROVE MarkersAreFresh'
    BY <1>10, <1>1, <1>6 DEF Expire, EditOnRouter, redisVars
  <1>11. ASSUME NEW p \in Processes, Crash(p) PROVE MarkersAreFresh'
    <2>1. /\ UNCHANGED <<run, epoch, nextEpoch>> /\ saved'.epoch = saved.epoch
          /\ seenRun' = [seenRun EXCEPT ![p] = 0]
          /\ seenEpoch' = [seenEpoch EXCEPT ![p] = NoEpoch]
      BY <1>11 DEF Crash, TypeOK, Datasets
    <2>2. QED
      BY <2>1 DEF TypeOK, NoEpoch
  <1>12. CASE UNCHANGED vars
    BY <1>12, <1>1 DEF vars, redisVars
  <1>13. QED
    BY <1>5, <1>7, <1>8, <1>9, <1>10, <1>11, <1>12 DEF Next

\* A receipt appears when its worker issues it, and otherwise only disappears.
LEMMA ReceiptsCome ==
    ASSUME TypeOK, Next, NEW u \in Workers
    PROVE  receipt'[u] \in {receipt[u], NoReceipt} \/ IssueReceipt(u)
  <1>1. ASSUME NEW w \in Workers, Step(w)
        PROVE  receipt'[u] \in {receipt[u], NoReceipt} \/ IssueReceipt(u)
    <2>1. CASE IssueReceipt(w)
      BY <2>1 DEF IssueReceipt, TypeOK
    <2>2. CASE Advance(w)
      BY <2>2 DEF Advance, TypeOK
    <2>3. CASE \/ Acquire(w) \/ GiveUp(w) \/ Close(w) \/ ReadAccount(w) \/ CallFails(w)
               \/ EpochFails(w)
      BY <2>3 DEF Acquire, GiveUp, Close, ReadAccount, CallFails, EpochFails
    <2>4. CASE IssueEpoch(w) \/ ReobserveEpoch(w) \/ ClaimEpoch(w) \/ ClaimRevision(w) \/ RecheckEpoch(w)
      BY <2>4 DEF IssueEpoch, ReobserveEpoch, ClaimEpoch, ClaimRevision, RecheckEpoch
    <2>5. CASE AdvanceUnanswered(w) \/ StartWrite(w) \/ Refuse(w) \/ Write(w) \/ Confirm(w)
      BY <2>5 DEF AdvanceUnanswered, StartWrite, Refuse, Write, Confirm
    <2>6. QED
      BY <1>1, <2>1, <2>2, <2>3, <2>4, <2>5 DEF Step
  <1>2. ASSUME NEW w \in Workers, LoseLock(w) \/ DropReceipt(w) \/ Lapse(w)
        PROVE  receipt'[u] \in {receipt[u], NoReceipt}
    BY <1>2 DEF LoseLock, DropReceipt, Lapse, workerVars, TypeOK
  <1>3. ASSUME NEW w \in Workers, NEW j \in Jobs, NEW a \in Accounts, Begin(w, j, a)
        PROVE  receipt' = receipt
    BY <1>3 DEF Begin
  <1>4. CASE Persist \/ Restart \/ LoseData
    BY <1>4 DEF Persist, Restart, LoseData, workerVars
  <1>5. ASSUME NEW a \in Accounts, Expire(a) \/ EditOnRouter(a) PROVE receipt' = receipt
    BY <1>5 DEF Expire, EditOnRouter, workerVars
  <1>6. ASSUME NEW p \in Processes, Crash(p)
        PROVE  receipt'[u] \in {receipt[u], NoReceipt}
    BY <1>6 DEF Crash
  <1>7. QED
    BY <1>1, <1>2, <1>3, <1>4, <1>5, <1>6 DEF Next

\* A worker keeps what it claims, at the point it is at, unless its own next
\* call, the loss of its receipt or its crash moves it on.
Claiming(u) == pc[u] \in Claimants \cup {"claimEpoch"}

LEMMA ClaimsStay ==
    ASSUME TypeOK, Next, NEW u \in Workers, Claiming(u)'
    PROVE  \/ ReadAccount(u) \/ IssueEpoch(u) \/ ReobserveEpoch(u) \/ ClaimEpoch(u) \/ ClaimRevision(u)
           \/ RecheckEpoch(u)
           \/ /\ pc'[u] = pc[u] /\ job'[u] = job[u] /\ target'[u] = target[u]
              /\ claim'[u] = claim[u] /\ base'[u] = base[u]
              /\ Consuming(u) => receipt'[u] = receipt[u]
              /\ ~Crash(ProcessOf[u])
  <1> DEFINE Stays == /\ pc'[u] = pc[u] /\ job'[u] = job[u] /\ target'[u] = target[u]
                      /\ claim'[u] = claim[u] /\ base'[u] = base[u]
                      /\ Consuming(u) => receipt'[u] = receipt[u]
             Moves == \/ ReadAccount(u) \/ IssueEpoch(u) \/ ReobserveEpoch(u) \/ ClaimEpoch(u) \/ ClaimRevision(u)
                      \/ RecheckEpoch(u)
  <1> USE DEF Claiming, Claimants, TypeOK
  <1>1. ASSUME NEW w \in Workers, Step(w) PROVE Stays \/ Moves
    <2>1. CASE IssueEpoch(w) \/ ReobserveEpoch(w) \/ ClaimEpoch(w) \/ ClaimRevision(w) \/ RecheckEpoch(w)
      BY <2>1 DEF IssueEpoch, ReobserveEpoch, ClaimEpoch, ClaimRevision, RecheckEpoch
    <2>2. CASE ReadAccount(w)
      BY <2>2 DEF ReadAccount
    <2>3. CASE Finish(w) /\ UNCHANGED <<job, target, receipt>>
      BY <2>3 DEF Finish
    <2>4. CASE /\ UNCHANGED <<job, target>>
               /\ \A v \in Workers \ {w} : receipt'[v] = receipt[v]
               /\ Fail(w)
      BY <2>4 DEF Fail, Finish
    <2>5. CASE GiveUp(w) \/ Close(w) \/ EpochFails(w) \/ CallFails(w) \/ IssueReceipt(w)
      BY <2>5, <2>3, <2>4 DEF GiveUp, Close, EpochFails, CallFails, IssueReceipt
    <2>6. CASE Acquire(w)
      BY <2>6 DEF Acquire
    <2>7. CASE Advance(w) \/ AdvanceUnanswered(w)
      BY <2>7 DEF Advance, AdvanceUnanswered
    <2>8. CASE StartWrite(w) \/ Refuse(w) \/ Write(w) \/ Confirm(w)
      BY <2>8 DEF StartWrite, Refuse, Write, Confirm
    <2>9. QED
      BY <1>1, <2>1, <2>2, <2>5, <2>6, <2>7, <2>8 DEF Step
  <1>2. ASSUME NEW w \in Workers, LoseLock(w) \/ Lapse(w) PROVE Stays
    BY <1>2 DEF LoseLock, Lapse, workerVars
  <1>3. ASSUME NEW w \in Workers, DropReceipt(w) PROVE Stays
    BY <1>3 DEF DropReceipt
  <1>4. ASSUME NEW w \in Workers, NEW j \in Jobs, NEW a \in Accounts, Begin(w, j, a)
        PROVE  Stays
    BY <1>4 DEF Begin
  <1>5. ASSUME Persist \/ Restart \/ LoseData PROVE Stays
    BY <1>5 DEF Persist, Restart, LoseData, workerVars
  <1>6. ASSUME NEW a \in Accounts, Expire(a) \/ EditOnRouter(a) PROVE Stays
    BY <1>6 DEF Expire, EditOnRouter, workerVars
  <1>7. ASSUME NEW p \in Processes, Crash(p) PROVE Stays
    <2>1. ProcessOf[u] # p
      BY <1>7 DEF Crash
    <2>2. QED
      BY <1>7, <2>1 DEF Crash
  <1>8. ~Crash(ProcessOf[u])
    BY DEF Crash
  <1>9. QED
    BY <1>1, <1>2, <1>3, <1>4, <1>5, <1>6, <1>7, <1>8 DEF Next

LEMMA NextObserved ==
    TypeOK /\ MarkersAreFresh /\ Observed /\ [Next]_vars => Observed'
  <1> SUFFICES ASSUME TypeOK, MarkersAreFresh, Observed, [Next]_vars PROVE Observed'
    OBVIOUS
  <1>1. CASE UNCHANGED vars
    BY <1>1 DEF Observed, vars, processVars, workerVars
  <1>2. CASE Next
    <2> SUFFICES ASSUME NEW w \in Workers
                 PROVE  LET p == ProcessOf[w] IN
                        /\ pc'[w] \in Claimants
                           => /\ seenRun'[p] # 0 /\ seenEpoch'[p] # NoEpoch
                              /\ claim'[w].epoch = seenEpoch'[p]
                        /\ receipt'[w] # NoReceipt
                           => /\ seenRun'[p] # 0 /\ seenEpoch'[p] # NoEpoch
                              /\ receipt'[w].epoch = seenEpoch'[p]
      BY DEF Observed
    <2> DEFINE p == ProcessOf[w]
               Kept == seenRun'[p] = seenRun[p] /\ seenEpoch'[p] = seenEpoch[p]
    <2>1. p \in Processes
      BY ProcessAssumption
    <2>2. seenRun[p] # 0 /\ seenEpoch[p] # NoEpoch => Kept \/ Crash(p)
      BY <1>2, <2>1, Remembers
    <2>3. Crash(p) => pc'[w] = "idle" /\ receipt'[w] = NoReceipt
      BY DEF Crash
    <2>4. ASSUME pc'[w] \in Claimants
          PROVE  /\ seenRun'[p] # 0 /\ seenEpoch'[p] # NoEpoch
                 /\ claim'[w].epoch = seenEpoch'[p]
      <3>1. ASSUME ObserveEpoch(w), claim'[w].epoch = epoch'
            PROVE  /\ seenRun'[p] # 0 /\ seenEpoch'[p] # NoEpoch
                   /\ claim'[w].epoch = seenEpoch'[p]
        BY <2>1, <3>1 DEF ObserveEpoch, TypeOK, NoEpoch
      <3>2. CASE IssueEpoch(w)
        BY <3>1, <3>2 DEF IssueEpoch, TypeOK
      <3>3. CASE ClaimEpoch(w)
        <4>1. ObserveEpoch(w)
          BY <3>3 DEF ClaimEpoch
        <4>2. claim'[w].epoch = epoch'
          BY <2>4, <3>3 DEF ClaimEpoch, TypeOK, Claimants
        <4>3. QED
          BY <3>1, <4>1, <4>2
      <3>4. CASE pc[w] \in Claimants /\ claim'[w].epoch = claim[w].epoch
        BY <2>2, <2>3, <2>4, <3>4 DEF Observed, Claimants
      <3>5. CASE ClaimRevision(w) \/ RecheckEpoch(w) \/ ReobserveEpoch(w)
        BY <3>4, <3>5 DEF ClaimRevision, RecheckEpoch, ReobserveEpoch, TypeOK, Claimants
      <3>6. CASE ReadAccount(w)
        BY <2>4, <3>6 DEF ReadAccount, TypeOK, Claimants
      <3>7. QED
        BY <1>2, <2>4, <3>2, <3>3, <3>4, <3>5, <3>6, ClaimsStay DEF Claiming, Claimants
    <2>5. ASSUME receipt'[w] # NoReceipt
          PROVE  /\ seenRun'[p] # 0 /\ seenEpoch'[p] # NoEpoch
                 /\ receipt'[w].epoch = seenEpoch'[p]
      <3>1. CASE receipt'[w] = receipt[w]
        BY <2>2, <2>3, <2>5, <3>1 DEF Observed
      <3>2. CASE IssueReceipt(w)
        BY <2>1, <3>2 DEF IssueReceipt, ObserveRevision, Observed, TypeOK, Claimants
      <3>3. QED
        BY <1>2, <2>5, <3>1, <3>2, ReceiptsCome
    <2>6. QED
      BY <2>4, <2>5
  <1>3. QED
    BY <1>1, <1>2

LEMMA NextClaimed == TypeOK /\ Claimed /\ [Next]_vars => Claimed'
  <1> SUFFICES ASSUME TypeOK, Claimed, [Next]_vars PROVE Claimed'
    OBVIOUS
  <1> USE DEF Consuming
  <1>1. CASE UNCHANGED vars
    BY <1>1 DEF Claimed, vars, workerVars
  <1>2. ASSUME Next, NEW w \in Workers, job'[w] = "apply", pc'[w] = "claimEpoch",
               receipt'[w] # NoReceipt
        PROVE  receipt'[w].account = target'[w]
    <2>1. CASE ReadAccount(w)
      BY <1>2, <2>1 DEF ReadAccount, Stale, TypeOK
    <2>2. CASE IssueEpoch(w) \/ ReobserveEpoch(w) \/ ClaimEpoch(w) \/ ClaimRevision(w) \/ RecheckEpoch(w)
      BY <1>2, <2>2 DEF IssueEpoch, ReobserveEpoch, ClaimEpoch, ClaimRevision, RecheckEpoch, TypeOK
    <2>3. CASE pc'[w] = pc[w] /\ job'[w] = job[w] /\ target'[w] = target[w]
      <3>1. receipt'[w] = receipt[w]
        BY <1>2, <2>3, ReceiptsCome DEF IssueReceipt
      <3>2. QED
        BY <1>2, <2>3, <3>1 DEF Claimed
    <2>4. QED
      BY <1>2, <2>1, <2>2, <2>3, ClaimsStay DEF Claiming, Claimants
  <1>3. ASSUME Next, NEW w \in Workers, Consuming(w)'
        PROVE  /\ receipt'[w] # NoReceipt /\ receipt'[w].account = target'[w]
               /\ pc'[w] \notin {"claimAgain", "claimRevision"}
                  => claim'[w].rev = receipt'[w].rev
    <2>1. CASE ClaimEpoch(w)
      BY <1>3, <2>1 DEF ClaimEpoch, Claimed, TypeOK
    <2>2. CASE ClaimRevision(w)
      BY <1>3, <2>2 DEF ClaimRevision, Outdated, Claimed, TypeOK
    <2>3. CASE RecheckEpoch(w) \/ ReobserveEpoch(w)
      BY <1>3, <2>3 DEF RecheckEpoch, ReobserveEpoch, Claimed, TypeOK
    <2>4. CASE ReadAccount(w) \/ IssueEpoch(w)
      BY <1>3, <2>4 DEF ReadAccount, IssueEpoch, ReobserveEpoch, TypeOK
    <2>5. CASE /\ pc'[w] = pc[w] /\ job'[w] = job[w] /\ target'[w] = target[w]
               /\ claim'[w] = claim[w] /\ (Consuming(w) => receipt'[w] = receipt[w])
      BY <1>3, <2>5 DEF Claimed
    <2>6. QED
      BY <1>3, <2>1, <2>2, <2>3, <2>4, <2>5, ClaimsStay DEF Claiming, Claimants
  <1>4. QED
    BY <1>1, <1>2, <1>3 DEF Claimed

LEMMA NextOffset ==
    TypeOK /\ TypeOK' /\ MarkersAreFresh /\ Observed /\ Offset /\ [Next]_vars => Offset'
  <1> SUFFICES ASSUME TypeOK, TypeOK', MarkersAreFresh, Observed, Offset, [Next]_vars
               PROVE  Offset'
    OBVIOUS
  <1>1. CASE UNCHANGED vars
    BY <1>1 DEF Offset, vars, redisVars, processVars, workerVars, historyVars
  <1>2. ASSUME Next, NEW w \in Workers, receipt'[w] # NoReceipt,
               seenRun'[ProcessOf[w]] = run', receipt'[w].epoch = epoch'
        PROVE  LET r == receipt'[w] IN
               rev'[r.account] # Absent
               /\ rev'[r.account] + r.seen = changes'[r.account] + r.rev
    <2> DEFINE p == ProcessOf[w]
    <2>1. CASE IssueReceipt(w)
      <3> DEFINE a == target[w]
      <3>1. /\ receipt'[w].account = a /\ receipt'[w].rev = CurrentRevision(a)
            /\ receipt'[w].seen = changes[a] /\ changes' = changes
            /\ rev'[a] = CurrentRevision(a)
        BY <2>1 DEF IssueReceipt, ObserveRevision, TypeOK
      <3>2. CurrentRevision(a) \in Nat
        BY DEF CurrentRevision, TypeOK, Revisions, Absent
      <3>3. QED
        BY <3>1, <3>2 DEF Absent, TypeOK
    <2>2. CASE receipt'[w] = receipt[w]
      <3> DEFINE r == receipt[w]
      <3>1. /\ seenRun[p] # 0 /\ seenEpoch[p] # NoEpoch /\ r.epoch = seenEpoch[p]
        BY <1>2, <2>2 DEF Observed
      <3>2. seenRun'[p] = seenRun[p] /\ p \in Processes
        BY <1>2, <2>2, <3>1, Remembers, ProcessAssumption DEF Crash
      <3>3. seenRun[p] <= run /\ r.epoch < nextEpoch /\ r.epoch # NoEpoch
        BY <3>1, <3>2 DEF MarkersAreFresh
      <3>4. /\ run' = run /\ epoch' = epoch
            /\ \A a \in Accounts : rev[a] # Absent =>
                  /\ rev'[a] # Absent
                  /\ rev'[a] - rev[a] = changes'[a] - changes[a]
        BY <1>2, <2>2, <3>2, <3>3, RunEpochRevision DEF TypeOK
      <3>5. /\ rev[r.account] # Absent
            /\ rev[r.account] + r.seen = changes[r.account] + r.rev
        BY <1>2, <2>2, <3>2, <3>4 DEF Offset
      <3>6. /\ r.account \in Accounts /\ r.seen \in Nat /\ r.rev \in Nat
        BY <1>2, <2>2 DEF TypeOK, Receipts
      <3>7. /\ rev[r.account] \in Int /\ changes[r.account] \in Int
            /\ rev'[r.account] \in Int /\ changes'[r.account] \in Int
        BY <3>6 DEF TypeOK, Revisions, Absent
      <3>8. QED
        BY <2>2, <3>4, <3>5, <3>6, <3>7
    <2>3. QED
      BY <1>2, <2>1, <2>2, ReceiptsCome
  <1>3. QED
    BY <1>1, <1>2 DEF Offset

\* A broken lease stays on record while a worker is in its section.
LEMMA BrokenStays ==
    ASSUME TypeOK, Next, NEW u \in Workers, InSection(u), Claiming(u)',
           target[u] \in broken
    PROVE  target[u] \in broken'
  <1> USE DEF Claiming, Claimants, TypeOK
  <1>1. ASSUME NEW w \in Workers, Step(w) PROVE target[u] \in broken'
    <2>1. CASE Close(w)
      <3>1. u # w
        BY <2>1 DEF Close, Finish
      <3>2. QED
        BY <2>1, <3>1 DEF Close, OnAccount
    <2>2. CASE \/ Acquire(w) \/ GiveUp(w) \/ ReadAccount(w) \/ CallFails(w)
               \/ EpochFails(w) \/ IssueReceipt(w)
      BY <2>2 DEF Acquire, GiveUp, ReadAccount, CallFails, EpochFails, IssueReceipt, historyVars
    <2>3. CASE IssueEpoch(w) \/ ReobserveEpoch(w) \/ ClaimEpoch(w) \/ ClaimRevision(w) \/ RecheckEpoch(w)
      BY <2>3 DEF IssueEpoch, ReobserveEpoch, ClaimEpoch, ClaimRevision, RecheckEpoch, historyVars
    <2>4. CASE \/ Advance(w) \/ AdvanceUnanswered(w) \/ StartWrite(w) \/ Refuse(w)
               \/ Write(w) \/ Confirm(w)
      BY <2>4
      DEF Advance, AdvanceUnanswered, StartWrite, Refuse, Write, Confirm, historyVars
    <2>5. QED
      BY <1>1, <2>1, <2>2, <2>3, <2>4 DEF Step
  <1>2. ASSUME NEW w \in Workers, LoseLock(w) \/ DropReceipt(w) \/ Lapse(w)
        PROVE  target[u] \in broken'
    BY <1>2 DEF LoseLock, DropReceipt, Lapse, historyVars
  <1>3. ASSUME NEW w \in Workers, NEW j \in Jobs, NEW a \in Accounts, Begin(w, j, a)
        PROVE  target[u] \in broken'
    BY <1>3 DEF Begin, historyVars
  <1>4. CASE Persist \/ Restart \/ LoseData
    BY <1>4 DEF Persist, Restart, LoseData, Breaks, historyVars
  <1>5. ASSUME NEW a \in Accounts, Expire(a) \/ EditOnRouter(a) PROVE target[u] \in broken'
    BY <1>5 DEF Expire, EditOnRouter, historyVars
  <1>6. ASSUME NEW p \in Processes, Crash(p) PROVE target[u] \in broken'
    <2>1. ProcessOf[u] # p
      BY <1>6 DEF Crash
    <2>2. u \in OnAccount(target[u]) \ {w \in Workers : ProcessOf[w] = p}
      BY <2>1 DEF OnAccount
    <2>3. QED
      BY <1>6, <2>2 DEF Crash
  <1>7. QED
    BY <1>1, <1>2, <1>3, <1>4, <1>5, <1>6 DEF Next

LEMMA NextStillCurrent ==
    /\ TypeOK /\ TypeOK' /\ Exclusion /\ MarkersAreFresh /\ Observed /\ Offset /\ Claimed
    /\ StillCurrent /\ [Next]_vars
    => StillCurrent'
  <1> SUFFICES ASSUME TypeOK, TypeOK', Exclusion, MarkersAreFresh, Observed, Offset, Claimed,
                      StillCurrent, [Next]_vars
               PROVE  StillCurrent'
    OBVIOUS
  <1>1. CASE UNCHANGED vars
    BY <1>1
    DEF StillCurrent, Consuming, vars, redisVars, processVars, workerVars, historyVars
  <1>2. ASSUME Next, NEW w \in Workers, Consuming(w)', target'[w] \notin broken',
               \/ pc'[w] = "advance"
               \/ /\ pc'[w] = "recheckEpoch"
                  /\ seenRun'[ProcessOf[w]] = run' /\ receipt'[w].epoch = epoch'
        PROVE  changes'[target'[w]] = receipt'[w].seen
    <2> DEFINE p == ProcessOf[w]
               a == target[w]
               r == receipt[w]
    <2> p \in Processes /\ a \in Accounts
      BY ProcessAssumption DEF TypeOK
    <2>1. CASE ReadAccount(w) \/ IssueEpoch(w) \/ ReobserveEpoch(w) \/ ClaimEpoch(w)
      BY <1>2, <2>1 DEF ReadAccount, IssueEpoch, ReobserveEpoch, ClaimEpoch, TypeOK
    <2>2. CASE ClaimRevision(w)
      <3>1. /\ pc[w] = "claimRevision" /\ pc'[w] = "recheckEpoch" /\ job[w] = "apply"
            /\ UNCHANGED <<run, epoch, seenRun, receipt, target, changes>>
            /\ CurrentRevision(a) = r.rev
        BY <1>2, <2>2
        DEF ClaimRevision, ObserveRevision, Outdated, Consuming, historyVars, TypeOK
      <3>2. r # NoReceipt /\ r.account = a
        BY <3>1 DEF Claimed, Consuming
      <3>3. rev[a] # Absent /\ rev[a] + r.seen = changes[a] + r.rev
        BY <1>2, <3>1, <3>2 DEF Offset
      <3>4. rev[a] = r.rev /\ r.rev \in Nat /\ r.seen \in Nat /\ changes[a] \in Nat
        BY <3>1, <3>2, <3>3 DEF CurrentRevision, TypeOK, Receipts
      <3>5. QED
        BY <3>1, <3>3, <3>4
    <2>3. CASE RecheckEpoch(w)
      <3>1. /\ pc[w] = "recheckEpoch" /\ job[w] = "apply" /\ EpochOK(p)
            /\ UNCHANGED <<receipt, target, changes, broken>>
        BY <1>2, <2>3 DEF RecheckEpoch, ObserveEpoch, Consuming, historyVars
      <3>2. r # NoReceipt
        BY <3>1 DEF Claimed, Consuming
      <3>3. seenRun[p] = run /\ r.epoch = epoch
        BY <3>1, <3>2 DEF Observed, EpochOK, RunOK
      <3>4. QED
        BY <1>2, <3>1, <3>3 DEF StillCurrent, Consuming
    <2>4. CASE /\ pc'[w] = pc[w] /\ job'[w] = job[w] /\ target'[w] = target[w]
               /\ claim'[w] = claim[w] /\ (Consuming(w) => receipt'[w] = receipt[w])
               /\ ~Crash(p)
      <3>1. Consuming(w) /\ receipt'[w] = r /\ InSection(w)
        BY <1>2, <2>4 DEF Consuming, InSection, Section
      <3>2. a \notin broken
        BY <1>2, <2>4, <3>1, BrokenStays DEF Claiming, Claimants, Consuming
      <3>3. r # NoReceipt
        BY <3>1 DEF Claimed
      <3>4. changes'[a] = changes[a]
        <4> SUFFICES ASSUME NEW v \in Workers, Advances(v), target[v] = a PROVE FALSE
          BY <1>2, RunEpochRevision
        <4>1. v # w
          BY <1>2, <3>1 DEF Advances, Advance, AdvanceUnanswered, Consuming, TypeOK
        <4>2. InSection(v)
          BY DEF Advances, Advance, AdvanceUnanswered, InSection, Section
        <4>3. QED
          BY <3>1, <3>2, <4>1, <4>2, WriterIsAlone
      <3>5. CASE pc[w] = "advance"
        BY <2>4, <3>1, <3>2, <3>4, <3>5 DEF StillCurrent
      <3>6. CASE pc'[w] = "recheckEpoch" /\ seenRun'[p] = run' /\ r.epoch = epoch'
        <4>1. /\ seenRun[p] # 0 /\ seenEpoch[p] # NoEpoch /\ r.epoch = seenEpoch[p]
          BY <3>3 DEF Observed
        <4>2. seenRun'[p] = seenRun[p]
          BY <1>2, <2>4, <4>1, Remembers
        <4>3. seenRun[p] <= run /\ r.epoch < nextEpoch /\ r.epoch # NoEpoch
          BY <4>1 DEF MarkersAreFresh
        <4>4. run' = run /\ epoch' = epoch
          BY <1>2, <3>6, <4>2, <4>3, RunEpochRevision DEF TypeOK
        <4>5. QED
          BY <2>4, <3>1, <3>2, <3>4, <3>6, <4>2, <4>4 DEF StillCurrent
      <3>7. QED
        BY <1>2, <2>4, <3>1, <3>5, <3>6
    <2>5. QED
      BY <1>2, <2>1, <2>2, <2>3, <2>4, ClaimsStay DEF Claiming, Claimants, Consuming
  <1>3. QED
    BY <1>1, <1>2 DEF StillCurrent

\* The strengthening that makes the freshness of an honoured receipt inductive.
Freshness == MarkersAreFresh /\ Observed /\ Offset /\ Claimed /\ StillCurrent

LEMMA InitFreshness == Init => Freshness
  BY DEF Init, Freshness, MarkersAreFresh, Observed, Offset, Claimed, StillCurrent, Consuming,
         Claimants, NoEpoch

\* Only Advance approves a change.
LEMMA AdvancesApprove ==
    ASSUME TypeOK, Next, NEW w \in Workers, pc[w] = "advance", pc'[w] = "approved"
    PROVE  Advance(w)
  <1>1. ASSUME NEW u \in Workers, Step(u) PROVE Advance(w)
    <2>1. CASE Advance(u)
      BY <2>1 DEF Advance, TypeOK
    <2>2. CASE Acquire(u) \/ Close(u) \/ GiveUp(u) \/ EpochFails(u) \/ CallFails(u)
      BY <2>2 DEF Acquire, Close, GiveUp, EpochFails, CallFails, Fail, Finish, TypeOK
    <2>3. CASE \/ ReadAccount(u) \/ IssueEpoch(u) \/ ReobserveEpoch(u) \/ IssueReceipt(u) \/ ClaimEpoch(u)
               \/ ClaimRevision(u) \/ RecheckEpoch(u)
      BY <2>3
      DEF ReadAccount, IssueEpoch, ReobserveEpoch, IssueReceipt, ClaimEpoch, ClaimRevision, RecheckEpoch,
          Fail, Finish, TypeOK
    <2>4. CASE \/ AdvanceUnanswered(u) \/ StartWrite(u) \/ Refuse(u) \/ Write(u)
               \/ Confirm(u)
      BY <2>4 DEF AdvanceUnanswered, StartWrite, Refuse, Write, Confirm, TypeOK
    <2>5. QED
      BY <1>1, <2>1, <2>2, <2>3, <2>4 DEF Step
  <1>2. ASSUME NEW u \in Workers, LoseLock(u) \/ DropReceipt(u) \/ Lapse(u)
        PROVE Advance(w)
    BY <1>2 DEF LoseLock, DropReceipt, Lapse, workerVars
  <1>3. ASSUME NEW u \in Workers, NEW j \in Jobs, NEW a \in Accounts, Begin(u, j, a)
        PROVE Advance(w)
    BY <1>3 DEF Begin, TypeOK
  <1>4. CASE Persist \/ Restart \/ LoseData
    BY <1>4 DEF Persist, Restart, LoseData, workerVars
  <1>5. ASSUME NEW a \in Accounts, Expire(a) \/ EditOnRouter(a) PROVE Advance(w)
    BY <1>5 DEF Expire, EditOnRouter, workerVars
  <1>6. ASSUME NEW p \in Processes, Crash(p) PROVE Advance(w)
    BY <1>6 DEF Crash
  <1>7. QED
    BY <1>1, <1>2, <1>3, <1>4, <1>5, <1>6 DEF Next

\* A step that honours a receipt advances the revision it was issued for.
LEMMA HonoursWhatIsCurrent ==
    ASSUME TypeOK, Freshness, Next, NEW w \in Workers, Honours(w)
    PROVE  \/ receipt[w].seen = changes[target[w]]
           \/ target[w] \in broken /\ run # seenRun[ProcessOf[w]]
  <1> USE DEF Freshness
  <1> DEFINE a == target[w]
             r == receipt[w]
  <1>1. pc[w] = "advance" /\ Consuming(w) /\ a \in Accounts
    BY DEF Honours, Consuming, TypeOK
  <1>2. Advance(w)
    BY AdvancesApprove DEF Honours
  <1>3. r # NoReceipt /\ r.account = a /\ claim[w].rev = r.rev
    BY <1>1 DEF Claimed
  <1>4. r.epoch = epoch /\ rev[a] = r.rev
    BY <1>1, <1>2, <1>3 DEF Observed, Claimants, Advance, Matches
  <1>5. CASE run = seenRun[ProcessOf[w]]
    <2>1. rev[a] + r.seen = changes[a] + r.rev
      BY <1>3, <1>4, <1>5 DEF Offset
    <2>2. r.rev \in Nat /\ r.seen \in Nat /\ changes[a] \in Nat
      BY <1>1, <1>3 DEF TypeOK, Receipts
    <2>3. QED
      BY <1>4, <2>1, <2>2
  <1>6. CASE a \notin broken
    BY <1>1, <1>6 DEF StillCurrent
  <1>7. QED
    BY <1>5, <1>6

\* A receipt is honoured only while no change has been approved on its account
\* since it was issued, through crashes, restarts and lost data, unless a
\* broken lease and an unnoticed restart of Redis come together.
THEOREM HonouredIsCurrent == Spec => HonouredReceiptIsCurrent
  <1> DEFINE Inv == TypeOK /\ HasRead /\ Exclusion /\ Freshness
  <1>1. Init => Freshness
    BY InitFreshness
  <1>2. TypeOK /\ TypeOK' /\ Exclusion /\ Freshness /\ [Next]_vars => Freshness'
    BY NextMarkersAreFresh, NextObserved, NextOffset, NextClaimed, NextStillCurrent
    DEF Freshness
  <1>3. TypeOK /\ Freshness /\ [Next]_vars =>
            [\A w \in Workers : Honours(w) =>
                \/ receipt[w].seen = changes[target[w]]
                \/ target[w] \in broken /\ run # seenRun[ProcessOf[w]]]_vars
    BY HonoursWhatIsCurrent
  <1>4. QED
    BY <1>1, <1>2, <1>3, ExclusionHolds, PTL DEF Spec, HonouredReceiptIsCurrent

-----------------------------------------------------------------------------
(* The promise of ReviewedChanges *)

\* Program points at which a receipt is being consumed, or a revision claimed.
ClaimPoints == {"claimEpoch", "claimAgain", "claimRevision", "recheckEpoch", "advance"}

\* A worker that carries its receipt past the reading of the account read what the
\* operator reviewed.
Reviewed ==
    \A w \in Workers :
        job[w] = "apply" /\ pc[w] \in ClaimPoints /\ receipt[w] # NoReceipt
        => receipt[w].setting = base[w]

LEMMA NextReviewed == TypeOK /\ Reviewed /\ [Next]_vars => Reviewed'
  <1> SUFFICES ASSUME TypeOK, Reviewed, [Next]_vars PROVE Reviewed'
    OBVIOUS
  <1>1. CASE UNCHANGED vars
    BY <1>1 DEF Reviewed, vars, workerVars
  <1>2. ASSUME Next, NEW w \in Workers, job'[w] = "apply", pc'[w] \in ClaimPoints,
               receipt'[w] # NoReceipt
        PROVE  receipt'[w].setting = base'[w]
    <2>1. CASE ReadAccount(w)
      BY <1>2, <2>1 DEF ReadAccount, Stale, TypeOK, ClaimPoints
    <2>2. CASE IssueEpoch(w) \/ ReobserveEpoch(w)
      BY <1>2, <2>2 DEF IssueEpoch, ReobserveEpoch, Reviewed, TypeOK, ClaimPoints
    <2>3. CASE ClaimEpoch(w) \/ ClaimRevision(w) \/ RecheckEpoch(w)
      BY <1>2, <2>3 DEF ClaimEpoch, ClaimRevision, RecheckEpoch, Reviewed, TypeOK, ClaimPoints
    <2>4. CASE pc'[w] = pc[w] /\ job'[w] = job[w] /\ base'[w] = base[w]
      <3>1. receipt'[w] = receipt[w]
        BY <1>2, <2>4, ReceiptsCome DEF IssueReceipt, ClaimPoints
      <3>2. QED
        BY <1>2, <2>4, <3>1 DEF Reviewed
    <2>5. QED
      BY <1>2, <2>1, <2>2, <2>3, <2>4, ClaimsStay DEF Claiming, Claimants, ClaimPoints
  <1>3. QED
    BY <1>1, <1>2 DEF Reviewed

\* What the promise sees of the reviews and of the writes under way.
Reviews == [w \in Workers |-> ReviewOf(w)]
Grants == [w \in Workers |-> GrantOf(w)]

\* A worker that is about to write.
Writer(w) == pc[w] \in {"approved", "writing"}

LEMMA GrantIsRecord ==
    ASSUME TypeOK, HasRead, NEW w \in Workers
    PROVE  /\ GrantOf(w) # NoReceipt <=> Writer(w)
           /\ Writer(w) => GrantOf(w) = [account |-> target[w], setting |-> base[w]]
           /\ Writer(w) => base[w] \in Settings /\ target[w] \in Accounts
  <1>1. CASE Writer(w)
    <2>1. base[w] \in Settings /\ target[w] \in Accounts
      BY <1>1 DEF Writer, HasRead, AfterRead, TypeOK
    <2>2. [account |-> target[w], setting |-> base[w]] \in
              [account : Accounts, setting : Settings]
      BY <2>1
    <2>3. QED
      BY <1>1, <2>1, <2>2, ValueAssumption DEF GrantOf, Writer
  <1>2. CASE ~Writer(w)
    BY <1>2 DEF GrantOf, Writer
  <1>3. QED
    BY <1>1, <1>2

LEMMA ReviewIsRecord ==
    ASSUME TypeOK, NEW w \in Workers
    PROVE  /\ ReviewOf(w) # NoReceipt <=> receipt[w] # NoReceipt
           /\ receipt[w] # NoReceipt =>
                ReviewOf(w) = [account |-> receipt[w].account, setting |-> receipt[w].setting,
                               seen |-> receipt[w].seen]
  <1>1. CASE receipt[w] # NoReceipt
    <2>1. receipt[w] \in Receipts
      BY <1>1 DEF TypeOK
    <2>2. [account |-> receipt[w].account, setting |-> receipt[w].setting,
           seen |-> receipt[w].seen] \in [account : Accounts, setting : Settings, seen : Nat]
      BY <2>1 DEF Receipts
    <2>3. QED
      BY <1>1, <2>2, ValueAssumption DEF ReviewOf
  <1>2. CASE receipt[w] = NoReceipt
    BY <1>2 DEF ReviewOf
  <1>3. QED
    BY <1>1, <1>2

\* The writers of an account the promise knows are those of the coordination.
LEMMA GrantedWriters ==
    ASSUME TypeOK, HasRead, NEW a \in Accounts
    PROVE  Promise!Granted(a) = {w \in Workers : Writer(w) /\ target[w] = a}
  <1>1. ASSUME NEW w \in Workers
        PROVE  GrantOf(w) # NoReceipt /\ GrantOf(w).account = a <=> Writer(w) /\ target[w] = a
    BY GrantIsRecord
  <1>2. Promise!Granted(a) = {w \in Workers : GrantOf(w) # NoReceipt /\ GrantOf(w).account = a}
    BY DEF Promise!Granted
  <1>3. QED
    BY <1>1, <1>2

\* Steps the promise does not see.
LEMMA SameGrants ==
    ASSUME \A w \in Workers : /\ Writer(w)' <=> Writer(w)
                              /\ Writer(w) => target'[w] = target[w] /\ base'[w] = base[w]
    PROVE  Grants' = Grants
  BY DEF Grants, GrantOf, Writer

LEMMA SameReviews ==
    ASSUME UNCHANGED receipt
    PROVE  Reviews' = Reviews
  BY DEF Reviews, ReviewOf

\* A step that changes nothing the promise sees but the exposed accounts and the
\* edited workers, of which it takes none away from a writer.
LEMMA DisturbStep ==
    ASSUME TypeOK, HasRead, UNCHANGED <<setting, changes, receipt>>, Grants' = Grants,
           \A a \in broken \ broken' : \A w \in Workers : Writer(w) => target[w] # a,
           \A w \in tampered \ tampered' : ~Writer(w)
    PROVE  Promise!Disturb
  <1>1. Reviews' = Reviews
    BY SameReviews
  <1>2. ASSUME NEW a \in broken \ broken' PROVE Promise!Granted(a) = {}
    <2>1. a \in Accounts
      BY DEF TypeOK
    <2>2. QED
      BY <2>1, GrantedWriters
  <1>3. ASSUME NEW w \in tampered \ tampered' PROVE Grants[w] = NoReceipt
    <2>1. w \in Workers
      BY DEF TypeOK
    <2>2. QED
      BY <2>1, GrantIsRecord DEF Grants
  <1>4. QED
    BY <1>1, <1>2, <1>3 DEF Promise!Disturb, Reviews, Grants

LEMMA UnseenSteps ==
    ASSUME TypeOK, HasRead, NEW w \in Workers,
           \/ \E j \in Jobs, a \in Accounts : Begin(w, j, a)
           \/ Acquire(w) \/ LoseLock(w) \/ ReadAccount(w) \/ IssueEpoch(w) \/ ReobserveEpoch(w)
           \/ ClaimEpoch(w) \/ ClaimRevision(w) \/ RecheckEpoch(w) \/ StartWrite(w) \/ Confirm(w)
    PROVE  UNCHANGED Promise!vars
  <1>1. UNCHANGED <<setting, changes, receipt, broken, tampered>>
    BY DEF Begin, Acquire, LoseLock, ReadAccount, IssueEpoch, ReobserveEpoch, ClaimEpoch,
           ClaimRevision, RecheckEpoch, StartWrite, Confirm, historyVars
  <1>2. \A u \in Workers : /\ Writer(u)' <=> Writer(u)
                           /\ Writer(u) => target'[u] = target[u] /\ base'[u] = base[u]
    <2>1. CASE \E j \in Jobs, a \in Accounts : Begin(w, j, a)
      BY <2>1 DEF Begin, Writer, TypeOK
    <2>2. CASE Acquire(w) \/ LoseLock(w) \/ StartWrite(w) \/ Confirm(w)
      BY <2>2 DEF Acquire, LoseLock, StartWrite, Confirm, Writer, TypeOK
    <2>3. CASE ReadAccount(w) \/ IssueEpoch(w) \/ ReobserveEpoch(w)
      BY <2>3 DEF ReadAccount, IssueEpoch, ReobserveEpoch, Writer, TypeOK
    <2>4. CASE ClaimEpoch(w) \/ ClaimRevision(w) \/ RecheckEpoch(w)
      BY <2>4 DEF ClaimEpoch, ClaimRevision, RecheckEpoch, Writer, TypeOK
    <2>5. QED
      BY <2>1, <2>2, <2>3, <2>4
  <1>3. Grants' = Grants /\ Reviews' = Reviews
    BY <1>1, <1>2, SameGrants, SameReviews
  <1>4. QED
    BY <1>1, <1>3 DEF Promise!vars, Grants, Reviews

\* Locks that are lost, and requests that end: the promise is disturbed at most.
LEMMA DisturbingSteps ==
    ASSUME TypeOK, HasRead, Exclusion,
           \/ \E w \in Workers : \/ GiveUp(w) \/ Close(w) \/ EpochFails(w) \/ CallFails(w)
                                \/ Lapse(w)
           \/ Restart \/ LoseData
    PROVE  Promise!Disturb
  <1>1. CASE Restart \/ LoseData \/ \E w \in Workers : Lapse(w)
    <2>1. UNCHANGED <<setting, changes, receipt, tampered, pc, target, base>>
          /\ broken \subseteq broken'
      BY <1>1 DEF Restart, LoseData, Lapse, Breaks, workerVars
    <2>2. Grants' = Grants
      BY <2>1, SameGrants DEF Writer
    <2>3. QED
      BY <2>1, <2>2, DisturbStep
  <1>2. ASSUME NEW w \in Workers, GiveUp(w) \/ EpochFails(w) \/ CallFails(w)
        PROVE  Promise!Disturb
    <2>1. /\ UNCHANGED <<setting, changes, receipt, target, broken>> /\ ~Writer(w)
          /\ tampered' \in {tampered, tampered \ {w}}
          /\ \A u \in Workers \ {w} : pc'[u] = pc[u] /\ base'[u] = base[u]
          /\ pc'[w] \in {"idle", "closing"}
      BY <1>2 DEF GiveUp, WaitEnds, EpochFails, CallFails, Fail, Finish, TypeOK, Writer
    <2>2. Grants' = Grants
      BY <2>1, SameGrants DEF Writer
    <2>3. QED
      BY <2>1, <2>2, DisturbStep
  <1>3. ASSUME NEW w \in Workers, Close(w)
        PROVE  Promise!Disturb
    <2>1. /\ UNCHANGED <<setting, changes, receipt, target>> /\ ~Writer(w)
          /\ tampered' = tampered \ {w}
          /\ broken' = IF OnAccount(target[w]) = {w} THEN broken \ {target[w]} ELSE broken
          /\ \A u \in Workers \ {w} : pc'[u] = pc[u] /\ base'[u] = base[u]
          /\ pc'[w] = "idle"
      BY <1>3 DEF Close, Finish, TypeOK, Writer
    <2>2. Grants' = Grants
      BY <2>1, SameGrants DEF Writer
    <2>3. ASSUME NEW a \in broken \ broken', NEW u \in Workers, Writer(u) PROVE target[u] # a
      BY <2>1, <2>3 DEF OnAccount, InSection, Section, Writer
    <2>4. QED
      BY <2>1, <2>2, <2>3, DisturbStep
  <1>4. QED
    BY <1>1, <1>2, <1>3

\* A receipt issued is a review, one dropped a review discarded.
LEMMA ReceiptSteps ==
    ASSUME TypeOK, TypeOK', HasRead, NEW w \in Workers, IssueReceipt(w) \/ DropReceipt(w)
    PROVE  Promise!Next
  <1>1. CASE IssueReceipt(w)
    <2> DEFINE a == target[w]
               new == [account |-> a, setting |-> base[w], seen |-> changes[a]]
    <2>1. /\ UNCHANGED <<setting, changes, target, broken>> /\ ~Writer(w)
          /\ tampered' \in {tampered, tampered \ {w}}
          /\ \A u \in Workers \ {w} : pc'[u] = pc[u] /\ base'[u] = base[u]
          /\ pc'[w] \in {"idle", "closing"} /\ a \in Accounts
      BY <1>1 DEF IssueReceipt, Fail, Finish, TypeOK, Writer
    <2>2. base[w] \in Settings
      BY <1>1 DEF IssueReceipt, HasRead, AfterRead, TypeOK
    <2>3. Grants' = Grants
      BY <2>1, SameGrants DEF Writer
    <2>4. /\ receipt'[w] = [account |-> a, epoch |-> claim[w].epoch,
                            rev |-> CurrentRevision(a), setting |-> base[w],
                            seen |-> changes[a]]
          /\ \A u \in Workers \ {w} : receipt'[u] = receipt[u]
      BY <1>1 DEF IssueReceipt, TypeOK
    <2>5. receipt'[w] \in Receipts
      BY <2>1, <2>2, <2>4, <1>1, ObserveRevisionTypeOK DEF IssueReceipt, Receipts, TypeOK
    <2>6. receipt'[w] # NoReceipt
      BY <2>5, ValueAssumption DEF Receipts
    <2>7. ReviewOf(w)' = new
      BY <2>4, <2>6 DEF ReviewOf
    <2>8. \A u \in Workers \ {w} : ReviewOf(u)' = ReviewOf(u)
      BY <2>4 DEF ReviewOf
    <2>9. Reviews' = [Reviews EXCEPT ![w] = new]
      BY <2>7, <2>8 DEF Reviews
    <2>10. Grants[w] = NoReceipt
      BY <2>1, GrantIsRecord DEF Grants
    <2>11. Promise!Review(w, a, base[w])
      BY <2>1, <2>3, <2>9, <2>10 DEF Promise!Review, Reviews, Grants
    <2>12. QED
      BY <2>1, <2>2, <2>11 DEF Promise!Next
  <1>2. CASE DropReceipt(w)
    <2>1. /\ UNCHANGED <<setting, changes, target, pc, base, broken, tampered>>
          /\ receipt' = [receipt EXCEPT ![w] = NoReceipt]
      BY <1>2 DEF DropReceipt, historyVars
    <2>2. Grants' = Grants
      BY <2>1, SameGrants DEF Writer
    <2>3. ReviewOf(w)' = NoReceipt /\ \A u \in Workers \ {w} : ReviewOf(u)' = ReviewOf(u)
      BY <2>1 DEF ReviewOf, TypeOK
    <2>4. Reviews' = [Reviews EXCEPT ![w] = NoReceipt]
      BY <2>3 DEF Reviews
    <2>5. Promise!Discard(w)
      BY <2>1, <2>2, <2>4 DEF Promise!Discard, Reviews, Grants
    <2>6. QED
      BY <2>5 DEF Promise!Next
  <1>3. QED
    BY <1>1, <1>2

\* A revision advanced is a change approved, with the review it rests on if it
\* carries a receipt.
LEMMA AdvanceGrants ==
    ASSUME TypeOK, HasRead, Exclusion, AsRead, Reviewed, Freshness, Next,
           NEW w \in Workers, Advance(w)
    PROVE  Promise!Next
  <1> DEFINE a == target[w]
             new == [account |-> a, setting |-> base[w]]
  <1>1. /\ UNCHANGED <<setting, target, base, broken, tampered>> /\ ~Writer(w)
        /\ \A u \in Workers \ {w} : pc'[u] = pc[u]
        /\ pc[w] = "advance" /\ pc'[w] = "approved" /\ a \in Accounts
        /\ changes' = [changes EXCEPT ![a] = @ + 1]
        /\ receipt' = IF job[w] = "apply" THEN [receipt EXCEPT ![w] = NoReceipt] ELSE receipt
    BY DEF Advance, TypeOK, Writer
  <1>2. base[w] \in Settings
    BY <1>1 DEF HasRead, AfterRead, TypeOK
  <1>3. Grants[w] = NoReceipt
    BY <1>1, GrantIsRecord DEF Grants
  <1>4. Promise!Granted(a) = {} \/ a \in broken
    <2>1. ASSUME NEW u \in Workers, Writer(u), target[u] = a PROVE a \in broken
      <3>1. u # w /\ InSection(u) /\ InSection(w)
        BY <1>1, <2>1 DEF InSection, Section, Writer
      <3>2. QED
        BY <2>1, <3>1, WriterIsAlone
    <2>2. QED
      BY <1>1, <2>1, GrantedWriters
  <1>5. base[w] = setting[a] \/ a \in broken \/ w \in tampered
    BY <1>1 DEF AsRead, Relying
  <1>6. GrantOf(w)' = new /\ \A u \in Workers \ {w} : GrantOf(u)' = GrantOf(u)
    BY <1>1 DEF GrantOf
  <1>7. Grants' = [Grants EXCEPT ![w] = new]
    BY <1>6 DEF Grants
  <1>8. Promise!Grant(w, a)
    BY <1>1, <1>2, <1>3, <1>4, <1>5, <1>7 DEF Promise!Grant, Grants
  <1>9. CASE job[w] = "apply"
    <2>1. /\ receipt[w] # NoReceipt /\ receipt[w].account = a /\ receipt[w] \in Receipts
      BY <1>1, <1>9 DEF Freshness, Claimed, Consuming, TypeOK
    <2>2. receipt[w].seen = changes[a] \/ a \in broken
      BY <1>1, <1>9, HonoursWhatIsCurrent DEF Honours
    <2>3. Reviews[w] = [account |-> a, setting |-> receipt[w].setting, seen |-> receipt[w].seen]
          /\ Reviews[w] # NoReceipt
      BY <2>1, ReviewIsRecord DEF Reviews
    <2>4. receipt[w].setting = base[w]
      BY <1>1, <1>9, <2>1 DEF Reviewed, ClaimPoints
    <2>5. ReviewOf(w)' = NoReceipt /\ \A u \in Workers \ {w} : ReviewOf(u)' = ReviewOf(u)
      BY <1>1, <1>9 DEF ReviewOf, TypeOK
    <2>6. Reviews' = [Reviews EXCEPT ![w] = NoReceipt]
      BY <2>5 DEF Reviews
    <2>7. Promise!Approve(w)
      BY <1>6, <1>8, <2>2, <2>3, <2>4, <2>6 DEF Promise!Approve, Reviews, Grants
    <2>8. QED
      BY <2>7 DEF Promise!Next
  <1>10. CASE job[w] # "apply"
    <2>1. Reviews' = Reviews
      BY <1>1, <1>10, SameReviews
    <2>2. Promise!Override(w)
      BY <1>1, <1>8, <2>1 DEF Promise!Override, Reviews
    <2>3. QED
      BY <2>2 DEF Promise!Next
  <1>11. QED
    BY <1>9, <1>10

\* The steps of a worker with a change approved.
LEMMA WriterSteps ==
    ASSUME TypeOK, HasRead, Exclusion, AsRead, NEW w \in Workers,
           AdvanceUnanswered(w) \/ Refuse(w) \/ Write(w)
    PROVE  [Promise!Next]_Promise!vars
  <1> DEFINE a == target[w]
  <1>1. /\ UNCHANGED <<target, base, broken, tampered>>
        /\ \A u \in Workers \ {w} : pc'[u] = pc[u]
        /\ a \in Accounts /\ UNCHANGED receipt
    BY DEF AdvanceUnanswered, Refuse, Write, TypeOK, historyVars
  <1>2. Reviews' = Reviews
    BY <1>1, SameReviews
  <1>3. \A u \in Workers \ {w} : GrantOf(u)' = GrantOf(u)
    BY <1>1 DEF GrantOf
  <1>4. CASE AdvanceUnanswered(w)
    <2>1. ~Writer(w) /\ ~Writer(w)' /\ changes' = [changes EXCEPT ![a] = @ + 1]
          /\ UNCHANGED setting
      BY <1>4 DEF AdvanceUnanswered, Writer, TypeOK
    <2>2. Grants' = Grants
      BY <1>1, <2>1, SameGrants DEF Writer
    <2>3. Promise!Spoil(a)
      BY <1>1, <1>2, <2>1, <2>2 DEF Promise!Spoil, Reviews, Grants
    <2>4. QED
      BY <1>1, <2>3 DEF Promise!Next
  <1>5. CASE Refuse(w)
    <2>1. pc'[w] = "closing" /\ UNCHANGED <<setting, changes>>
      BY <1>5 DEF Refuse, TypeOK, historyVars
    <2>2. GrantOf(w)' = NoReceipt
      BY <2>1 DEF GrantOf
    <2>3. Grants' = [Grants EXCEPT ![w] = NoReceipt]
      BY <1>3, <2>2 DEF Grants
    <2>4. Promise!Withdraw(w)
      BY <1>1, <1>2, <2>1, <2>3 DEF Promise!Withdraw, Reviews, Grants
    <2>5. QED
      BY <2>4 DEF Promise!Next
  <1>6. CASE Write(w)
    <2>1. /\ pc[w] = "writing" /\ pc'[w] = "written" /\ UNCHANGED changes
          /\ \E s \in Settings : setting' = [setting EXCEPT ![a] = s]
      BY <1>6 DEF Write, TypeOK, historyVars
    <2>2. Grants[w] # NoReceipt /\ Grants[w] = [account |-> a, setting |-> base[w]]
      BY <2>1, GrantIsRecord DEF Grants, Writer
    <2>3. setting[a] = base[w] \/ a \in broken \/ w \in tampered
      BY <2>1 DEF AsRead, Relying
    <2>4. GrantOf(w)' = NoReceipt
      BY <2>1 DEF GrantOf
    <2>5. Grants' = [Grants EXCEPT ![w] = NoReceipt]
      BY <1>3, <2>4 DEF Grants
    <2>6. Promise!Write(w)
      <3>1. Grants[w].account = a /\ Grants[w].setting = base[w]
        BY <2>2
      <3>2. QED
        BY <1>1, <1>2, <2>1, <2>2, <2>3, <2>5, <3>1 DEF Promise!Write, Reviews, Grants
    <2>7. QED
      BY <2>6 DEF Promise!Next
  <1>7. QED
    BY <1>4, <1>5, <1>6

LEMMA RouterEdit ==
    ASSUME TypeOK, HasRead, NEW a \in Accounts, EditOnRouter(a)
    PROVE  Promise!Next
  <1>1. /\ \E s \in Settings : setting' = [setting EXCEPT ![a] = s]
        /\ tampered' = tampered \cup {w \in Workers : base[w] # Unread /\ target[w] = a}
        /\ UNCHANGED <<pc, target, base, receipt, changes, broken>>
    BY DEF EditOnRouter, workerVars
  <1>2. Grants' = Grants /\ Reviews' = Reviews
    BY <1>1, SameGrants, SameReviews DEF Writer
  <1>3. Promise!Granted(a) \subseteq tampered'
    BY <1>1, GrantedWriters DEF HasRead, AfterRead, Writer
  <1>4. Promise!EditOnRouter(a)
    BY <1>1, <1>2, <1>3 DEF Promise!EditOnRouter, Reviews, Grants
  <1>5. QED
    BY <1>4 DEF Promise!Next

\* The workers of a process die together.
LEMMA CrashKills ==
    ASSUME TypeOK, TypeOK', HasRead, NEW p \in Processes, Crash(p)
    PROVE  Promise!Next
  <1> DEFINE dead == {w \in Workers : ProcessOf[w] = p}
             at == {Grants[w].account : w \in {v \in dead : Grants[v] # NoReceipt}}
             sent == {target[w] : w \in {v \in dead : pc[v] = "writing"}}
  <1>1. /\ UNCHANGED <<target, changes>> /\ tampered' = tampered \ dead
        /\ broken' = {a \in broken : OnAccount(a) \ dead # {}}
        /\ \A w \in Workers : IF w \in dead
              THEN pc'[w] = "idle" /\ receipt'[w] = NoReceipt
              ELSE pc'[w] = pc[w] /\ base'[w] = base[w] /\ receipt'[w] = receipt[w]
        /\ \A a \in Accounts : a \notin sent => setting'[a] = setting[a]
    BY DEF Crash
  <1>2. Reviews' = [w \in Workers |-> IF w \in dead THEN NoReceipt ELSE Reviews[w]]
    <2>1. \A w \in Workers : ReviewOf(w)' = IF w \in dead THEN NoReceipt ELSE ReviewOf(w)
      BY <1>1 DEF ReviewOf
    <2>2. QED
      BY <2>1 DEF Reviews
  <1>3. Grants' = [w \in Workers |-> IF w \in dead THEN NoReceipt ELSE Grants[w]]
    <2>1. \A w \in Workers : GrantOf(w)' = IF w \in dead THEN NoReceipt ELSE GrantOf(w)
      BY <1>1 DEF GrantOf
    <2>2. QED
      BY <2>1 DEF Grants
  <1>4. sent \subseteq at
    <2>1. ASSUME NEW w \in dead, pc[w] = "writing" PROVE target[w] \in at
      BY <2>1, GrantIsRecord DEF Grants, Writer
    <2>2. QED
      BY <2>1
  <1>5. ASSUME NEW a \in broken \ broken' PROVE Promise!Granted(a) \subseteq dead
    BY <1>1, GrantedWriters DEF OnAccount, InSection, Section, Writer, TypeOK
  <1>6. Promise!Die(dead)
    BY <1>1, <1>2, <1>3, <1>4, <1>5 DEF Promise!Die, Reviews, Grants, TypeOK
  <1>7. QED
    BY <1>6 DEF Promise!Next

\* Every step of the coordination is one of the promise, or none.
LEMMA NextKeepsPromise ==
    TypeOK /\ TypeOK' /\ HasRead /\ Exclusion /\ AsRead /\ Reviewed /\ Freshness /\ [Next]_vars
    => [Promise!Next]_Promise!vars
  <1> SUFFICES ASSUME TypeOK, TypeOK', HasRead, Exclusion, AsRead, Reviewed, Freshness,
                      [Next]_vars
               PROVE  [Promise!Next]_Promise!vars
    OBVIOUS
  <1>1. CASE UNCHANGED vars
    <2>1. UNCHANGED <<setting, changes, receipt, pc, target, base, broken, tampered>>
      BY <1>1 DEF vars, workerVars, historyVars
    <2>2. Grants' = Grants /\ Reviews' = Reviews
      BY <2>1, SameGrants, SameReviews DEF Writer
    <2>3. QED
      BY <2>1, <2>2 DEF Promise!vars, Grants, Reviews
  <1>2. ASSUME Next, NEW w \in Workers, Step(w) \/ LoseLock(w) \/ DropReceipt(w) \/ Lapse(w)
        PROVE  [Promise!Next]_Promise!vars
    <2>1. CASE \/ Acquire(w) \/ LoseLock(w) \/ ReadAccount(w) \/ IssueEpoch(w)
               \/ ReobserveEpoch(w) \/ ClaimEpoch(w) \/ ClaimRevision(w) \/ RecheckEpoch(w)
               \/ StartWrite(w) \/ Confirm(w)
      BY <2>1, UnseenSteps
    <2>2. CASE GiveUp(w) \/ Close(w) \/ EpochFails(w) \/ CallFails(w) \/ Lapse(w)
      BY <2>2, DisturbingSteps DEF Promise!Next
    <2>3. CASE IssueReceipt(w) \/ DropReceipt(w)
      BY <2>3, ReceiptSteps
    <2>4. CASE Advance(w)
      BY <1>2, <2>4, AdvanceGrants
    <2>5. CASE AdvanceUnanswered(w) \/ Refuse(w) \/ Write(w)
      BY <2>5, WriterSteps
    <2>6. QED
      BY <1>2, <2>1, <2>2, <2>3, <2>4, <2>5 DEF Step
  <1>3. ASSUME NEW w \in Workers, NEW j \in Jobs, NEW a \in Accounts, Begin(w, j, a)
        PROVE  [Promise!Next]_Promise!vars
    BY <1>3, UnseenSteps
  <1>4. CASE Restart \/ LoseData
    BY <1>4, DisturbingSteps DEF Promise!Next
  <1>5. ASSUME Persist \/ \E a \in Accounts : Expire(a)
        PROVE  [Promise!Next]_Promise!vars
    <2>1. UNCHANGED <<setting, changes, receipt, pc, target, base, broken, tampered>>
      BY <1>5 DEF Persist, Expire, workerVars, historyVars
    <2>2. Grants' = Grants /\ Reviews' = Reviews
      BY <2>1, SameGrants, SameReviews DEF Writer
    <2>3. QED
      BY <2>1, <2>2 DEF Promise!vars, Grants, Reviews
  <1>6. ASSUME NEW a \in Accounts, EditOnRouter(a) PROVE [Promise!Next]_Promise!vars
    BY <1>6, RouterEdit
  <1>7. ASSUME NEW p \in Processes, Crash(p) PROVE [Promise!Next]_Promise!vars
    BY <1>7, CrashKills
  <1>8. QED
    BY <1>1, <1>2, <1>3, <1>4, <1>5, <1>6, <1>7 DEF Next

\* The coordination implements ReviewedChanges: a receipt is honoured at most once,
\* for the account and the state it was issued for and before any other change, and
\* leads to one write, which replaces that very state.
THEOREM PromiseIsKept == Spec => KeepsPromise
  <1> DEFINE Inv == TypeOK /\ HasRead /\ Exclusion
  <1>1. Init => Promise!Init
    <2>1. Init => /\ Reviews = [w \in Workers |-> NoReceipt]
                  /\ Grants = [w \in Workers |-> NoReceipt]
      BY DEF Init, Reviews, Grants, ReviewOf, GrantOf
    <2>2. QED
      BY <2>1 DEF Init, Promise!Init, Reviews, Grants
  <1>2. Init => AsRead /\ Reviewed /\ Freshness
    BY InitFreshness DEF Init, AsRead, Relying, Reviewed
  <1>3. Inv /\ AsRead /\ [Next]_vars => AsRead'
    BY NextAsRead
  <1>4. Inv /\ Reviewed /\ [Next]_vars => Reviewed'
    BY NextReviewed
  <1>5. Inv /\ Inv' /\ Freshness /\ [Next]_vars => Freshness'
    BY NextMarkersAreFresh, NextObserved, NextOffset, NextClaimed, NextStillCurrent
    DEF Freshness
  <1>6. Inv /\ Inv' /\ AsRead /\ Reviewed /\ Freshness /\ [Next]_vars
        => [Promise!Next]_Promise!vars
    BY NextKeepsPromise
  <1>7. Spec => []Inv
    BY ExclusionHolds
  <1>8. QED
    BY <1>1, <1>2, <1>3, <1>4, <1>5, <1>6, <1>7, PTL DEF Spec, KeepsPromise, Promise!Spec
=============================================================================
