---------------------- MODULE IntegrationOutboxProofs -----------------------
(***************************************************************************)
(* Proofs about IntegrationOutbox, for any number of events, any batch     *)
(* size and any limits: type correctness, the bound on the claims of a     *)
(* row, and that the outbox implements OutboxPromise.                      *)
(***************************************************************************)
EXTENDS IntegrationOutbox, TLAPS


-----------------------------------------------------------------------------
(* Type correctness *)

\* The row the dispatcher has in hand, and those claimed with it, are owed; no
\* other part of the outbox settles them.
InHand ==
    /\ pc \in {"idle", "next"} => current = NoEvent
    /\ pc \notin {"idle", "next"} => current \in Owed \ batch
    /\ batch \subseteq Owed
    /\ pc = "idle" => batch = {}

\* The sinks are points of the dispatcher, and it only goes to such points.
LEMMA SinkPoints ==
  /\ FirstSink \in Sinks
  /\ \A s \in Sinks : AfterSink(s) \in Sinks \cup {"succeeded"}
  /\ Sinks \cap {"idle", "next", "succeeded", "failed"} = {}
  BY SinkAssumption DEF AllSinks, FirstSink, AfterSink

\* The initial state is well typed, with no row in hand.
LEMMA InitTypeOK == Init => TypeOK /\ InHand
  <1> SUFFICES ASSUME Init
               PROVE  TypeOK /\ InHand
    OBVIOUS
  <1>1. row \in [Events -> {"none", "owed", "delivered", "dead", "pruned"}]
        /\ attempts \in [Events -> Nat] /\ got \in [Sinks -> SUBSET Events]
    BY DEF Init
  <1>2. waiting \subseteq Events /\ malformed \subseteq Events /\ batch \subseteq Events
        /\ pc \in Points /\ current \in Events \cup {NoEvent}
    BY DEF Init, Points
  <1>3. tries \in 0..MaxTries /\ streak \in 0..Threshold /\ mishaps \in 0..MaxMishaps
    BY NumberAssumption DEF Init
  <1>4. open \in BOOLEAN
    BY DEF Init
  <1>5. TypeOK
    BY <1>1, <1>2, <1>3, <1>4 DEF TypeOK
  <1>6. InHand
    BY DEF Init, InHand
  <1>7. QED
    BY <1>5, <1>6

\* A step that delivers takes the event in hand.
LEMMA InHandAtSink ==
  ASSUME InHand, NEW s \in Sinks \cup {"succeeded", "failed"}, pc = s
  PROVE  current \in Owed /\ current \in Events /\ current \notin batch
  BY SinkPoints DEF InHand, Owed

\* Every action keeps the types.
LEMMA NextTypeOK == TypeOK /\ InHand /\ [Next]_vars => TypeOK'
  <1> SUFFICES ASSUME TypeOK, InHand, [Next]_vars
               PROVE  TypeOK'
    OBVIOUS
  <1> USE NumberAssumption, SinkPoints DEF TypeOK, Points, rowVars, dispatcherVars
  <1>1. CASE Claim
    BY <1>1 DEF Claim, Oldest, Due, Owed
  <1>2. CASE BatchDone
    BY <1>2 DEF BatchDone
  <1>3. ASSUME NEW e \in Events, DeadLetterMalformed(e)
        PROVE  TypeOK'
    BY <1>3 DEF DeadLetterMalformed
  <1>4. ASSUME NEW e \in Events, Start(e)
        PROVE  TypeOK'
    BY <1>4 DEF Start
  <1>5. ASSUME NEW e \in Events, SettleFails(e)
        PROVE  TypeOK'
    <2>1. open' \in BOOLEAN
      BY <1>5 DEF SettleFails, CountFailure, CloseCircuit
    <2>2. streak' \in 0..Threshold /\ batch' \subseteq Events /\ waiting' \subseteq Events
      BY <1>5 DEF SettleFails, CountFailure, CloseCircuit
    <2>3. QED
      BY <1>5, <2>1, <2>2 DEF SettleFails, Proceed
  <1>6. ASSUME NEW s \in Sinks, Deliver(s)
        PROVE  TypeOK'
    BY <1>6, InHandAtSink DEF Deliver
  <1>7. ASSUME NEW s \in Sinks, Refused(s)
        PROVE  TypeOK'
    BY <1>7 DEF Refused, AfterRefusal
  <1>8. CASE TryAgain
    BY <1>8 DEF TryAgain, TriesLeft
  <1>9. CASE AttemptFails
    BY <1>9, InHandAtSink DEF AttemptFails, CountFailure, Proceed
  <1>10. CASE MarkDelivered
    <2>1. open' \in BOOLEAN
      BY <1>10 DEF MarkDelivered, CloseCircuit
    <2>2. streak' \in 0..Threshold /\ tries' \in 0..MaxTries
      BY <1>10 DEF MarkDelivered, Proceed, CloseCircuit
    <2>3. row' \in [Events -> {"none", "owed", "delivered", "dead", "pruned"}]
      BY <1>10 DEF MarkDelivered
    <2>4. QED
      BY <1>10, <2>1, <2>2, <2>3 DEF MarkDelivered, Proceed
  <1>11. ASSUME NEW new \in SUBSET Events, Audit(new)
         PROVE  TypeOK'
    BY <1>11 DEF Audit
  <1>12. ASSUME NEW e \in Events, Prune(e) \/ Damage(e) \/ ComesDue(e)
         PROVE  TypeOK'
    BY <1>12 DEF Prune, Damage, ComesDue
  <1>13. CASE CircuitCloses \/ Crash
    <2>1. open' \in BOOLEAN
      BY <1>13 DEF CircuitCloses, Crash
    <2>2. QED
      BY <1>13, <2>1 DEF CircuitCloses, Crash
  <1>14. CASE UNCHANGED vars
    BY <1>14 DEF vars
  <1>15. QED
    BY <1>1, <1>2, <1>3, <1>4, <1>5, <1>6, <1>7, <1>8, <1>9, <1>10, <1>11, <1>12, <1>13,
       <1>14 DEF Next, Dispatch

\* Every action leaves the rows in hand owed.
LEMMA NextInHand == TypeOK /\ InHand /\ [Next]_vars => InHand'
  <1> SUFFICES ASSUME TypeOK, InHand, [Next]_vars
               PROVE  InHand'
    OBVIOUS
  <1> USE SinkPoints DEF InHand, Owed, rowVars, dispatcherVars
  <1>1. CASE Claim
    BY <1>1 DEF Claim, Oldest, Due
  <1>2. CASE BatchDone
    BY <1>2 DEF BatchDone
  <1>3. ASSUME NEW e \in Events, DeadLetterMalformed(e)
        PROVE  InHand'
    BY <1>3 DEF DeadLetterMalformed, TypeOK
  <1>4. ASSUME NEW e \in Events, Start(e)
        PROVE  InHand'
    BY <1>4 DEF Start, First
  <1>5. ASSUME NEW e \in Events, SettleFails(e)
        PROVE  InHand'
    BY <1>5 DEF SettleFails, Proceed
  <1>6. ASSUME NEW s \in Sinks, Deliver(s) \/ Refused(s)
        PROVE  InHand'
    BY <1>6 DEF Deliver, Refused, AfterRefusal
  <1>7. CASE TryAgain
    BY <1>7 DEF TryAgain
  <1>8. CASE AttemptFails
    BY <1>8, InHandAtSink DEF AttemptFails, CountFailure, Proceed, TypeOK
  <1>9. CASE MarkDelivered
    BY <1>9, InHandAtSink DEF MarkDelivered, Proceed, TypeOK
  <1>10. ASSUME NEW new \in SUBSET Events, Audit(new)
         PROVE  InHand'
    BY <1>10 DEF Audit
  <1>11. ASSUME NEW e \in Events, Prune(e)
         PROVE  InHand'
    BY <1>11 DEF Prune, Prunable, TypeOK
  <1>12. ASSUME NEW e \in Events, Damage(e) \/ ComesDue(e)
         PROVE  InHand'
    BY <1>12 DEF Damage, ComesDue
  <1>13. CASE CircuitCloses \/ Crash
    BY <1>13 DEF CircuitCloses, Crash
  <1>14. CASE UNCHANGED vars
    BY <1>14 DEF vars
  <1>15. QED
    BY <1>1, <1>2, <1>3, <1>4, <1>5, <1>6, <1>7, <1>8, <1>9, <1>10, <1>11, <1>12, <1>13,
       <1>14 DEF Next, Dispatch

LEMMA WellTyped == Spec => [](TypeOK /\ InHand)
  BY InitTypeOK, NextTypeOK, NextInHand, PTL DEF Spec

\* The outbox stays well typed.
THEOREM TypeCorrect == Spec => []TypeOK
  BY WellTyped, PTL

-----------------------------------------------------------------------------
(* The bound on claims *)

\* A row that may be claimed again has an attempt left, but for those that
\* crashes and storage failures cost it.
AttemptLeft ==
    \A e \in Events : row[e] \in {"none", "owed"} /\ e \notin batch \cup {current}
                        => attempts[e] < MaxAttempts + mishaps

\* Only a claim counts an attempt, and only of a row with one left; only a
\* failure short of the limit, a crash or a storage failure gives a row back.
LEMMA NextClaimsBounded ==
  ASSUME TypeOK, InHand, AttemptLeft, ClaimsBounded, [Next]_vars
  PROVE  AttemptLeft' /\ ClaimsBounded'
  <1> USE NumberAssumption DEF TypeOK, AttemptLeft, ClaimsBounded, rowVars, dispatcherVars
  <1>1. CASE Claim
    <2>1. \A e \in Oldest : e \in Events /\ row[e] = "owed" /\ e \notin batch \cup {current}
      BY <1>1 DEF Claim, InHand, Oldest, Due, Owed, Events, NoEvent
    <2>2. QED
      BY <1>1, <2>1 DEF Claim, InHand
  <1>2. CASE BatchDone
    BY <1>2 DEF BatchDone
  <1>3. ASSUME NEW e \in Events, DeadLetterMalformed(e)
        PROVE  AttemptLeft' /\ ClaimsBounded'
    BY <1>3 DEF DeadLetterMalformed
  <1>4. ASSUME NEW e \in Events, Start(e)
        PROVE  AttemptLeft' /\ ClaimsBounded'
    BY <1>4 DEF Start, InHand, Events, NoEvent
  <1>5. ASSUME NEW e \in Events, SettleFails(e)
        PROVE  AttemptLeft' /\ ClaimsBounded'
    <2>1. attempts' = attempts /\ mishaps' = mishaps + 1
      BY <1>5 DEF SettleFails
    <2>2. \A f \in Events : attempts[f] < MaxAttempts + mishaps'
      BY <2>1
    <2>3. QED
      BY <2>1, <2>2
  <1>6. ASSUME NEW s \in Sinks, Deliver(s) \/ Refused(s)
        PROVE  AttemptLeft' /\ ClaimsBounded'
    BY <1>6 DEF Deliver, Refused
  <1>7. CASE TryAgain
    BY <1>7 DEF TryAgain
  <1>8. CASE AttemptFails
    BY <1>8, InHandAtSink DEF AttemptFails, CountFailure, Proceed, Exhausted
  <1>9. CASE MarkDelivered
    BY <1>9, InHandAtSink DEF MarkDelivered, Proceed
  <1>10. ASSUME NEW new \in SUBSET Events, Audit(new)
         PROVE  AttemptLeft' /\ ClaimsBounded'
    BY <1>10 DEF Audit
  <1>11. ASSUME NEW e \in Events, Prune(e) \/ Damage(e) \/ ComesDue(e)
         PROVE  AttemptLeft' /\ ClaimsBounded'
    BY <1>11 DEF Prune, Damage, ComesDue
  <1>12. CASE CircuitCloses
    BY <1>12 DEF CircuitCloses
  <1>13. CASE Crash
    BY <1>13 DEF Crash
  <1>14. CASE UNCHANGED vars
    BY <1>14 DEF vars
  <1>15. QED
    BY <1>1, <1>2, <1>3, <1>4, <1>5, <1>6, <1>7, <1>8, <1>9, <1>10, <1>11, <1>12, <1>13,
       <1>14 DEF Next, Dispatch

\* However long a sink refuses, a row is claimed at most as often as the limit
\* says, and once more for each crash or storage failure.
THEOREM ClaimsAreBounded == Spec => []ClaimsBounded
  <1>1. Init => AttemptLeft /\ ClaimsBounded
    BY NumberAssumption DEF Init, AttemptLeft, ClaimsBounded
  <1>2. QED
    BY <1>1, WellTyped, NextClaimsBounded, PTL DEF Spec

-----------------------------------------------------------------------------
(* The outbox implements OutboxPromise *)

\* A row on its way to be marked delivered is with every sink it has passed.
Delivered ==
    /\ pc = "redis" /\ "webhook" \in Sinks => current \in got["webhook"]
    /\ pc = "succeeded" => \A s \in Sinks : current \in got[s]

\* A sink takes the event before the dispatcher goes on to the next.
LEMMA NextDelivered == TypeOK /\ InHand /\ Delivered /\ [Next]_vars => Delivered'
  <1> SUFFICES ASSUME TypeOK, InHand, Delivered, [Next]_vars
               PROVE  Delivered'
    OBVIOUS
  <1> USE SinkAssumption DEF AllSinks, Delivered, rowVars, dispatcherVars
  <1>1. CASE Claim \/ BatchDone
    BY <1>1 DEF Claim, BatchDone
  <1>2. ASSUME NEW e \in Events, DeadLetterMalformed(e) \/ SettleFails(e)
        PROVE  Delivered'
    BY <1>2 DEF DeadLetterMalformed, SettleFails, Proceed
  <1>3. ASSUME NEW e \in Events, Start(e)
        PROVE  Delivered'
    BY <1>3 DEF Start, FirstSink
  <1>4. ASSUME NEW s \in Sinks, Deliver(s)
        PROVE  Delivered'
    BY <1>4 DEF Deliver, AfterSink, TypeOK
  <1>5. ASSUME NEW s \in Sinks, Refused(s)
        PROVE  Delivered'
    BY <1>5 DEF Refused, AfterRefusal
  <1>6. CASE TryAgain
    BY <1>6 DEF TryAgain, FirstSink
  <1>7. CASE AttemptFails \/ MarkDelivered
    BY <1>7 DEF AttemptFails, MarkDelivered, Proceed
  <1>8. ASSUME NEW new \in SUBSET Events, Audit(new)
        PROVE  Delivered'
    BY <1>8 DEF Audit
  <1>9. ASSUME NEW e \in Events, Prune(e) \/ Damage(e) \/ ComesDue(e)
        PROVE  Delivered'
    BY <1>9 DEF Prune, Damage, ComesDue
  <1>10. CASE CircuitCloses \/ Crash
    BY <1>10 DEF CircuitCloses, Crash
  <1>11. CASE UNCHANGED vars
    BY <1>11 DEF vars
  <1>12. QED
    BY <1>1, <1>2, <1>3, <1>4, <1>5, <1>6, <1>7, <1>8, <1>9, <1>10, <1>11 DEF Next, Dispatch

\* The states of a row as the promise sees them.
Status == [e \in Events |-> IF row[e] = "pruned" THEN "forgotten" ELSE row[e]]

\* A step on one row is a step on its status.
LEMMA StatusOfOne ==
  ASSUME TypeOK, NEW e \in Events, NEW v \in {"delivered", "dead"},
         row' = [row EXCEPT ![e] = v]
  PROVE  Status' = [Status EXCEPT ![e] = v]
  BY DEF Status, TypeOK

\* A step that leaves the rows and the sinks alone is a stutter of the promise.
LEMMA PromiseStutters ==
  ASSUME UNCHANGED <<row, got>>
  PROVE  UNCHANGED Promise!vars
  BY DEF Promise!vars

\* Every step of the outbox is a step of the promise or a stutter.
LEMMA NextKeepsPromise ==
  ASSUME TypeOK, InHand, Delivered, [Next]_vars
  PROVE  [Promise!Next]_Promise!vars
  <1> USE DEF rowVars, dispatcherVars
  <1>1. CASE Claim \/ BatchDone \/ TryAgain \/ CircuitCloses \/ Crash \/ UNCHANGED vars
    <2>1. UNCHANGED <<row, got>>
      BY <1>1 DEF Claim, BatchDone, TryAgain, CircuitCloses, Crash, vars
    <2>2. QED
      BY <2>1, PromiseStutters
  <1>2. ASSUME NEW e \in Events, Start(e) \/ SettleFails(e) \/ Damage(e) \/ ComesDue(e)
        PROVE  [Promise!Next]_Promise!vars
    <2>1. UNCHANGED <<row, got>>
      BY <1>2 DEF Start, SettleFails, Damage, ComesDue
    <2>2. QED
      BY <2>1, PromiseStutters
  <1>3. ASSUME NEW s \in Sinks, Refused(s)
        PROVE  [Promise!Next]_Promise!vars
    <2>1. UNCHANGED <<row, got>>
      BY <1>3 DEF Refused
    <2>2. QED
      BY <2>1, PromiseStutters
  <1>4. ASSUME NEW e \in Events, DeadLetterMalformed(e)
        PROVE  [Promise!Next]_Promise!vars
    <2>1. row[e] = "owed"
      BY <1>4 DEF DeadLetterMalformed, First, InHand, Owed
    <2>2. Status' = [Status EXCEPT ![e] = "dead"] /\ got' = got
      BY <1>4, StatusOfOne DEF DeadLetterMalformed
    <2>3. Promise!SetAside(e)
      BY <2>1, <2>2 DEF Promise!SetAside, Status
    <2>4. QED
      BY <2>3 DEF Promise!Next
  <1>5. ASSUME NEW s \in Sinks, Deliver(s)
        PROVE  [Promise!Next]_Promise!vars
    <2>1. current \in Events /\ row[current] = "owed"
      BY <1>5, InHandAtSink DEF Deliver, Owed
    <2>2. row' = row /\ got' = [got EXCEPT ![s] = @ \cup {current}]
      BY <1>5 DEF Deliver
    <2>3. Promise!Accept(s, current)
      BY <2>1, <2>2 DEF Promise!Accept
    <2>4. QED
      BY <2>1, <2>3 DEF Promise!Next
  <1>6. CASE AttemptFails
    <2>1. PICK e \in Events : e = current /\ row[e] = "owed"
      BY <1>6, InHandAtSink DEF AttemptFails, CountFailure, Owed
    <2>2. CASE row' = row
      BY <1>6, <2>2, PromiseStutters DEF AttemptFails
    <2>3. CASE row' = [row EXCEPT ![e] = "dead"]
      <3>1. Status' = [Status EXCEPT ![e] = "dead"] /\ got' = got
        BY <1>6, <2>3, StatusOfOne DEF AttemptFails
      <3>2. Promise!SetAside(e)
        BY <2>1, <3>1 DEF Promise!SetAside, Status
      <3>3. QED
        BY <3>2 DEF Promise!Next
    <2>4. QED
      BY <1>6, <2>1, <2>2, <2>3 DEF AttemptFails
  <1>7. CASE MarkDelivered
    <2>1. PICK e \in Events : e = current /\ row[e] = "owed"
      BY <1>7, InHandAtSink DEF MarkDelivered, Owed
    <2>2. Status' = [Status EXCEPT ![e] = "delivered"] /\ got' = got
      BY <1>7, <2>1, StatusOfOne DEF MarkDelivered
    <2>3. \A s \in Sinks : e \in got[s]
      BY <1>7, <2>1 DEF MarkDelivered, Delivered
    <2>4. Promise!Settle(e)
      BY <2>1, <2>2, <2>3 DEF Promise!Settle, Status
    <2>5. QED
      BY <2>4 DEF Promise!Next
  <1>8. ASSUME NEW new \in SUBSET Events, Audit(new)
        PROVE  [Promise!Next]_Promise!vars
    <2>1. Status' = [e \in Events |-> IF e \in new THEN "owed" ELSE Status[e]] /\ got' = got
      BY <1>8 DEF Audit, Status
    <2>2. \A e \in new : Status[e] = "none"
      BY <1>8 DEF Audit, Status
    <2>3. Promise!Owe(new)
      BY <2>1, <2>2 DEF Promise!Owe, Status
    <2>4. QED
      BY <2>3 DEF Promise!Next
  <1>9. ASSUME NEW e \in Events, Prune(e)
        PROVE  [Promise!Next]_Promise!vars
    <2>1. row[e] \in {"delivered", "dead"}
      BY <1>9 DEF Prune, Prunable
    <2>2. Status' = [Status EXCEPT ![e] = "forgotten"] /\ got' = got
      BY <1>9 DEF Prune, Status, TypeOK
    <2>3. Promise!Forget(e)
      BY <2>1, <2>2 DEF Promise!Forget, Status
    <2>4. QED
      BY <2>3 DEF Promise!Next
  <1>10. QED
    BY <1>1, <1>2, <1>3, <1>4, <1>5, <1>6, <1>7, <1>8, <1>9 DEF Next, Dispatch

\* An audited event is owed until every sink has accepted it or it is set aside:
\* the outbox implements OutboxPromise.
THEOREM PromiseIsKept == Spec => KeepsPromise
  <1>1. Init => Promise!Init
    BY DEF Init, Promise!Init
  <1>2. Init => Delivered
    BY DEF Init, Delivered
  <1>3. QED
    BY <1>1, <1>2, WellTyped, NextDelivered, NextKeepsPromise, PTL
    DEF Spec, KeepsPromise, Promise!Spec
=============================================================================
