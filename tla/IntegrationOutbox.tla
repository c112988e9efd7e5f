------------------------- MODULE IntegrationOutbox --------------------------
(***************************************************************************)
(* The durable outbox of integration events: the rows that store.py writes *)
(* with the audit records, claims, settles and prunes, and the dispatcher  *)
(* thread of integrations.py that delivers them to the webhook and to the  *)
(* Redis stream, with its retries, its attempt limit and its circuit       *)
(* breaker.                                                                *)
(*                                                                         *)
(* One action is one SQLite transaction or one call to a sink.  Between    *)
(* two of them handlers audit more events, time passes, old rows are       *)
(* pruned, and the process may die; the rows survive it, the dispatcher's  *)
(* memory does not.  One process, and so one dispatcher, uses the file.    *)
(***************************************************************************)
EXTENDS Naturals, FiniteSets

CONSTANTS
    MaxEvents,     \* bound on events audited
    Together,      \* most events one audit_many writes
    Sinks,         \* the sinks configured, of AllSinks
    BatchSize,     \* rows one claim takes
    MaxAttempts,   \* _max_outbox_attempts
    MaxTries,      \* deliveries tried per attempt
    Threshold,     \* _circuit_threshold
    MaxMishaps     \* bound on crashes, storage failures and damaged rows

AllSinks == {"webhook", "redis"}

ASSUME SinkAssumption == Sinks \subseteq AllSinks /\ Sinks # {}
ASSUME NumberAssumption ==
    /\ MaxEvents \in Nat /\ MaxMishaps \in Nat
    /\ Together \in Nat \ {0} /\ BatchSize \in Nat \ {0}
    /\ MaxAttempts \in Nat \ {0} /\ MaxTries \in Nat \ {0} /\ Threshold \in Nat \ {0}

Events == 1..MaxEvents          \* in the order of created_at, then of their rows
NoEvent == 0

VARIABLES
    \* integration_outbox
    row,          \* "none", "owed", "delivered", "dead" or "pruned"
    attempts,     \* claims counted on a row
    waiting,      \* rows owed whose next_attempt_at lies ahead
    malformed,    \* rows whose payload cannot be decoded
    \* the dispatcher
    pc,           \* what it does next
    batch,        \* the claimed rows it has not come to
    current,      \* the row it is at
    tries,        \* deliveries of it tried in this attempt
    streak,       \* _failure_streak
    open,         \* _circuit_open_until lies ahead
    \* the sinks
    got,          \* the events each has accepted
    mishaps       \* read by no guard but the bound

rowVars == <<row, attempts, waiting, malformed>>
dispatcherVars == <<pc, batch, current, tries, streak, open>>
vars == <<rowVars, dispatcherVars, got, mishaps>>

Points == {"idle", "next", "succeeded", "failed"} \cup Sinks

Init ==
    /\ row = [e \in Events |-> "none"]
    /\ attempts = [e \in Events |-> 0]
    /\ waiting = {} /\ malformed = {}
    /\ pc = "idle" /\ batch = {} /\ current = NoEvent
    /\ tries = 0 /\ streak = 0 /\ open = FALSE
    /\ got = [s \in Sinks |-> {}]
    /\ mishaps = 0

Owed == {e \in Events : row[e] = "owed"}

-----------------------------------------------------------------------------
(* store.py: audit_many, prune_history *)

\* The audit records and their outbox rows, in one transaction.  created_at was
\* read before the lock: a later transaction may write older events.
Audit(new) ==
    /\ new # {} /\ Cardinality(new) <= Together
    /\ \A e \in new : row[e] = "none"
    /\ row' = [e \in Events |-> IF e \in new THEN "owed" ELSE row[e]]
    /\ UNCHANGED <<attempts, waiting, malformed, dispatcherVars, got, mishaps>>

Prunable(e) == row[e] \in {"delivered", "dead"}

Prune(e) ==
    /\ Prunable(e)
    /\ row' = [row EXCEPT ![e] = "pruned"]
    /\ UNCHANGED <<attempts, waiting, malformed, dispatcherVars, got, mishaps>>

\* The row was damaged on disk: its payload no longer decodes to an object.
Damage(e) ==
    /\ row[e] = "owed" /\ e \notin malformed
    /\ e \notin batch \cup {current}
    /\ mishaps < MaxMishaps
    /\ mishaps' = mishaps + 1
    /\ malformed' = malformed \cup {e}
    /\ UNCHANGED <<row, attempts, waiting, dispatcherVars, got>>

-----------------------------------------------------------------------------
(* pending_integration_events: claim the oldest rows that are due *)

\* Mutant: a row that failed is not claimed again.
Untried == {e \in Owed \ waiting : attempts[e] = 0}
Due == Owed \ waiting

Oldest == {e \in Due : Cardinality({f \in Due : f < e}) < BatchSize}

Claim ==
    /\ pc = "idle"
    /\ ~open
    /\ Due # {}
    /\ batch' = Oldest
    /\ attempts' = [e \in Events |-> IF e \in Oldest THEN attempts[e] + 1 ELSE attempts[e]]
    /\ waiting' = waiting \cup Oldest
    /\ pc' = "next"
    /\ UNCHANGED <<row, malformed, current, tries, streak, open, got, mishaps>>

BatchDone ==
    /\ pc = "next" /\ batch = {}
    /\ pc' = "idle"
    /\ UNCHANGED <<rowVars, batch, current, tries, streak, open, got, mishaps>>

-----------------------------------------------------------------------------
(* _dispatch_outbox_batch: one row after the other, oldest first *)

First(e) == e \in batch /\ \A f \in batch : e <= f

\* Go on with the rest of the batch.
Proceed == /\ pc' = "next"
           /\ current' = NoEvent
           /\ tries' = 0

\* A row that cannot be decoded is set aside without a delivery.
DeadLetterMalformed(e) ==
    /\ pc = "next" /\ First(e)
    /\ e \in malformed
    /\ row' = [row EXCEPT ![e] = "dead"]
    /\ waiting' = waiting \ {e}
    /\ batch' = batch \ {e}
    /\ UNCHANGED <<attempts, malformed, pc, current, tries, streak, open, got, mishaps>>

\* _deliver: the webhook, then Redis, where they are configured.
FirstSink == IF "webhook" \in Sinks THEN "webhook" ELSE "redis"
AfterSink(s) == IF s = "webhook" /\ "redis" \in Sinks THEN "redis" ELSE "succeeded"

Start(e) ==
    /\ pc = "next" /\ First(e)
    /\ e \notin malformed
    /\ batch' = batch \ {e}
    /\ current' = e
    /\ tries' = 1
    /\ pc' = FirstSink
    /\ UNCHANGED <<rowVars, streak, open, got, mishaps>>

\* The sink accepts the event; its answer may be lost.
Deliver(s) ==
    /\ pc = s
    /\ got' = [got EXCEPT ![s] = @ \cup {current}]
    /\ pc' \in {AfterSink(s), "failed"}
    /\ UNCHANGED <<rowVars, batch, current, tries, streak, open, mishaps>>

\* Mutant: the error of a sink is swallowed.
Swallowed(s) == AfterSink(s)
AfterRefusal(s) == "failed"

\* The sink could not be reached, or refused.
Refused(s) ==
    /\ pc = s
    /\ pc' = AfterRefusal(s)
    /\ UNCHANGED <<rowVars, batch, current, tries, streak, open, got, mishaps>>

\* Mutant: one try too many.
OneTryMore == tries <= MaxTries
TriesLeft == tries < MaxTries

\* _deliver_with_retries tries again, from the first sink, ...
TryAgain ==
    /\ pc = "failed"
    /\ TriesLeft
    /\ tries' = tries + 1
    /\ pc' = FirstSink
    /\ UNCHANGED <<rowVars, batch, current, streak, open, got, mishaps>>

\* ... and fails: one more failure for the circuit breaker, ...
CountFailure ==
    /\ pc = "failed"
    /\ tries = MaxTries
    /\ streak' = IF streak < Threshold THEN streak + 1 ELSE streak
    /\ open' = (open \/ streak' = Threshold)

\* Mutant: the limit is passed by one.
ExhaustedLate(e) == attempts[e] > MaxAttempts
Exhausted(e) == attempts[e] >= MaxAttempts

\* ... and a later attempt for the row, or its end.  What is left of the batch is
\* tried all the same.
AttemptFails ==
    /\ CountFailure
    /\ \/ /\ Exhausted(current)
          /\ row' = [row EXCEPT ![current] = "dead"]
          /\ waiting' = waiting \ {current}
       \/ /\ ~Exhausted(current)
          /\ waiting' = waiting \cup {current}
          /\ UNCHANGED row
    /\ Proceed
    /\ UNCHANGED <<attempts, malformed, batch, got, mishaps>>

CloseCircuit == streak' = 0 /\ open' = FALSE

MarkDelivered ==
    /\ pc = "succeeded"
    /\ CloseCircuit
    /\ row' = [row EXCEPT ![current] = "delivered"]
    /\ waiting' = waiting \ {current}
    /\ Proceed
    /\ UNCHANGED <<attempts, malformed, batch, got, mishaps>>

\* SQLite fails where a row was to be settled: it is put off, or if that fails
\* too stays claimed until it is due, whether it was delivered or not.
SettleFails(e) ==
    /\ mishaps < MaxMishaps
    /\ mishaps' = mishaps + 1
    /\ \/ pc = "succeeded" /\ e = current /\ CloseCircuit /\ UNCHANGED batch
       \/ e = current /\ CountFailure /\ UNCHANGED batch
       \/ /\ pc = "next" /\ First(e) /\ e \in malformed
          /\ batch' = batch \ {e}
          /\ UNCHANGED <<streak, open>>
    /\ waiting' \in {waiting, waiting \cup {e}}
    /\ Proceed
    /\ UNCHANGED <<row, attempts, malformed, got>>

-----------------------------------------------------------------------------
(* Time and crashes *)

\* next_attempt_at is reached: the claim of 60 s or the backoff is over.
ComesDue(e) ==
    /\ e \in waiting
    /\ waiting' = waiting \ {e}
    /\ UNCHANGED <<row, attempts, malformed, dispatcherVars, got, mishaps>>

CircuitCloses ==
    /\ open
    /\ open' = FALSE
    /\ UNCHANGED <<rowVars, pc, batch, current, tries, streak, got, mishaps>>

\* The process dies or stops in the middle of a batch, and starts again.
Crash ==
    /\ mishaps < MaxMishaps
    /\ mishaps' = mishaps + 1
    /\ pc' = "idle" /\ batch' = {} /\ current' = NoEvent
    /\ tries' = 0 /\ streak' = 0 /\ open' = FALSE
    /\ UNCHANGED <<rowVars, got>>

-----------------------------------------------------------------------------
Dispatch ==
    \/ Claim \/ BatchDone
    \/ \E e \in Events : DeadLetterMalformed(e) \/ Start(e) \/ SettleFails(e)
    \/ \E s \in Sinks : Deliver(s) \/ Refused(s)
    \/ TryAgain \/ AttemptFails \/ MarkDelivered

Next ==
    \/ Dispatch
    \/ \E new \in SUBSET Events : Audit(new)
    \/ \E e \in Events : Prune(e) \/ Damage(e) \/ ComesDue(e)
    \/ CircuitCloses
    \/ Crash

Spec == Init /\ [][Next]_vars

\* The dispatcher keeps running and time passes.  Nothing is asked of the sinks.
FairSpec ==
    /\ Spec
    /\ WF_vars(Dispatch)
    /\ \A e \in Events : WF_vars(ComesDue(e))
    /\ WF_vars(CircuitCloses)

-----------------------------------------------------------------------------
(* Properties *)

TypeOK ==
    /\ row \in [Events -> {"none", "owed", "delivered", "dead", "pruned"}]
    /\ attempts \in [Events -> Nat]
    /\ waiting \subseteq Events /\ malformed \subseteq Events
    /\ pc \in Points
    /\ batch \subseteq Events
    /\ current \in Events \cup {NoEvent}
    /\ tries \in 0..MaxTries /\ streak \in 0..Threshold /\ open \in BOOLEAN
    /\ got \in [Sinks -> SUBSET Events]
    /\ mishaps \in 0..MaxMishaps

\* Attempts, claims and the breaker hidden, the outbox keeps OutboxPromise: an
\* audited event is owed until every configured sink has accepted it or it is
\* set aside, through crashes, lost answers and storage failures.
Promise == INSTANCE OutboxPromise WITH
    status <- [e \in Events |-> IF row[e] = "pruned" THEN "forgotten" ELSE row[e]]

KeepsPromise == Promise!Spec

\* A sink that keeps refusing an event is not asked for ever: a row is claimed at
\* most _max_outbox_attempts times, and once more for each crash or storage
\* failure.
ClaimsBounded == \A e \in Events : attempts[e] <= MaxAttempts + mishaps

\* Every audited event is settled: delivered, or set aside when the sinks keep
\* refusing it or its row is damaged; a poisoned event holds up no other.
EventsSettle == \A e \in Events : []<>(row[e] # "owed")
=============================================================================
