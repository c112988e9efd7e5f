--------------------------- MODULE OutboxPromise ----------------------------
(***************************************************************************)
(* What the integration outbox promises about an audited event, without    *)
(* attempts, claims, backoff or circuit breaker: it is owed from the       *)
(* moment its audit record is written until every sink has accepted it or  *)
(* it is set aside, and it is forgotten only after that.  A sink may       *)
(* accept an event more than once.                                         *)
(***************************************************************************)
EXTENDS Naturals

CONSTANTS Events, Sinks

VARIABLES
    status,     \* of each event
    got         \* the events each sink has accepted

vars == <<status, got>>

Statuses == {"none", "owed", "delivered", "dead", "forgotten"}

Init ==
    /\ status = [e \in Events |-> "none"]
    /\ got = [s \in Sinks |-> {}]

\* Events audited together become owed together.
Owe(S) ==
    /\ \A e \in S : status[e] = "none"
    /\ status' = [e \in Events |-> IF e \in S THEN "owed" ELSE status[e]]
    /\ UNCHANGED got

Accept(s, e) ==
    /\ status[e] = "owed"
    /\ got' = [got EXCEPT ![s] = @ \cup {e}]
    /\ UNCHANGED status

Settle(e) ==
    /\ status[e] = "owed"
    /\ \A s \in Sinks : e \in got[s]
    /\ status' = [status EXCEPT ![e] = "delivered"]
    /\ UNCHANGED got

SetAside(e) ==
    /\ status[e] = "owed"
    /\ status' = [status EXCEPT ![e] = "dead"]
    /\ UNCHANGED got

Forget(e) ==
    /\ status[e] \in {"delivered", "dead"}
    /\ status' = [status EXCEPT ![e] = "forgotten"]
    /\ UNCHANGED got

Next ==
    \/ \E S \in SUBSET Events : Owe(S)
    \/ \E e \in Events :
        \/ \E s \in Sinks : Accept(s, e)
        \/ Settle(e) \/ SetAside(e) \/ Forget(e)

Spec == Init /\ [][Next]_vars
=============================================================================
