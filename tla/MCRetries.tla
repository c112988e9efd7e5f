----------------------------- MODULE MCRetries ------------------------------
(***************************************************************************)
(* The components that retry in the background, for TLC: the dispatcher of *)
(* the outbox with both sinks, and the session store, whose retry thread   *)
(* carries out the revocations that the event loop put off.  They share no *)
(* state: a behaviour is about one `part`, the other stays as it began.    *)
(***************************************************************************)
EXTENDS IntegrationOutbox

CONSTANTS Threads, Accounts, Kinds, Nobody, Limit, Established, MaxRequests

VARIABLES part,
          \* SessionStore
          live, info, nextId, expired, stale, setLock, checkLock, denials,
          generation, postponed, step, req, marked, requests, begun, barrier,
          revoked, missing

BothSinks == AllSinks

Store == INSTANCE SessionStore WITH pending <- postponed, pc <- step

storeVars == <<live, info, nextId, expired, stale, setLock, checkLock, denials,
               generation, postponed, step, req, marked, requests, begun, barrier,
               revoked, missing>>
partVars == <<part, vars, storeVars>>

PartsInit == part \in {"dispatcher", "store"} /\ Init /\ Store!Init

InDispatcher(A) == part = "dispatcher" /\ A /\ UNCHANGED <<part, storeVars>>
InStore(A) == part = "store" /\ A /\ UNCHANGED <<part, vars>>

PartsNext == InDispatcher(Next) \/ InStore(Store!Next)

\* The fairness of each component's FairSpec, while it is the one explored.
PartsSpec ==
    /\ PartsInit /\ [][PartsNext]_partVars
    /\ WF_partVars(InDispatcher(Dispatch))
    /\ \A e \in Events : WF_partVars(InDispatcher(ComesDue(e)))
    /\ WF_partVars(InDispatcher(CircuitCloses))
    /\ \A t \in Store!AllThreads : WF_partVars(InStore(Store!Step(t)))
    /\ \A t \in Threads : SF_partVars(InStore(Store!GiveUp(t)))
    /\ \A a \in Accounts :
         WF_partVars(InStore(Store!Retry(a))) /\ WF_partVars(InStore(Store!CountOff(a)))

-----------------------------------------------------------------------------
\* Every request of the session store ends, whatever locks it has to wait for, and
\* no account stays denied: a revocation put off is carried out (security.py
\* 398-480, 984-1160).
StoreSettles == Store!RequestsEnd /\ Store!DenialsEnd
=============================================================================
