----------------------------- MODULE MCProgress -----------------------------
(***************************************************************************)
(* The components for TLC whose promise is that something comes to pass:   *)
(* the automation worker with a restriction that can be lifted and one     *)
(* that cannot, its limit on the sessions of an account, the collector of  *)
(* sessions, the locks of two requests, the Engine.IO transports of a      *)
(* session, and one /api/events response.  They share no state: a          *)
(* behaviour is about one `part`, the others stay as they began.           *)
(***************************************************************************)
EXTENDS AutomationEnforcement

CONSTANTS Parts,  \* which of the components are explored
          Nobody

VARIABLES part,
          \* SessionLimit
          listed, row, limit, phase, cap, excess, owned, gone, saves, slips,
          \* TelemetrySupervisor
          active, logins, cache, history, stage, leased, open, snap, replies,
          backoff, polled, stop, status, changes, outages,
          \* MutationLocks
          at, keeps, wants, got, half, lease, coordinated,
          \* TransportAdmission
          live, sockets, ledger, req,
          \* LiveResponse
          handler, left, events, pipe, adapter, near, far, lock, browser, revocation

ScheduleAndExpiry == {"schedule", "expired"}
ScheduleOnly == {"schedule"}

Limit == INSTANCE SessionLimit WITH
    Rows <- 1..3, Limits <- {1, 2}, MaxSessions <- 4, MaxSaves <- 1, MaxMishaps <- 1,
    live <- listed, stage <- phase, targets <- excess, mishaps <- slips
Collector == INSTANCE TelemetrySupervisor WITH
    Sessions <- {"s"}, Logins <- {"l", "m"}, NoLogin <- "none", MaxChanges <- 3,
    MaxOutages <- 2, lease <- leased
LockRequests == {"a", "b"}
Lock == INSTANCE MutationLocks WITH
    Requests <- LockRequests, Processes <- {"p", "q"},
    ProcessOf <- [r \in LockRequests |-> "p"],
    Keys <- {1, 2, 3}, Slots <- {0, 1}, SlotOf <- [k \in 0..3 |-> k % 2]
Transport == INSTANCE TransportAdmission WITH
    MaxRequests <- 2, Sessions <- {"s"}, MaxConnections <- 1, MaxPerSession <- 1
Live == INSTANCE LiveResponse WITH Chunks <- 3, Capacity <- 2, MaxEvents <- 3

ASSUME Lock!LockAssumption /\ Live!LiveResponseAssumption

limitVars == <<listed, row, limit, phase, cap, excess, owned, gone, saves, slips>>
collectorVars == <<active, logins, cache, history, stage, leased, open, snap,
                   replies, backoff, polled, stop, status, changes, outages>>
lockVars == <<at, keeps, wants, got, half, lease, coordinated>>
transportVars == <<live, sockets, ledger, req>>
eventVars == <<handler, left, events, pipe, adapter, near, far, lock, browser,
               revocation>>
automationVars == <<vars, limitVars>>
otherVars == <<lockVars, transportVars, eventVars>>
partVars == <<part, automationVars, collectorVars, otherVars>>

PartsInit ==
    /\ part \in Parts
    /\ Init
    /\ Limit!Init /\ (part # "limit" => limit = 1)
    /\ Collector!Init /\ (part # "collector" => active = {})
    /\ Lock!Init /\ (part # "locks" => coordinated)
    /\ Transport!Init
    /\ Live!Init

In(p, A) == part = p /\ A /\ UNCHANGED part
InWorker(A) == In("worker", A) /\ UNCHANGED <<limitVars, collectorVars, otherVars>>
InLimit(A) == In("limit", A) /\ UNCHANGED <<vars, collectorVars, otherVars>>
InCollector(A) == In("collector", A) /\ UNCHANGED <<automationVars, otherVars>>
InLocks(A) ==
    In("locks", A) /\ UNCHANGED <<automationVars, collectorVars, transportVars, eventVars>>
InTransports(A) ==
    In("transports", A) /\ UNCHANGED <<automationVars, collectorVars, lockVars, eventVars>>
InEvents(A) ==
    In("events", A) /\ UNCHANGED <<automationVars, collectorVars, lockVars, transportVars>>

PartsNext ==
    \/ InWorker(Next)
    \/ InLimit(Limit!Next)
    \/ InCollector(Collector!Next)
    \/ InLocks(Lock!Next)
    \/ InTransports(Transport!Next)
    \/ InEvents(Live!Next)

\* The fairness of each component's FairSpec, while it is the one explored.
PartsSpec ==
    /\ PartsInit /\ [][PartsNext]_partVars
    /\ WF_partVars(InWorker(Worker)) /\ WF_partVars(InWorker(Operator))
    /\ WF_partVars(InLimit(Limit!Worker))
    /\ WF_partVars(InCollector(Collector!Thread))
    /\ WF_partVars(InCollector(Collector!Watch))
    /\ WF_partVars(InCollector(Collector!Poll))
    /\ \A r \in LockRequests : WF_partVars(InLocks(Lock!Step(r)))
    /\ \A r \in 1..2 :
         /\ WF_partVars(InTransports(Transport!Due(r) /\ Transport!TaskEnds(r)))
         /\ WF_partVars(InTransports(Transport!Leave(r)))
         /\ WF_partVars(InTransports(Transport!Cancelled(r) \/ Transport!Detach(r)))
         /\ WF_partVars(InTransports(Transport!DetachedEnds(r)))
         /\ WF_partVars(InTransports(Transport!Message(r)))
         /\ WF_partVars(InTransports(Transport!DisconnectDone(r)))
         /\ WF_partVars(InTransports(Transport!EngineDrops(r)))
         /\ WF_partVars(InTransports(Transport!Lapse(r)))
    /\ WF_partVars(InEvents(Live!HandlerStep))
    /\ WF_partVars(InEvents(Live!AdapterStep))
    /\ WF_partVars(InEvents(Live!Collect)) /\ WF_partVars(InEvents(Live!Revoke))

-----------------------------------------------------------------------------
\* Restrictions are enforced and lifted, and the sessions of a restricted account
\* end (automation.py 186-508).
RestrictionsSettle == Enforced /\ SessionsEnd /\ Lifted

\* An account comes down to its session limit, and no session within the limit
\* is ended for it (automation.py 125-178, 517-610).
SessionLimitHolds ==
    /\ [][part = "limit" => Limit!KeepsTheAllowedStep]_partVars
    /\ Limit!LimitHolds

\* The cache and the connection history come to show RouterOS's sessions, and a
\* stop ends the collector's thread (telemetry_supervisor.py 193-396,
\* telemetry_runtime.py 131-220).
CollectorCatchesUp ==
    Collector!CacheCatchesUp /\ Collector!HistoryCatchesUp /\ Collector!StopEnds

\* Every request gets the locks of its accounts or gives up, the quota of
\* Engine.IO connections comes back, and a transport ends with its session; the
\* thread of an event response ends, a revocation gets the lock that its writes
\* and sends hold, and nothing is sent once it has it (app.py 955-980, 3937-4044,
\* asgi.py 424-518, 799-911).
WaitsEnd ==
    /\ Lock!RequestsGetThrough
    /\ Transport!AdmissionComesBack
    /\ Transport!RevokedTransportsEnd
    /\ []<>(part = "events" => handler = "ended")
    /\ Live!RevocationCompletes
    /\ [](part = "events" => Live!NothingSentRevoked)

\* An event response ends after its last event (app.py 3998-4001).
ResponseEnds == Live!ResponseEnds
=============================================================================
