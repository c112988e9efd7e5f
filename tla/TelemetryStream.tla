--------------------------- MODULE TelemetryStream --------------------------
(***************************************************************************)
(* Live telemetry, from the broker to the browser: the supervisor and the  *)
(* interface sampler (telemetry_supervisor.py) change the broker's cache   *)
(* (telemetry_broker.py) and publish its events to the gateway's bounded   *)
(* replay window (telemetry_gateway.py), from which the pump and the       *)
(* subscribe handler of each Socket.IO client (asgi.py, NativeSocketIO)    *)
(* poll frames and emit them one at a time.                                *)
(*                                                                         *)
(* A producer changes the broker and publishes under the session store's   *)
(* lock, so dispatches exclude each other and the end of a dashboard       *)
(* session; a poll takes the gateway's lock only, and comes between.       *)
(* VPN sessions and interfaces are both items with one counter; what       *)
(* RouterOS reports of them is any report it could make.                   *)
(***************************************************************************)
EXTENDS Naturals, Sequences, FiniteSets, SequencesExt

CONSTANTS
    Ids,            \* RouterOS ids of VPN sessions
    Interfaces,     \* sampled interfaces
    Ghost,          \* a session a browser still shows from an earlier process
    Logins,         \* dashboard sessions: they lend credentials and own clients
    Clients,        \* Socket.IO ids
    Absent,         \* an item that is not there
    Unobserved,     \* a counter the router's record omits
    Nobody,         \* no dashboard session
    MaxCount,       \* bound on counters
    MaxSessions,    \* the broker's limit on sessions
    MaxReplay,      \* the gateway's limit on retained frames
    MaxSize,        \* its limit on their size, and on the size of one
    MaxClients,     \* its limit on subscriptions
    MaxSequence     \* bound on the broker's sequence numbers

ASSUME CountAssumption == Absent \notin Nat /\ Unobserved \notin Nat /\ Absent # Unobserved
ASSUME ItemAssumption == Ghost \notin Ids /\ Ids \cap Interfaces = {} /\ Ghost \notin Interfaces
ASSUME LoginAssumption == Nobody \notin Logins
ASSUME LimitAssumption ==
    /\ {MaxCount, MaxSequence} \subseteq Nat
    /\ {MaxSessions, MaxReplay, MaxSize, MaxClients} \subseteq Nat \ {0}

Items == Ids \cup {Ghost} \cup Interfaces
Counts == 0..MaxCount
Records == Counts \cup {Unobserved, Absent}
Tasks == {"pump", "subscribe"}

VARIABLES
    \* the dashboard sessions that are still good
    active,
    \* TelemetryBroker
    cache,          \* its sessions and interfaces, with their counters
    sequence,
    outgoing,       \* events of a dispatch that has yet to publish them
    \* TelemetryGatewayContract
    window,         \* _events
    cursor, bound,  \* last_seen_sequence and client_cursor_seen of each client
    \* NativeSocketIO
    owner,          \* the dashboard session of each client, or Nobody
    pump,           \* whether its pump runs, has ended, or there is none
    batch,          \* frames polled by its pump and by subscribe, not emitted
    \* history
    shown,          \* what the frames emitted so far tell a client
    newest,         \* the highest sequence number among them
    overtaken,      \* a frame came after one of a higher number
    evicted         \* items the broker dropped without an event

brokerVars == <<cache, sequence, outgoing, evicted>>
clientVars == <<cursor, bound, owner, pump, batch, shown, newest, overtaken>>
vars == <<active, brokerVars, window, clientVars>>

Nothing == [x \in Items |-> Absent]
NoFrames == [t \in Tasks |-> <<>>]
Present == {x \in Items : cache[x] # Absent}

\* An event: its name, its number, and what it says of which items.  A
\* snapshot speaks of all of them.
Event(name, tells) == [name |-> name, sequence |-> 0, tells |-> tells]
One(x, c) == [y \in {x} |-> c]
Applied(view, e) == [x \in Items |-> IF x \in DOMAIN e.tells THEN e.tells[x] ELSE view[x]]

Init ==
    /\ active = Logins
    /\ cache = Nothing /\ sequence = 0 /\ outgoing = <<>> /\ evicted = {}
    /\ window = <<>>
    /\ cursor = [s \in Clients |-> 0] /\ bound = [s \in Clients |-> FALSE]
    /\ owner = [s \in Clients |-> Nobody] /\ pump = [s \in Clients |-> "off"]
    /\ batch = [s \in Clients |-> NoFrames]
    /\ shown = [s \in Clients |-> Nothing] /\ newest = [s \in Clients |-> 0]
    /\ overtaken = [s \in Clients |-> FALSE]
-----------------------------------------------------------------------------
(* TelemetryBroker *)

\* A counter the record omits keeps its last value; a new item's is zero.
Counter(x, record) ==
    CASE record # Unobserved -> record
      [] cache[x] # Absent   -> cache[x]
      [] OTHER               -> 0

\* The events of an item now seen with counter c: a reset first, if it fell.
Seen(x, c, name) ==
    (IF cache[x] # Absent /\ c < cache[x] THEN <<Event("counter_reset", <<>>)>> ELSE <<>>)
        \o <<Event(name, One(x, c))>>

Arrival(x) == IF cache[x] = Absent THEN "connected" ELSE "updated"

\* The broker takes a change and its events, under the lock of the session
\* store and while the session that lent its credentials is good.  Publish
\* lets go of the lock.
Mutate(now, events) ==
    /\ active # {} /\ outgoing = <<>>
    /\ sequence + Len(events) <= MaxSequence
    /\ cache' = now
    /\ sequence' = sequence + Len(events)
    /\ outgoing' = [i \in DOMAIN events |-> [events[i] EXCEPT !.sequence = sequence + i]]
    /\ UNCHANGED <<active, window, clientVars>>

\* What reconcile makes of a list of the router's sessions.
Reconciled(records) ==
    [x \in Items |-> CASE x \notin Ids          -> cache[x]
                       [] records[x] = Absent -> Absent
                       [] OTHER               -> Counter(x, records[x])]

ReconcileEvents(now) ==
    LET gone == {x \in Present \ Interfaces : now[x] = Absent}
        here == {x \in Items \ Interfaces : now[x] # Absent}
    IN  FlattenSeq([i \in 1..Cardinality(gone) |->
                        <<Event("disconnected", One(SetToSeq(gone)[i], Absent))>>])
        \o FlattenSeq([i \in 1..Cardinality(here) |->
                        LET x == SetToSeq(here)[i] IN Seen(x, now[x], Arrival(x))])
        \o <<Event("snapshot", now)>>

\* A list of more sessions than the limit is refused.
Reconcile(records) ==
    /\ Cardinality({x \in Ids : records[x] # Absent}) <= MaxSessions
    /\ Mutate(Reconciled(records), ReconcileEvents(Reconciled(records)))
    /\ evicted' = {}

\* A session over the limit makes one leave, without an event: the oldest by
\* the wall clock, which may step back.
Overflow(x) ==
    LET held == (Present \ Interfaces) \cup {x}
    IN  IF Cardinality(held) <= MaxSessions THEN {{}} ELSE {{y} : y \in held}

ApplyDead(x) ==
    /\ Mutate([cache EXCEPT ![x] = Absent],
              IF cache[x] = Absent THEN <<>> ELSE <<Event("disconnected", One(x, Absent))>>)
    /\ UNCHANGED evicted

Apply(x, record) ==
    LET c == Counter(x, record)
    IN  \E gone \in Overflow(x) :
           /\ Mutate([y \in Items |-> IF y \in gone THEN Absent
                                      ELSE IF y = x THEN c ELSE cache[y]],
                     Seen(x, c, Arrival(x)))
           /\ evicted' = (evicted \ {x}) \cup gone

\* Interfaces a sample does not mention leave the broker without an event.
SampleEvents(sample) ==
    LET here == {x \in Interfaces : sample[x] # Absent}
    IN  FlattenSeq([i \in 1..Cardinality(here) |->
            LET x == SetToSeq(here)[i] IN Seen(x, sample[x], "counters")])

ReconcileInterfaces(sample) ==
    /\ Mutate([x \in Items |-> IF x \in Interfaces THEN sample[x] ELSE cache[x]],
              SampleEvents(sample))
    /\ evicted' = {x \in evicted \cup (Present \cap Interfaces) :
                      x \in Interfaces => sample[x] = Absent}
-----------------------------------------------------------------------------
(* TelemetryGatewayContract *)

\* The size of a frame: that of a snapshot grows with what it holds.
Size(e) ==
    IF e.name = "snapshot" THEN 1 + Cardinality({x \in Items : e.tells[x] # Absent}) ELSE 1
TotalSize(frames) == FoldLeft(LAMBDA n, e : n + Size(e), 0, frames)
Sendable(e) == Size(e) <= MaxSize

\* Mutant: room is made only once the limits have been passed.
RetainedLate(frames, e) ==
    IF Len(frames) > MaxReplay \/ TotalSize(frames) > MaxSize THEN Append(Tail(frames), e)
    ELSE Append(frames, e)

\* The oldest frames make room for a new one.
Retained(frames, e) ==
    LET keeps(i) == LET kept == SubSeq(frames, i, Len(frames)) \o <<e>>
                    IN  Len(kept) <= MaxReplay /\ TotalSize(kept) <= MaxSize
        first == CHOOSE i \in 1..(Len(frames) + 1) :
                     keeps(i) /\ \A j \in 1..(i - 1) : ~keeps(j)
    IN  SubSeq(frames, first, Len(frames)) \o <<e>>

\* publish stops at the first frame it cannot build.
Publishable(events) ==
    LET bad == {i \in DOMAIN events : ~Sendable(events[i])}
    IN  IF bad = {} THEN events
        ELSE SubSeq(events, 1, (CHOOSE i \in bad : \A j \in bad : i <= j) - 1)

Recovery == [name |-> "snapshot", sequence |-> sequence, tells |-> cache]

Replay(s) ==
    SortSeq(SelectSeq(window, LAMBDA e : e.sequence > cursor[s]),
            LAMBDA d, e : d.sequence < e.sequence)

\* Mutant: only the oldest retained frame is compared with the cursor, and a
\* frame that was never published is not missed.
CompleteFromHead(s) == window = <<>> \/ Head(window).sequence <= cursor[s] + 1

\* Mutant: whatever the window holds is all that happened.
CompleteAlways(s) == TRUE

\* Every number from the cursor to the broker's is there.
Complete(s) == {e.sequence : e \in ToSet(Replay(s))} = (cursor[s] + 1)..sequence

\* The first cursor a client sends may be of an earlier process.
Unbound(s, explicit) == explicit /\ ~bound[s]

Polled(s, explicit) ==
    IF Unbound(s, explicit) \/ ~Complete(s) THEN <<Recovery>> ELSE Replay(s)

NextCursor(s, frames) ==
    IF frames = <<>> THEN cursor[s]
    ELSE CHOOSE n \in {e.sequence : e \in ToSet(frames)} :
             \A e \in ToSet(frames) : e.sequence <= n

\* A poll by task t of client s.  It raises when the recovery snapshot is too
\* large, and then changes nothing.
Raises(s, explicit) == \E i \in DOMAIN Polled(s, explicit) : ~Sendable(Polled(s, explicit)[i])

Poll(s, t, explicit) ==
    /\ batch' = [batch EXCEPT ![s][t] = Polled(s, explicit)]
    /\ cursor' = [cursor EXCEPT ![s] = NextCursor(s, Polled(s, explicit))]
    /\ bound' = [bound EXCEPT ![s] = @ \/ explicit]

\* When a frame cannot be built, the rest of the dispatch is lost.
Publish ==
    /\ outgoing # <<>>
    /\ window' = FoldLeft(Retained, window, Publishable(outgoing))
    /\ outgoing' = <<>>
    /\ UNCHANGED <<active, cache, sequence, evicted, clientVars>>
-----------------------------------------------------------------------------
(* NativeSocketIO *)

\* A page may have been there before and show a session of an earlier process:
\* here it does.
Open(s, r) ==
    /\ owner[s] = Nobody /\ r \in active
    /\ Cardinality({c \in Clients : owner[c] # Nobody}) < MaxClients
    /\ owner' = [owner EXCEPT ![s] = r]
    /\ pump' = [pump EXCEPT ![s] = "on"]
    /\ shown' = [shown EXCEPT ![s] = [Nothing EXCEPT ![Ghost] = 0]]
    /\ UNCHANGED <<active, brokerVars, window, cursor, bound, batch, newest, overtaken>>

Closed(s) ==
    /\ owner' = [owner EXCEPT ![s] = Nobody]
    /\ pump' = [pump EXCEPT ![s] = "off"]
    /\ batch' = [batch EXCEPT ![s] = NoFrames]
    /\ cursor' = [cursor EXCEPT ![s] = 0]
    /\ bound' = [bound EXCEPT ![s] = FALSE]
    /\ shown' = [shown EXCEPT ![s] = Nothing]
    /\ newest' = [newest EXCEPT ![s] = 0]
    /\ overtaken' = [overtaken EXCEPT ![s] = FALSE]

\* The client leaves, or an emission fails or is refused.
Close(s) ==
    /\ owner[s] # Nobody
    /\ Closed(s)
    /\ UNCHANGED <<active, brokerVars, window>>

\* The pump's next round.  A poll that raises ends it and nothing else.
PumpPoll(s) ==
    /\ pump[s] = "on" /\ batch[s]["pump"] = <<>>
    /\ IF Raises(s, FALSE)
       THEN pump' = [pump EXCEPT ![s] = "ended"] /\ UNCHANGED <<batch, cursor, bound>>
       ELSE Poll(s, "pump", FALSE) /\ UNCHANGED pump
    /\ UNCHANGED <<active, brokerVars, window, owner, shown, newest, overtaken>>

\* The pump finds the session gone, and disconnects.
PumpRefused(s) ==
    /\ pump[s] = "on" /\ owner[s] \notin active
    /\ Close(s)

\* telemetry.subscribe, with or without a cursor.
Subscribe(s, explicit) ==
    /\ owner[s] \in active /\ batch[s]["subscribe"] = <<>>
    /\ ~Raises(s, explicit)
    /\ Poll(s, "subscribe", explicit)
    /\ UNCHANGED <<active, brokerVars, window, owner, pump, shown, newest, overtaken>>

\* _emit_authorized holds the session's role lock from the last check until
\* the frame has gone.
Emit(s, t) ==
    /\ batch[s][t] # <<>> /\ owner[s] \in active
    /\ LET e == Head(batch[s][t])
       IN  /\ shown' = [shown EXCEPT ![s] = Applied(@, e)]
           /\ newest' = [newest EXCEPT ![s] = IF e.sequence > @ THEN e.sequence ELSE @]
           /\ overtaken' = [overtaken EXCEPT ![s] =
                 IF e.sequence < newest[s] THEN TRUE ELSE @ /\ e.name # "snapshot"]
    /\ batch' = [batch EXCEPT ![s][t] = Tail(@)]
    /\ UNCHANGED <<active, brokerVars, window, cursor, bound, owner, pump>>

EmitRefused(s, t) ==
    /\ batch[s][t] # <<>> /\ owner[s] \notin active
    /\ Close(s)

\* A dashboard session ends: logout, expiry or revocation.
EndLogin(r) ==
    /\ r \in active /\ outgoing = <<>>
    /\ active' = active \ {r}
    /\ UNCHANGED <<brokerVars, window, clientVars>>
-----------------------------------------------------------------------------
Producers ==
    \/ \E records \in [Ids -> Records] : Reconcile(records)
    \/ \E x \in Ids : ApplyDead(x) \/ \E c \in Counts \cup {Unobserved} : Apply(x, c)
    \/ \E sample \in [Interfaces -> Counts \cup {Absent}] : ReconcileInterfaces(sample)

Client(s) ==
    \/ PumpPoll(s) \/ PumpRefused(s)
    \/ \E t \in Tasks : Emit(s, t) \/ EmitRefused(s, t)

Next ==
    \/ Producers \/ Publish
    \/ \E r \in Logins : EndLogin(r)
    \/ \E s \in Clients :
          \/ Client(s) \/ Close(s)
          \/ \E r \in Logins : Open(s, r)
          \/ \E explicit \in BOOLEAN : Subscribe(s, explicit)

Spec == Init /\ [][Next]_vars

\* A dispatch publishes what it has begun, and the pumps run; RouterOS and
\* browsers may stay silent for ever.
FairSpec ==
    /\ Spec
    /\ WF_vars(Publish)
    /\ \A s \in Clients : WF_vars(Client(s))
-----------------------------------------------------------------------------
(* Properties *)

IsEvent(e) ==
    /\ e.name \in {"connected", "updated", "disconnected", "snapshot", "counters",
                   "counter_reset"}
    /\ e.sequence \in 0..MaxSequence
    /\ DOMAIN e.tells \subseteq Items
    /\ \A x \in DOMAIN e.tells : e.tells[x] \in Counts \cup {Absent}

\* Types, and the limits on what is retained: the broker's on sessions and the
\* gateway's on frames and their size (telemetry_broker.py apply and reconcile,
\* telemetry_gateway.py publish).
TypeOK ==
    /\ active \subseteq Logins
    /\ cache \in [Items -> Counts \cup {Absent}] /\ evicted \subseteq Items
    /\ Cardinality(Present \ Interfaces) <= MaxSessions
    /\ sequence \in 0..MaxSequence
    /\ \A e \in ToSet(outgoing) \cup ToSet(window) : IsEvent(e)
    /\ Len(window) <= MaxReplay /\ TotalSize(window) <= MaxSize
    /\ cursor \in [Clients -> 0..MaxSequence] /\ newest \in [Clients -> 0..MaxSequence]
    /\ bound \in [Clients -> BOOLEAN] /\ overtaken \in [Clients -> BOOLEAN]
    /\ owner \in [Clients -> Logins \cup {Nobody}]
    /\ pump \in [Clients -> {"off", "on", "ended"}]
    /\ \A s \in Clients, t \in Tasks : \A e \in ToSet(batch[s][t]) : IsEvent(e)
    /\ shown \in [Clients -> [Items -> Counts \cup {Absent}]]

\* A client that has been sent all it polled, and has polled all there is,
\* knows the broker's sessions and interfaces with their counters: no event
\* is skipped in silence when the window has moved on or has a hole, or when
\* a poll comes between a change and its publication.  Excepted is a client that was
\* sent two frames in the wrong order, until its next snapshot (overtaken).  It may
\* still show what the broker dropped without an event and, unless it sent a cursor,
\* a session of an earlier process (telemetry_gateway.py poll).
ShownIsExact ==
    \A s \in Clients, x \in Items :
        (/\ owner[s] # Nobody /\ batch[s] = NoFrames
         /\ cursor[s] = sequence /\ ~overtaken[s])
        => \/ shown[s][x] = cache[x]
           \/ cache[x] = Absent /\ (x \in evicted \/ (x = Ghost /\ ~bound[s]))

\* A client whose pump runs is sent all that has happened, or leaves, or its
\* pump ends (asgi.py _pump): no poll or publication leaves it behind for good.
CatchesUp ==
    \A s \in Clients :
        []<>(pump[s] = "on" => cursor[s] = sequence /\ batch[s]["pump"] = <<>>)
=============================================================================
