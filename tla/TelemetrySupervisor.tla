------------------------ MODULE TelemetrySupervisor ------------------------
(***************************************************************************)
(* The collector of active sessions (telemetry_supervisor.py, with its     *)
(* wiring in telemetry_runtime.py and the connection it reads,             *)
(* routeros_binary.py): it leases the credentials of a dashboard login,    *)
(* connects, reconciles the broker's cache with a snapshot, then applies   *)
(* the changes RouterOS reports, until the stream ends, the login does or  *)
(* the dashboard stops; then it backs off and starts over.  Beside it the  *)
(* REST poll of automation.py reads the same sessions, and both write the  *)
(* connection history of store.py.                                         *)
(*                                                                         *)
(* RouterOS reports a change only to a stream that is listening.  What     *)
(* becomes of the cache's events is TelemetryStream.                       *)
(***************************************************************************)
EXTENDS Naturals, Sequences

CONSTANTS Sessions,     \* sessions RouterOS may list
          Logins,       \* dashboard logins, each an authorization reference
          NoLogin,
          MaxChanges,   \* bound on changes of the router's sessions
          MaxOutages    \* bound on failures of RouterOS and of the history

VARIABLES active,     \* the sessions RouterOS lists
          logins,     \* dashboard logins that are active
          cache,      \* the broker's sessions
          history,    \* the sessions with an open row in connection_history
          stage,      \* of the supervisor's thread
          lease,      \* the login its connection was opened with
          open,       \* the connection is open
          snap,       \* the snapshot it read
          replies,    \* changes reported on the stream and not yet read
          backoff,    \* doublings of the delay, up to a cap
          polled,     \* the REST poll: what it read, when it has
          stop,       \* the stop event
          status,     \* as health() shows it
          changes, outages

collector == <<stage, lease, open, snap, backoff>>
vars == <<active, logins, cache, history, stage, lease, open, snap, replies, backoff,
          polled, stop, status, changes, outages>>

Cap == 2
NoPoll == [read |-> FALSE, list |-> {}]

Init ==
  /\ active \in SUBSET Sessions /\ logins = Logins
  /\ cache = {} /\ history = {}
  /\ stage = "start" /\ lease = NoLogin /\ open = FALSE /\ snap = {} /\ replies = <<>>
  /\ backoff = 0 /\ polled = NoPoll
  /\ stop = FALSE /\ status = "stopped"
  /\ changes = 0 /\ outages = 0

-----------------------------------------------------------------------------
Outage == outages < MaxOutages /\ outages' = outages + 1
Smooth == UNCHANGED outages
Authorized == lease \in logins

\* Mutant: the thread waits on an event of its own.
StopSeenNever == FALSE
StopSeen == stop

\* run_forever: an attempt that raises closes its connection and backs off.
Fails ==
  /\ open' = FALSE /\ lease' = NoLogin /\ replies' = <<>> /\ snap' = {}
  /\ stage' = "backoff" /\ status' = "degraded"
  /\ backoff' = IF backoff < Cap THEN backoff + 1 ELSE backoff
  /\ UNCHANGED <<cache, history>>

\* run_attempt: a login is chosen, checked against RouterOS, and connected with.
Attempt ==
  /\ stage = "start" /\ ~StopSeen
  /\ \/ /\ \E l \in logins : lease' = l
        /\ open' = TRUE /\ stage' = "snapshot" /\ status' = "connecting" /\ Smooth
        /\ UNCHANGED <<snap, replies, backoff, cache, history>>
     \/ logins = {} /\ Fails /\ Smooth
     \/ Fails /\ Outage
  /\ UNCHANGED <<active, logins, polled, stop, changes>>

\* _session_snapshot, between two looks at the login
ReadSnapshot ==
  /\ stage = "snapshot"
  /\ \/ /\ open /\ Authorized /\ Smooth
        /\ snap' = active /\ stage' = "reconcile"
        /\ UNCHANGED <<lease, open, replies, backoff, status, cache, history>>
     \/ ~(open /\ Authorized) /\ Fails /\ Smooth
     \/ Fails /\ Outage
  /\ UNCHANGED <<active, logins, polled, stop, changes>>

\* _dispatch_authorized_events: the login is active while the cache changes.
MayDispatch == Authorized

\* _publish of the snapshot
Reconcile ==
  /\ stage = "reconcile"
  /\ \/ /\ MayDispatch
        /\ cache' = snap /\ stage' = "persist"
        /\ UNCHANGED <<lease, open, snap, replies, backoff, status, history>>
     \/ ~MayDispatch /\ Fails
  /\ UNCHANGED <<active, logins, polled, stop, changes, outages>>

\* Mutant: the history only ever gains rows.
ObservedAdded(list) == history \cup list
\* observe_sessions: rows are opened, and closed when their session is not listed.
Observed(list) == list

\* _persist_session_snapshot: its failure is noted and stops nothing.
Persist ==
  /\ stage = "persist"
  /\ \/ history' = Observed(snap) /\ Smooth
     \/ UNCHANGED history /\ Outage
  /\ stage' = "listen" /\ status' = "healthy" /\ backoff' = 0 /\ snap' = {}
  /\ UNCHANGED <<active, logins, cache, lease, open, replies, polled, stop, changes>>

\* listen: from here on RouterOS reports changes on the stream.
Listen ==
  /\ stage = "listen"
  /\ \/ /\ open /\ stage' = "listening" /\ Smooth
        /\ UNCHANGED <<lease, open, snap, replies, backoff, status, cache, history>>
     \/ ~open /\ Fails /\ Smooth
     \/ Fails /\ Outage
  /\ UNCHANGED <<active, logins, polled, stop, changes>>

Ended ==
  /\ stage' = "ended" /\ open' = FALSE /\ lease' = NoLogin /\ replies' = <<>>
  /\ snap' = {} /\ status' = "stopped"
  /\ UNCHANGED <<cache, history, backoff>>

\* One reply: the stop event and the login are looked at, then it is applied.
Reply ==
  /\ stage = "listening" /\ open /\ replies # <<>>
  /\ \/ StopSeen /\ Ended
     \/ /\ ~StopSeen /\ MayDispatch
        /\ cache' = IF Head(replies).up THEN cache \cup {Head(replies).of}
                    ELSE cache \ {Head(replies).of}
        /\ replies' = Tail(replies)
        /\ UNCHANGED <<history, stage, lease, open, snap, backoff, status>>
     \/ ~StopSeen /\ ~MayDispatch /\ Fails
  /\ UNCHANGED <<active, logins, polled, stop, changes, outages>>

\* Mutant: the socket waits for a reply for ever.
GivesUpNever == FALSE
\* The socket's timeout: a stream on which nothing comes for a while is given up,
\* which brings the next snapshot.
GivesUp == replies = <<>>
StreamEnds ==
  /\ stage = "listening"
  /\ \/ ~open /\ Fails /\ Smooth
     \/ GivesUp /\ Fails /\ Smooth
     \/ Fails /\ Outage
  /\ UNCHANGED <<active, logins, polled, stop, changes>>

\* _watch_authorization closes the connection of a login that has ended.
Watch ==
  /\ open /\ ~Authorized
  /\ open' = FALSE
  /\ UNCHANGED <<active, logins, cache, history, stage, lease, snap, replies, backoff,
                 polled, stop, status, changes, outages>>

\* The wait for the delay ends with it or with the stop event.
AfterWait ==
  /\ \/ StopSeen /\ stage' = "ended" /\ status' = "stopped"
     \/ ~StopSeen /\ stage' = "start" /\ UNCHANGED status
  /\ UNCHANGED <<open, lease, replies, snap, backoff>>
Wake ==
  /\ stage = "backoff" /\ AfterWait
  /\ UNCHANGED <<active, logins, cache, history, polled, stop, changes, outages>>

\* The stop event is seen before an attempt begins.
Stopped ==
  /\ stage = "start" /\ StopSeen /\ Ended
  /\ UNCHANGED <<active, logins, polled, stop, changes, outages>>

-----------------------------------------------------------------------------
(* The REST poll of the automation thread writes the same history.         *)

PollRead ==
  /\ ~polled.read /\ ~stop /\ logins # {}
  /\ polled' = [read |-> TRUE, list |-> active]
  /\ UNCHANGED <<active, logins, cache, history, collector, replies, stop, status,
                 changes, outages>>
PollStore ==
  /\ polled.read
  /\ history' = Observed(polled.list)
  /\ polled' = NoPoll
  /\ UNCHANGED <<active, logins, cache, collector, replies, stop, status, changes, outages>>

-----------------------------------------------------------------------------
(* RouterOS, the dashboard's users, its shutdown.                          *)

Change(s) ==
  /\ changes < MaxChanges /\ changes' = changes + 1
  /\ active' = IF s \in active THEN active \ {s} ELSE active \cup {s}
  /\ replies' = IF stage = "listening" /\ open
                  THEN Append(replies, [of |-> s, up |-> s \notin active]) ELSE replies
  /\ UNCHANGED <<logins, cache, history, collector, polled, stop, status, outages>>

LoginEnds(l) ==
  /\ l \in logins /\ logins' = logins \ {l}
  /\ UNCHANGED <<active, cache, history, collector, replies, polled, stop, status,
                 changes, outages>>

\* stop() sets the event and the status; the thread may still set its own.
Stop ==
  /\ ~stop /\ stop' = TRUE /\ status' = "stopped"
  /\ UNCHANGED <<active, logins, cache, history, collector, replies, polled, changes,
                 outages>>

Thread == Attempt \/ ReadSnapshot \/ Reconcile \/ Persist \/ Listen \/ Reply \/ StreamEnds
            \/ Wake \/ Stopped
Poll == PollRead \/ PollStore

Next ==
  \/ Thread \/ Watch \/ Poll
  \/ \E s \in Sessions : Change(s)
  \/ \E l \in Logins : LoginEnds(l)
  \/ Stop

Spec == Init /\ [][Next]_vars

\* Both threads keep running, the socket's timeout and the delays pass, and the
\* poll comes round.
Fairness == WF_vars(Thread) /\ WF_vars(Watch) /\ WF_vars(Poll)
FairSpec == Spec /\ Fairness

-----------------------------------------------------------------------------
(* What it promises.                                                       *)

\* Once the router's sessions stay as they are, the cache comes to show them,
\* though a change between the snapshot and the listening is reported to nobody:
\* while there is a login to ask with, and until the dashboard stops.
CacheCatchesUp == <>[](cache = active \/ logins = {} \/ stop)

\* The history comes to show them too, though the poll and the collector write it
\* with lists of different ages.
HistoryCatchesUp == <>[](history = active \/ logins = {} \/ stop)

\* A stop is final: the thread ends, and the status it may have set after the
\* stop is put right.
StopEnds == <>[](stop => stage = "ended" /\ status = "stopped" /\ ~open)
=============================================================================
