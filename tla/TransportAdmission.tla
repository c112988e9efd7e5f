------------------------- MODULE TransportAdmission -------------------------
(***************************************************************************)
(* SocketIOLiveSendASGI (asgi.py): which Engine.IO transports a dashboard  *)
(* session may open, and how long each is counted against the quota.  A    *)
(* request reserves a slot before Engine.IO opens a socket for it, turns   *)
(* the slot into a binding when the open packet passes, and every way out  *)
(* (a normal end, a close packet, a timeout, a cancelled handler that will *)
(* not stop, a revoked login) has to give back exactly what it took.       *)
(*                                                                         *)
(* An action is what the event loop does between two awaits.  A socket is  *)
(* named after the request that opened it: Engine.IO never uses an id      *)
(* twice, so the branches for an id bound to another session are left out. *)
(***************************************************************************)
EXTENDS Naturals, FiniteSets

CONSTANTS MaxRequests,    \* requests of a run
          Sessions, Nobody,
          MaxConnections, MaxPerSession

VARIABLES live,     \* sessions that are active
          sockets,  \* Engine.IO's socket table
          ledger,   \* what the adapter keeps of each socket
          req       \* the request handlers

vars == <<live, sockets, ledger, req>>

Requests == 1..MaxRequests  \* in the order they arrive

\* Ids of sessions and sockets are not Nobody.
TransportAssumption ==
  /\ {MaxRequests, MaxConnections, MaxPerSession} \subseteq Nat
  /\ Nobody \notin Sessions /\ Nobody \notin Requests

New == {"polling", "direct"}
WebSocket == {"direct", "upgrade"}

Fresh == [kind |-> "none", session |-> Nobody, sid |-> Nobody, stage |-> "idle",
          task |-> "none", slot |-> FALSE, told |-> FALSE, guard |-> FALSE,
          closes |-> FALSE, invalid |-> FALSE, revoked |-> FALSE]

Init ==
  /\ live = Sessions
  /\ sockets = {}
  /\ ledger = [bound |-> [s \in Requests |-> Nobody],
               guards |-> {},  \* _active_websocket_sids
               upgrades |-> [s \in Requests |-> 0],
               torn |-> {},    \* _engineio_teardown_completed
               slots |-> {},   \* _pending_engine_handshakes
               tearing |-> {}, \* _engineio_disconnect_tasks
               owing |-> {}]   \* slots those tasks release when they end
  /\ req = [r \in Requests |-> Fresh]

-----------------------------------------------------------------------------
(* The ledger.                                                             *)

Counted(L, who) == {s \in Requests : L.bound[s] \in who}
                     \cup {r \in L.slots : req[r].session \in who}
Admits(session) ==
  /\ Cardinality(Counted(ledger, Sessions)) < MaxConnections
  /\ Cardinality(Counted(ledger, {session})) < MaxPerSession

\* Mutant: the upgrade handlers of the socket are not waited for.
ReleasedAtOnce(L, s) ==
  [L EXCEPT !.bound[s] = Nobody, !.guards = @ \ {s}, !.torn = @ \ {s}]
Released(L, s) ==
  IF L.bound[s] # Nobody /\ L.upgrades[s] > 0
  THEN [L EXCEPT !.torn = @ \cup {s}]
  ELSE [L EXCEPT !.bound[s] = Nobody, !.guards = @ \ {s}, !.torn = @ \ {s}]

UpgradeEnded(L, s) ==
  LET fewer == [L EXCEPT !.upgrades[s] = @ - 1] IN
  IF fewer.upgrades[s] = 0 /\ s \in L.torn
  THEN Released([fewer EXCEPT !.torn = @ \ {s}], s) ELSE fewer

\* Mutant: the slot is given back when the teardown begins.
TeardownFreed(L, s, slot) ==
  [L EXCEPT !.tearing = @ \cup {s}, !.slots = IF slot THEN @ \ {s} ELSE @]
Teardown(L, s, slot) ==
  [L EXCEPT !.tearing = @ \cup {s}, !.owing = IF slot THEN @ \cup {s} ELSE @]

\* schedule_failed_handshake_sid_cleanup, for a socket whose id is known.
Cleanup(L, r) ==
  LET me == req[r] IN
  IF me.sid \in L.torn
  THEN [L EXCEPT !.slots = IF me.slot THEN @ \ {r} ELSE @]
  ELSE Teardown(L, me.sid, me.slot)

\* The finally clause of a request whose handler has ended.  cleaned: a
\* teardown was scheduled before, which then owns the slot.
\* Mutant: only a close packet takes the claim on the WebSocket back.
UnguardedOnClose(L, r) ==
  [L EXCEPT !.guards = IF req[r].guard /\ req[r].closes THEN @ \ {req[r].sid} ELSE @]
Unguarded(L, r) ==
  [L EXCEPT !.guards = IF req[r].guard THEN @ \ {req[r].sid} ELSE @]
Closed(L, r, cleaned) ==
  IF req[r].closes /\ ~cleaned /\ req[r].sid # Nobody THEN Released(L, req[r].sid) ELSE L
Finally(L, r, cleaned) ==
  LET me == req[r]
      free == IF me.slot /\ ~cleaned THEN [L EXCEPT !.slots = @ \ {r}] ELSE L
      again == me.revoked /\ ~cleaned
      swept == IF again THEN Cleanup(free, r) ELSE free
      ended == Closed(Unguarded(swept, r), r, cleaned \/ again)
  IN IF me.kind = "upgrade" THEN UpgradeEnded(ended, me.sid) ELSE ended

-----------------------------------------------------------------------------
(* Requests.                                                               *)

Arrives(r) == req[r].stage = "idle" /\ \A q \in 1..(r - 1) : req[q].stage # "idle"
Over(r) == [req EXCEPT ![r] = [Fresh EXCEPT !.session = req[r].session, !.stage = "over"]]

Served(kind, session, sid) ==
  [Fresh EXCEPT !.kind = kind, !.session = session, !.sid = sid, !.stage = "serving",
                !.task = "running", !.slot = (kind \in New)]

\* A new handshake reserves a slot, or is refused with 429.
Connect(r, kind, session) ==
  /\ Arrives(r) /\ session \in live /\ Admits(session)
  /\ ledger' = [ledger EXCEPT !.slots = @ \cup {r}]
  /\ req' = [req EXCEPT ![r] = Served(kind, session, Nobody)]
  /\ UNCHANGED <<live, sockets>>

Poll(r, s) ==
  /\ Arrives(r) /\ ledger.bound[s] \in live
  /\ req' = [req EXCEPT ![r] = Served("poll", ledger.bound[s], s)]
  /\ UNCHANGED <<live, sockets, ledger>>

Upgrade(r, s) ==
  /\ Arrives(r) /\ ledger.bound[s] \in live
  /\ s \notin ledger.tearing \cup ledger.torn
  /\ ledger' = [ledger EXCEPT !.upgrades[s] = @ + 1]
  /\ req' = [req EXCEPT ![r] = Served("upgrade", ledger.bound[s], s)]
  /\ UNCHANGED <<live, sockets>>

\* A poll of a revoked session only helps to end its transport.
PollRevoked(r, s) ==
  /\ Arrives(r) /\ ledger.bound[s] \in Sessions \ live
  /\ ledger' = Teardown(ledger, s, FALSE)
  /\ req' = Over(r)
  /\ UNCHANGED <<live, sockets>>

\* Engine.IO opens the socket, and tells its id before the open packet.
EngineOpens(r) ==
  /\ req[r].kind \in New /\ req[r].task = "running" /\ req[r].sid = Nobody
  /\ sockets' = sockets \cup {r}
  /\ req' = [req EXCEPT ![r].sid = r]
  /\ UNCHANGED <<live, ledger>>

\* ensure_active_engine_sid: a WebSocket message passes only for an active
\* session whose binding stands.
\* Mutant: the session is not asked, only the binding.
RefreshUnasked(r, L) ==
  LET fails == L.bound[req[r].sid] = Nobody
  IN [closes |-> fails, revoked |-> FALSE]
Refresh(r, L) ==
  LET gone == req[r].session \notin live
  IN [closes |-> gone \/ L.bound[req[r].sid] = Nobody, revoked |-> gone]

Refreshed(r, L, me) ==
  LET seen == Refresh(r, L) IN
  IF me.kind \in WebSocket /\ seen.closes
  THEN [me EXCEPT !.invalid = TRUE, !.closes = TRUE, !.revoked = seen.revoked] ELSE me

\* The open packet passes: the slot becomes a binding.
SendOpen(r) ==
  LET me == req[r]
      direct == me.kind = "direct"
      L == [ledger EXCEPT !.slots = @ \ {r}, !.bound[r] = me.session,
                          !.guards = IF direct THEN @ \cup {r} ELSE @]
  IN /\ me.kind \in New /\ me.sid = r /\ ~me.told
     /\ me.stage = "serving" /\ me.task = "running"
     /\ ledger' = L
     /\ req' = [req EXCEPT ![r] = Refreshed(r, L,
                  [me EXCEPT !.told = TRUE, !.slot = FALSE, !.guard = direct])]
     /\ UNCHANGED <<live, sockets>>

\* An upgrade is accepted, unless another WebSocket has the socket.
Accept(r) ==
  LET me == req[r]
      seen == Refreshed(r, ledger, me)
      taken == me.sid \in ledger.guards
  IN /\ me.kind = "upgrade" /\ me.stage = "serving" /\ me.task = "running"
     /\ ~me.guard /\ ~me.invalid
     /\ IF seen.invalid THEN req' = [req EXCEPT ![r] = seen] /\ UNCHANGED ledger
        ELSE /\ req' = [req EXCEPT ![r].guard = ~taken, ![r].invalid = taken]
             /\ ledger' = [ledger EXCEPT !.guards = @ \cup {me.sid}]
     /\ UNCHANGED <<live, sockets>>

\* A later message of a WebSocket, in either direction.
Message(r) ==
  LET seen == Refreshed(r, ledger, req[r]) IN
  /\ req[r].guard /\ req[r].stage = "serving" /\ req[r].task = "running"
  /\ ~req[r].invalid /\ seen.invalid
  /\ req' = [req EXCEPT ![r] = seen]
  /\ UNCHANGED <<live, sockets, ledger>>

\* A close packet passes, or the client of a direct WebSocket is gone.
SeesClose(r) ==
  /\ req[r].stage = "serving" /\ req[r].task = "running" /\ ~req[r].closes
  /\ ~req[r].invalid
  /\ req[r].told \/ req[r].guard \/ req[r].kind = "poll"
  /\ req' = [req EXCEPT ![r].closes = TRUE]
  /\ UNCHANGED <<live, sockets, ledger>>

\* The Engine.IO handler returns.  A close packet, and the end of a direct
\* WebSocket, end the socket; a cancelled handler may leave it behind.
TaskEnds(r) ==
  LET me == req[r]
      ends == me.stage = "serving" /\ ((me.kind = "direct" /\ me.told)
                                       \/ (me.closes /\ ~me.invalid))
  IN /\ me.task = "running" /\ me.stage # "detached"
     /\ \/ sockets' = sockets \ {me.sid}
        \/ ~ends /\ UNCHANGED sockets
     /\ req' = [req EXCEPT ![r].task = "done"]
     /\ UNCHANGED <<live, ledger>>

\* The request returns after its handler.
Leave(r) ==
  LET me == req[r]
      failed == me.kind \in New /\ ~me.told /\ me.sid # Nobody
  IN /\ me.stage = "serving" /\ me.task = "done"
     /\ ledger' = Finally(IF failed THEN Cleanup(ledger, r) ELSE ledger, r, failed)
     /\ req' = Over(r)
     /\ UNCHANGED <<live, sockets>>

\* The handshake times out, a buffer overflows, the handler raises, or the
\* client gives the request up: the handler is cancelled.
Cut(r) ==
  /\ req[r].stage = "serving"
  /\ req' = [req EXCEPT ![r].stage = "cancelling"]
  /\ UNCHANGED <<live, sockets, ledger>>

\* It ends within the grace period,
Cancelled(r) ==
  LET me == req[r] IN
  /\ me.stage = "cancelling" /\ me.task = "done"
  /\ ledger' = IF me.sid # Nobody THEN Finally(Cleanup(ledger, r), r, TRUE)
               ELSE Finally(ledger, r, FALSE)
  /\ req' = Over(r)
  /\ UNCHANGED <<live, sockets>>

\* or resists: what the request holds passes to the handler's callback.
Detach(r) ==
  /\ req[r].stage = "cancelling" /\ req[r].task = "running"
  /\ req' = [req EXCEPT ![r].stage = "detached"]
  /\ UNCHANGED <<live, sockets, ledger>>

DetachedEnds(r) ==
  LET me == req[r]
      swept == IF me.sid = Nobody THEN [ledger EXCEPT !.slots = @ \ {r}]
               ELSE IF me.slot THEN Teardown(ledger, me.sid, TRUE)
               ELSE Cleanup(ledger, r)
  IN /\ me.stage = "detached" /\ me.task = "running"
     /\ ledger' = Finally(swept, r, TRUE)
     /\ sockets' \in {sockets, sockets \ {me.sid}}
     /\ req' = Over(r)
     /\ UNCHANGED live

-----------------------------------------------------------------------------
(* Engine.IO, the clock and the session store.                             *)

\* disconnect_with_retry ends, however often it had to try.
DisconnectDone(s) ==
  LET paid == [ledger EXCEPT !.tearing = @ \ {s}, !.owing = @ \ {s},
                             !.slots = IF s \in ledger.owing THEN @ \ {s} ELSE @]
  IN /\ s \in ledger.tearing
     /\ sockets' = sockets \ {s}
     /\ ledger' = Released(paid, s)
     /\ UNCHANGED <<live, req>>

Handled(s) == \E r \in Requests : req[r].guard /\ req[r].sid = s /\ req[r].task = "running"

\* Engine.IO gives up a client that does not answer its pings.
EngineDrops(s) ==
  /\ s \in sockets /\ ~Handled(s)
  /\ sockets' = sockets \ {s}
  /\ UNCHANGED <<live, ledger, req>>

\* The TTL of a binding is longer than Engine.IO's patience.  Every operation
\* prunes before it reads, so a binding past its TTL counts no more.
Lapse(s) ==
  /\ ledger.bound[s] # Nobody /\ s \notin sockets
  /\ s \notin ledger.guards \cup ledger.tearing /\ ledger.upgrades[s] = 0
  /\ ledger' = [ledger EXCEPT !.bound[s] = Nobody]
  /\ UNCHANGED <<live, sockets, req>>

Revoke(session) ==
  /\ session \in live
  /\ live' = live \ {session}
  /\ UNCHANGED <<sockets, ledger, req>>

Arrive(r) ==
  \/ \E session \in Sessions, kind \in New : Connect(r, kind, session)
  \/ \E s \in Requests : Poll(r, s) \/ Upgrade(r, s) \/ PollRevoked(r, s)

Next ==
  \/ \E r \in Requests :
       \/ Arrive(r)
       \/ EngineOpens(r) \/ SendOpen(r) \/ Accept(r) \/ Message(r) \/ SeesClose(r)
       \/ TaskEnds(r) \/ Leave(r) \/ Cut(r) \/ Cancelled(r) \/ Detach(r)
       \/ DetachedEnds(r)
  \/ \E s \in Requests : DisconnectDone(s) \/ EngineDrops(s) \/ Lapse(s)
  \/ \E session \in Sessions : Revoke(session)

Spec == Init /\ [][Next]_vars

\* A handler ends when its response is complete, its client is gone or it was
\* cancelled; an open WebSocket may stay, and messages keep passing on it, for
\* the server pings.
Due(r) == req[r].kind \notin WebSocket \/ req[r].closes \/ req[r].invalid
            \/ req[r].stage # "serving" \/ ~req[r].guard
Fairness ==
  /\ \A r \in Requests :
       /\ WF_vars(Due(r) /\ TaskEnds(r)) /\ WF_vars(Leave(r)) /\ WF_vars(Cancelled(r) \/ Detach(r))
       /\ WF_vars(DetachedEnds(r)) /\ WF_vars(Message(r))
  /\ \A s \in Requests :
       WF_vars(DisconnectDone(s)) /\ WF_vars(EngineDrops(s)) /\ WF_vars(Lapse(s))
FairSpec == Spec /\ Fairness

-----------------------------------------------------------------------------
(* Properties.                                                             *)

\* Every socket Engine.IO has, and every upgrade handler that still runs, is
\* counted against the quota of the session that opened it, whichever way the
\* requests around it ended.
SocketsAreCounted ==
  /\ \A s \in sockets : s \in Counted(ledger, {req[s].session})
  /\ \A r \in Requests : req[r].kind = "upgrade" /\ req[r].task = "running"
                           => ledger.bound[req[r].sid] = req[r].session

\* So Engine.IO never has more sockets than admitted, in all and per session.
ConnectionsBounded ==
  /\ Cardinality(sockets) =< MaxConnections
  /\ \A u \in Sessions : Cardinality({s \in sockets : req[s].session = u}) =< MaxPerSession

\* What was taken comes back: with all requests over and no socket left, the
\* quota is free again, no claim keeps a binding or a slot.
AdmissionComesBack ==
  []<>(sockets = {} /\ (\A r \in Requests : req[r].stage \in {"idle", "over"})
         => Counted(ledger, Sessions) = {})

\* A transport does not outlive its session: a WebSocket whose client keeps
\* answering is ended as well.
RevokedTransportsEnd ==
  \A s \in Requests : []<>(s \in sockets => req[s].session \in live)
=============================================================================
