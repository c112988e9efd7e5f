---------------------------- MODULE PollingBridge ---------------------------
(***************************************************************************)
(* The Engine.IO polling bridge of the threaded server                     *)
(* (telemetry_socketio_polling.py) with the handlers around it: a bounded  *)
(* table of clients, each with a subscription to the telemetry gateway,    *)
(* served by requests in threads of their own.  A poll that comes before   *)
(* the namespace is connected waits, without the lock; what a poll takes   *)
(* from the gateway is written after the lock is released.                 *)
(*                                                                         *)
(* A frame is its number; what the gateway replays is TelemetryStream's.   *)
(***************************************************************************)
EXTENDS Naturals, FiniteSets, Sequences

CONSTANTS Threads, Sessions,
          Bodies,        \* the packets of a POST: "40" connect, "42" event, "1" close
          MaxClients,    \* DEFAULT_MAX_CLIENTS
          MaxSubs,       \* of the gateway
          \* bounds
          MaxSids, MaxFrames, MaxMishaps

Sids == 1..MaxSids

VARIABLES
    client,     \* _clients, with those that were; sid by sid
    subs,       \* the gateway's subscriptions, named by the sid they are for
    cursor,     \* last_seen_sequence of each
    published,  \* frames the gateway has published
    allowed,    \* sessions whose principal may stream
    req,        \* what each thread does
    sent,       \* ghost: frames written to the browser of a sid
    orphans,    \* ghost: subscriptions opened for a client its own body closed
    mishaps

bridge == <<client, subs, cursor, orphans>>
vars == <<bridge, published, allowed, req, sent, mishaps>>

Unused == [at |-> "unused", session |-> "none", subscribed |-> FALSE,
           connected |-> FALSE, pending |-> 0, idle |-> FALSE]
NoReq == [at |-> "free", kind |-> "none", sid |-> 0, session |-> "none",
          body |-> <<>>, frames |-> {}]

TypeOK ==
    /\ \A i \in Sids :
         /\ client[i].at \in {"unused", "in", "out"}
         /\ client[i].session \in Sessions \cup {"none"}
         /\ client[i].pending \in 0..2 /\ client[i].connected \in BOOLEAN
    /\ subs \subseteq Sids /\ orphans \subseteq Sids
    /\ cursor \in [Sids -> 0..MaxFrames] /\ published \in 0..MaxFrames
    /\ allowed \subseteq Sessions /\ mishaps \in 0..MaxMishaps
    /\ \A t \in Threads :
         /\ req[t].at \in {"free", "go", "deny", "wait", "write"}
         /\ req[t].sid \in 0..MaxSids /\ req[t].frames \subseteq 1..MaxFrames

Init ==
    /\ client = [i \in Sids |-> Unused] /\ subs = {} /\ orphans = {}
    /\ cursor = [i \in Sids |-> 0] /\ published = 0
    /\ allowed = Sessions /\ req = [t \in Threads |-> NoReq]
    /\ sent = [i \in Sids |-> {}] /\ mishaps = 0

-----------------------------------------------------------------------------
Table == {i \in Sids : client[i].at = "in"}
Idle == {i \in Table : client[i].idle}
Owned(i, s) == i \in Table /\ client[i].session = s

\* _close_locked, of several: their subscriptions end with them.
\* Mutant: only the entry is removed.
SubsKept(gone) == subs
SubsWithout(gone) == subs \ {i \in gone : client[i].subscribed}
Out == [Unused EXCEPT !.at = "out"]
Gone(gone) == [i \in Sids |-> IF i \in gone THEN Out ELSE client[i]]
CloseAll(gone) ==
    /\ client' = Gone(gone) /\ subs' = SubsWithout(gone) /\ UNCHANGED <<cursor, orphans>>

Free(t) == req' = [req EXCEPT ![t] = NoReq]

\* A request arrives and its principal is resolved, before the lock is taken.
Arrive(t, k, i, s, b) ==
    /\ req[t] = NoReq
    /\ k = "handshake" => i = 0 /\ b = <<>> /\ s \in allowed
    /\ k # "handshake" => i \in Sids /\ client[i].at # "unused"
    /\ k = "poll" => b = <<>>
    /\ k = "post" => b \in Bodies
    /\ req' = [req EXCEPT ![t] =
                 [at |-> IF s \in allowed THEN "go" ELSE "deny", kind |-> k, sid |-> i,
                  session |-> s, body |-> b, frames |-> {}]]
    /\ UNCHANGED <<bridge, published, allowed, sent, mishaps>>

\* _close_if_owned: a session that may not stream loses its own client.
Deny(t) ==
    /\ req[t].at = "deny" /\ Free(t)
    /\ CloseAll({i \in {req[t].sid} : Owned(i, req[t].session)})
    /\ UNCHANGED <<published, allowed, sent, mishaps>>

\* Idle clients make room first; a full table is refused.
Handshake(t) ==
    /\ req[t].at = "go" /\ req[t].kind = "handshake"
    /\ LET gone == Idle
           unused == {i \in Sids : client[i].at = "unused"}
       IN  IF Cardinality(Table \ gone) >= MaxClients \/ unused = {}
           THEN Free(t) /\ CloseAll(gone)
           ELSE LET i == CHOOSE j \in unused : \A k \in unused : j <= k IN
                /\ client' = [Gone(gone) EXCEPT ![i] =
                                [Unused EXCEPT !.at = "in", !.session = req[t].session]]
                /\ subs' = SubsWithout(gone)
                /\ req' = [req EXCEPT ![t].at = "write", ![t].sid = i]
                /\ UNCHANGED <<cursor, orphans>>
    /\ UNCHANGED <<published, allowed, sent, mishaps>>

\* What the packets of a body do, one after the other, to the client's entry c and
\* the subscriptions; a subscription the gateway refuses ends the request.
Do(p, x) ==
    CASE x.refused \/ p = "42" -> x
      [] ~x.refused /\ p = "40" /\ x.c.connected /\ x.c.subscribed -> x
      [] ~x.refused /\ p = "40" /\ ~(x.c.connected /\ x.c.subscribed) ->
           IF Cardinality(x.subs) >= MaxSubs THEN [x EXCEPT !.refused = TRUE]
           ELSE [x EXCEPT !.c = [@ EXCEPT !.connected = TRUE, !.subscribed = TRUE,
                                          !.pending = @ + 1],
                          !.subs = @ \cup {x.sid}]
      [] ~x.refused /\ p = "1" ->
           [x EXCEPT !.c.at = "out",
                     !.subs = IF x.c.at = "in" /\ x.c.subscribed THEN @ \ {x.sid} ELSE @]
DoAll(body, x) ==
    LET Done[n \in 0..Len(body)] == IF n = 0 THEN x ELSE Do(body[n], Done[n - 1])
    IN  Done[Len(body)]

\* The POST of a client: its packets are processed under the lock.
Post(t) ==
    /\ req[t].at = "go" /\ req[t].kind = "post" /\ Free(t)
    /\ LET i == req[t].sid
           gone == Idle
           x == DoAll(req[t].body, [c |-> [client[i] EXCEPT !.idle = FALSE], sid |-> i,
                                    subs |-> SubsWithout(gone), refused |-> FALSE])
       IN  IF i \in gone \/ ~Owned(i, req[t].session) THEN CloseAll(gone)
           ELSE /\ client' = [Gone(gone) EXCEPT ![i] = IF x.c.at = "in" THEN x.c ELSE Out]
                /\ subs' = x.subs
                /\ orphans' = IF x.c.at = "out" /\ i \in x.subs THEN orphans \cup {i}
                              ELSE orphans
                /\ UNCHANGED cursor
    /\ UNCHANGED <<published, allowed, sent, mishaps>>

\* The rest of a poll, under the lock: the packets that wait, nothing, or the
\* frames of the gateway; a session that may no longer stream is closed.
Take(t, i, gone) ==
    LET c == client[i]
        write(f) == req' = [req EXCEPT ![t].at = "write", ![t].frames = f]
        touched == [Gone(gone) EXCEPT ![i].idle = FALSE]
    IN  IF c.pending > 0
        THEN /\ client' = [touched EXCEPT ![i].pending = 0]
             /\ subs' = SubsWithout(gone) /\ write({}) /\ UNCHANGED <<cursor, orphans>>
        ELSE IF ~(c.connected /\ c.subscribed)
        THEN client' = touched /\ subs' = SubsWithout(gone) /\ write({}) /\ UNCHANGED <<cursor, orphans>>
        ELSE LET new == (cursor[i] + 1)..published
                 cut == new # {} /\ c.session \notin allowed
                 out == IF cut THEN gone \cup {i} ELSE gone
             IN  /\ client' = IF cut THEN Gone(out) ELSE touched
                 /\ subs' = SubsWithout(out)
                 /\ cursor' = [cursor EXCEPT ![i] = published]
                 /\ write(IF cut THEN {} ELSE new) /\ UNCHANGED orphans

Poll(t) ==
    /\ req[t].at = "go" /\ req[t].kind = "poll"
    /\ LET i == req[t].sid
           gone == Idle
       IN  IF i \in gone \/ ~Owned(i, req[t].session) THEN Free(t) /\ CloseAll(gone)
           ELSE IF client[i].connected THEN Take(t, i, gone)
           ELSE /\ client' = [Gone(gone) EXCEPT ![i].idle = FALSE]
                /\ subs' = SubsWithout(gone)
                /\ req' = [req EXCEPT ![t].at = "wait"] /\ UNCHANGED <<cursor, orphans>>
    /\ UNCHANGED <<published, allowed, sent, mishaps>>

\* The wait for the namespace ends, notified or not; the client may be gone.
WaitEnds(t) ==
    /\ req[t].at = "wait"
    /\ IF req[t].sid \in Table THEN Take(t, req[t].sid, {})
       ELSE Free(t) /\ UNCHANGED bridge
    /\ UNCHANGED <<published, allowed, sent, mishaps>>

\* Mutant: a response that was not written leaves its client as it is.
AfterFailure(i) == {}
Unwritten(i) == {i} \cap Table
\* The response is written while the session may stream, and its client closed
\* when it is not.
Write(t) ==
    /\ req[t].at = "write" /\ Free(t)
    /\ LET i == req[t].sid IN
       \/ /\ req[t].session \in allowed
          /\ sent' = [sent EXCEPT ![i] = IF i \in Table THEN @ \cup req[t].frames ELSE @]
          /\ UNCHANGED <<bridge, mishaps>>
       \/ /\ req[t].session \notin allowed
          /\ CloseAll(Unwritten(i)) /\ UNCHANGED <<sent, mishaps>>
       \/ /\ mishaps < MaxMishaps /\ mishaps' = mishaps + 1
          /\ CloseAll(Unwritten(i)) /\ UNCHANGED sent
    /\ UNCHANGED <<published, allowed>>

\* A client is not heard of for the idle timeout.
Ages(i) ==
    /\ i \in Table /\ ~client[i].idle
    /\ client' = [client EXCEPT ![i].idle = TRUE]
    /\ UNCHANGED <<subs, cursor, orphans, published, allowed, req, sent, mishaps>>

Publish ==
    /\ published < MaxFrames /\ published' = published + 1
    /\ UNCHANGED <<bridge, allowed, req, sent, mishaps>>

Revoke(s) ==
    /\ s \in allowed /\ allowed' = allowed \ {s}
    /\ UNCHANGED <<bridge, published, req, sent, mishaps>>

Next ==
    \/ \E t \in Threads :
         \/ \E k \in {"handshake", "poll", "post"}, i \in 0..MaxSids, s \in Sessions,
               b \in Bodies \cup {<<>>} : Arrive(t, k, i, s, b)
         \/ Deny(t) \/ Handshake(t) \/ Post(t) \/ Poll(t) \/ WaitEnds(t) \/ Write(t)
    \/ \E i \in Sids : Ages(i)
    \/ Publish \/ \E s \in Sessions : Revoke(s)

Spec == Init /\ [][Next]_vars

-----------------------------------------------------------------------------
\* No subscription outlives its client, but for one that a body opened after its
\* own close packet; the table and the gateway stay within their limits.
SubscriptionsOwned ==
    /\ subs \subseteq {i \in Table : client[i].subscribed} \cup orphans
    /\ \A i \in Table : client[i].subscribed => i \in subs
    /\ Cardinality(Table) <= MaxClients /\ Cardinality(subs) <= MaxSubs

\* A client that may go on polling has missed nothing: what was taken from the
\* gateway for it was written, or is about to be.
NothingSkipped ==
    \A i \in Table :
        1..cursor[i] \subseteq
            sent[i] \cup UNION {req[t].frames : t \in {u \in Threads : req[u].sid = i}}
=============================================================================
