-------------------------- MODULE HandshakeBuffers --------------------------
(***************************************************************************)
(* The HTTP responses SocketIOLiveSendASGI (asgi.py) holds back: that of a *)
(* handshake until the Engine.IO id in it is bound, that of a poll until   *)
(* its body is complete and authorised.  Engine.IO runs in a task of its   *)
(* own; the request waits for it, cancels it on a timeout or when it is    *)
(* cancelled itself, and leaves it behind when it does not stop in time.   *)
(* What is held back is counted against one budget of all requests.        *)
(***************************************************************************)
EXTENDS Naturals, FiniteSets, FiniteSetsExt

CONSTANTS Requests,
          Budget,     \* _SOCKETIO_MAX_PENDING_HANDSHAKE_BUFFER_BYTES
          MaxBody     \* _SOCKETIO_MAX_HANDSHAKE_BUFFER_BYTES; a head, a piece: 1

VARIABLES
    req,      \* the requests, numbered in the order they begin
    total,    \* _pending_handshake_buffer_bytes
    session,  \* of the dashboard: "active" or "revoked"
    leaked    \* ghost: telemetry was sent to a revoked session

vars == <<req, total, session, leaked>>

Contents == {"control", "telemetry"}
\* task: what Engine.IO's task does next; it holds the role lock while `held`
\* parked: the start is held back; content: what a poll's body holds (of a
\* handshake only control packets go out); answers: response starts sent
Unused == [kind |-> "none", outer |-> "idle", task |-> "none", ok |-> TRUE,
           parked |-> FALSE, head |-> 0, body |-> 0, content |-> {},
           ready |-> FALSE, held |-> FALSE, cut |-> FALSE, reject |-> FALSE,
           answers |-> 0]

TypeOK ==
    /\ total \in 0..Budget /\ session \in {"active", "revoked"} /\ leaked \in BOOLEAN
    /\ \A r \in Requests :
         /\ req[r].kind \in {"none", "handshake", "poll"}
         /\ req[r].outer \in {"idle", "waiting", "grace", "ended"}
         /\ req[r].task \in {"none", "head", "body", "authorise", "start", "rest",
                             "drain", "failed", "done"}
         /\ req[r].head \in 0..1 /\ req[r].body \in 0..MaxBody
         /\ req[r].content \subseteq Contents

Init ==
    /\ req = [r \in Requests |-> Unused]
    /\ total = 0 /\ session = "active" /\ leaked = FALSE

Set(r, new) == req' = [req EXCEPT ![r] = new]
Release(n) == total' = IF total > n THEN total - n ELSE 0
Stay == UNCHANGED <<total, session, leaked>>

-----------------------------------------------------------------------------
(* Engine.IO's task                                                        *)

\* A request with a live session begins; its task is created.
Begin(r, k) ==
    /\ req[r] = Unused /\ session = "active"
    /\ \A q \in Requests : req[q] = Unused => r <= q
    /\ Set(r, [Unused EXCEPT !.kind = k, !.outer = "waiting", !.task = "head"])
    /\ Stay

\* app_send, the response start: held back, or the budget is exhausted.
Head(r, ok) ==
    LET q == req[r] IN
    /\ q.task = "head"
    /\ IF q.cut THEN Set(r, [q EXCEPT !.task = "body"]) /\ UNCHANGED total
       ELSE IF total = Budget THEN Set(r, [q EXCEPT !.task = "failed"]) /\ UNCHANGED total
       ELSE /\ Set(r, [q EXCEPT !.task = "body", !.parked = TRUE, !.head = 1, !.ok = ok])
            /\ total' = total + 1
    /\ UNCHANGED <<session, leaked>>

\* _reserve_handshake_buffer_bytes for a piece of body; when it fails an open
\* packet that is complete in what fits is bound before the task fails.
Buffered(r, q, c, next) ==
    IF q.head + q.body >= MaxBody \/ total = Budget
    THEN /\ \E bound \in BOOLEAN : Set(r, [q EXCEPT !.task = "failed", !.held = FALSE,
                                            !.ready = bound])
         /\ UNCHANGED total
    ELSE /\ Set(r, [q EXCEPT !.body = @ + 1, !.content = @ \cup c, !.task = next,
                             !.ready = (next = "start")])
         /\ total' = total + 1

\* app_send, a piece of a poll's body, the last one or not: parked at once.
\* A handshake's waits for authorisation first, unless its status is an error.
Piece(r, c, last) ==
    LET q == req[r] IN
    /\ q.task = "body"
    /\ IF q.cut THEN Set(r, [q EXCEPT !.task = IF last THEN "done" ELSE "body"]) /\ UNCHANGED total
       ELSE IF q.kind = "poll"
       THEN Buffered(r, q, {c}, IF ~last THEN "body" ELSE IF q.ok THEN "authorise" ELSE "start")
       ELSE IF q.ok
       THEN Set(r, [q EXCEPT !.task = "authorise"]) /\ UNCHANGED total
       ELSE Buffered(r, q, {}, IF last THEN "done" ELSE "body")
    /\ UNCHANGED <<session, leaked>>

\* Mutant: the request is not looked at again after the wait.
NeverCut(q) == FALSE
CutSince(q) == q.cut
\* bind_engine_sid_then_send: the piece is parked; with the id complete it is
\* bound and the response goes out.
Bind(r, q, found) ==
    IF CutSince(q)
    THEN Set(r, [q EXCEPT !.task = "body", !.held = FALSE]) /\ UNCHANGED total
    ELSE Buffered(r, [q EXCEPT !.held = @ /\ found], {},
                  IF found THEN "start" ELSE "body")

\* Mutant: only the last piece is stripped.
LastStripped(q) == IF q.body > 1 THEN q.content ELSE q.content \cap {"control"}
Stripped(q) == q.content \cap {"control"}

LockFree == \A r \in Requests : ~req[r].held

\* _send_authorized_live_message: under the role lock, which it keeps until the
\* response is sent; or refused, and control packets only.
Authorise(r) ==
    LET q == req[r] IN
    /\ q.task = "authorise"
    /\ \/ /\ session = "active" /\ LockFree
          /\ IF q.kind = "handshake"
             THEN \E found \in BOOLEAN : Bind(r, [q EXCEPT !.held = TRUE], found)
             ELSE Set(r, [q EXCEPT !.held = TRUE, !.task = "start"]) /\ UNCHANGED total
       \/ IF q.kind = "handshake"
          THEN \E found \in BOOLEAN : Bind(r, q, found)
          ELSE Set(r, [q EXCEPT !.content = Stripped(q), !.task = "start"]) /\ UNCHANGED total
    /\ UNCHANGED <<session, leaked>>

Sends(q) == ~q.cut

\* flush_pending_*: the start, then the body, each released once it is sent.  A
\* handshake's body is stripped whatever authorisation said.
SendStart(r) ==
    LET q == req[r] IN
    /\ q.task = "start"
    /\ Set(r, [q EXCEPT !.parked = FALSE, !.task = "rest",
                 !.answers = @ + (IF Sends(q) THEN 1 ELSE 0)])
    /\ Stay

SendRest(r) ==
    LET q == req[r] IN
    /\ q.task = "rest"
    /\ Release(q.head)
    /\ leaked' = (leaked \/ (Sends(q) /\ q.kind = "poll" /\ q.ok /\ session = "revoked"
                             /\ "telemetry" \in q.content))
    /\ Set(r, [q EXCEPT !.head = 0, !.task = "drain"])
    /\ UNCHANGED session

Drained(r) ==
    LET q == req[r] IN
    /\ q.task = "drain"
    /\ Release(q.body)
    /\ Set(r, [q EXCEPT !.body = 0, !.content = {}, !.held = FALSE, !.task = "done"])
    /\ UNCHANGED <<session, leaked>>

\* Engine.IO's handler ends without another message, or with an error.
Breaks(r) ==
    /\ req[r].task \in {"head", "body"}
    /\ \E t \in {"done", "failed"} : Set(r, [req[r] EXCEPT !.task = t])
    /\ Stay

-----------------------------------------------------------------------------
(* The request                                                             *)

\* Mutant: the timeout waits for the task alone.
AnyHandshake(q) == q.kind = "handshake"
StillUnbound(q) == q.kind = "handshake" /\ ~q.ready
\* No id within the handshake's time, or the request is cancelled
TimeOut(r) ==
    LET q == req[r] IN
    /\ q.outer = "waiting" /\ q.task \notin {"done", "failed"}
    /\ \E reject \in BOOLEAN :
         /\ reject => StillUnbound(q)
         /\ Set(r, [q EXCEPT !.outer = "grace", !.cut = TRUE, !.reject = reject])
    /\ Stay

\* Once the task too has ended nothing is left of a request but its answers.
Gone(q) == [Unused EXCEPT !.kind = q.kind, !.outer = "ended", !.task = "done", !.cut = TRUE,
                          !.answers = q.answers]
Left(q) == IF q.outer = "ended" /\ q.task \in {"done", "failed"} THEN Gone(q) ELSE q

\* The cancelled task stops at one of its waits; its lock is released.
TaskStops(r) ==
    LET q == req[r] IN
    /\ q.cut /\ q.task \notin {"none", "done"}
    /\ Set(r, Left([q EXCEPT !.task = "done", !.held = FALSE]))
    /\ Stay

Reserved(q) == q.head + q.body

\* The finally block; `answered`: a 503, or what was held back, was sent before.
Leave(r, q, answered) ==
    /\ Release(Reserved(q))
    /\ Set(r, Left([q EXCEPT !.outer = "ended", !.head = 0, !.body = 0,
                 !.parked = FALSE, !.answers = @ + (IF answered THEN 1 ELSE 0)]))
    /\ UNCHANGED <<session, leaked>>

\* The task has stopped, or is left behind when the grace is over.
GraceEnds(r) == req[r].outer = "grace" /\ Leave(r, req[r], req[r].reject)

\* The task raised: a 503 for the limit of the buffers, nothing for an error
\* of Engine.IO's own.
TaskFailed(r) ==
    /\ req[r].outer = "waiting" /\ req[r].task = "failed"
    /\ \E limit \in BOOLEAN : Leave(r, [req[r] EXCEPT !.cut = TRUE], limit)

\* The task returned: a handshake without an id is refused, an error status of
\* its or a poll without a body sent on; a poll broken off has no answer.
TaskReturned(r) ==
    /\ req[r].outer = "waiting" /\ req[r].task = "done"
    /\ Leave(r, req[r], IF req[r].kind = "handshake" THEN ~req[r].ready
                        ELSE req[r].parked /\ req[r].body = 0)

\* The session ends; whoever ends it holds the role lock.
Revoke ==
    /\ session = "active" /\ LockFree
    /\ session' = "revoked" /\ UNCHANGED <<req, total, leaked>>

Next ==
    \/ \E r \in Requests :
         \/ \E k \in {"handshake", "poll"} : Begin(r, k)
         \/ \E ok \in BOOLEAN : Head(r, ok)
         \/ \E c \in Contents, last \in BOOLEAN : Piece(r, c, last)
         \/ Authorise(r) \/ SendStart(r) \/ SendRest(r) \/ Drained(r) \/ Breaks(r)
         \/ TimeOut(r) \/ TaskStops(r) \/ GraceEnds(r) \/ TaskFailed(r) \/ TaskReturned(r)
    \/ Revoke

Spec == Init /\ [][Next]_vars

-----------------------------------------------------------------------------
\* The budget is what the requests under way hold: nothing leaks from it, and
\* nothing is given back twice, whenever a request ends and its task goes on.
UnderWay == {r \in Requests : req[r].outer \in {"waiting", "grace"}}
BytesAccounted == total = MapThenSumSet(LAMBDA r : req[r].head + req[r].body, UnderWay)

\* A request is answered once, though its task may still answer after it.
AnsweredOnce == \A r \in Requests : req[r].answers <= 1

\* No telemetry held back for a poll reaches a session revoked in between.
NothingHeldBackLeaks == ~leaked
=============================================================================
