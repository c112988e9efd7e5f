---------------------------- MODULE LiveResponse ----------------------------
(***************************************************************************)
(* One /api/events response.  The handler of app.py runs in a thread and   *)
(* writes events to one end of a socket pair; the ASGI adapter of asgi.py  *)
(* reads the other end in a worker thread and sends what it read to the    *)
(* browser.  Both write and send under the role check lock of the session, *)
(* which a revocation needs as well, and the pipe holds less than an event.*)
(***************************************************************************)
EXTENDS Naturals

CONSTANTS Chunks,     \* pieces of an event
          Capacity,   \* pieces the socket pair holds
          MaxEvents,  \* events before the response's deadline of 30 s
          Nobody      \* the holder of a free lock

LiveResponseAssumption == Chunks \in Nat /\ Capacity \in Nat \ {0}

VARIABLES
    handler,    \* what the handler does next
    left,       \* pieces of the event still to write
    events,     \* events begun
    pipe,       \* pieces written and not read
    adapter,    \* what the adapter does next
    near,       \* the adapter's file descriptor is open
    far,        \* the handler's end is open
    lock,       \* role_check_lock_for_session: its holder
    browser,    \* the client is there
    revocation  \* of the session: "none", "asked", "done"

vars == <<handler, left, events, pipe, adapter, near, far, lock, browser, revocation>>

TypeOK ==
    /\ handler \in {"check", "acquire", "write", "pause", "ended"}
    /\ left \in 0..Chunks /\ events \in 0..MaxEvents /\ pipe \in 0..Capacity
    /\ adapter \in {"read", "acquire", "send", "terminal", "ended"}
    /\ near \in BOOLEAN /\ far \in BOOLEAN /\ browser \in BOOLEAN
    /\ lock \in {Nobody, "handler", "adapter"}
    /\ revocation \in {"none", "asked", "done"}

Init ==
    /\ handler = "check" /\ left = 0 /\ events = 0
    /\ pipe = 0 /\ adapter = "read" /\ near = TRUE /\ far = TRUE
    /\ lock = Nobody /\ browser = TRUE /\ revocation = "none"

Release(who) == lock' = IF lock = who THEN Nobody ELSE lock

-----------------------------------------------------------------------------
(* The handler: DashboardHandler._events                                   *)
handlerOnly == <<adapter, near, far, browser, revocation>>

\* It returns or an expected error ends it.  Nothing closes its socket: the
\* adapter's frame holds it.
HandlerEnds ==
    /\ handler' = "ended" /\ left' = 0 /\ Release("handler")
    /\ UNCHANGED <<events, pipe, handlerOnly>>

\* Mutant: the deadline is not looked at.
AnyTime == TRUE
BeforeDeadline == events < MaxEvents

\* The session is validated again, the router asked for its sessions.
CheckSession ==
    /\ handler = "check"
    /\ BeforeDeadline /\ revocation # "done"
    /\ handler' = "acquire" /\ events' = IF events = MaxEvents THEN events ELSE events + 1
    /\ UNCHANGED <<left, pipe, lock, handlerOnly>>

\* Deadline, revocation, a router that fails; the wait for the lock, or a
\* refresh of the role, that takes too long; a principal that may not stream
HandlerGivesUp ==
    /\ handler \in {"check", "acquire"}
    /\ HandlerEnds

AcquireToWrite ==
    /\ handler = "acquire" /\ lock = Nobody /\ revocation # "done"
    /\ handler' = "write" /\ left' = Chunks /\ lock' = "handler"
    /\ UNCHANGED <<events, pipe, handlerOnly>>

\* The other end is gone: its descriptor is closed and no read holds it.
Shut == ~near /\ adapter # "read"

WritePiece ==
    /\ handler = "write" /\ left > 0 /\ pipe < Capacity /\ ~Shut
    /\ pipe' = pipe + 1 /\ left' = left - 1
    /\ UNCHANGED <<handler, events, lock, handlerOnly>>

Written ==
    /\ handler = "write" /\ left = 0
    /\ handler' = "pause" /\ Release("handler")
    /\ UNCHANGED <<left, events, pipe, handlerOnly>>

\* A write times out while the pipe is full, or meets a closed socket.
WriteFails ==
    /\ handler = "write" /\ left > 0 /\ (pipe = Capacity \/ Shut)
    /\ HandlerEnds

Resume ==
    /\ handler = "pause" /\ handler' = "check"
    /\ UNCHANGED <<left, events, pipe, lock, handlerOnly>>

-----------------------------------------------------------------------------
(* The adapter: DashboardHTTPASGI.__call__ and _stream_response            *)
adapterOnly == <<handler, left, events, browser, revocation>>

\* The finally block; with the frame the handler's end goes, once the handler
\* has let go of it.
AdapterEnds == adapter' = "ended" /\ near' = FALSE

\* The next read: it fails at once on a descriptor already closed.
ReadAgain == IF near THEN adapter' = "read" /\ UNCHANGED near ELSE AdapterEnds

\* A read returns what is there, or the end of file once nobody holds the other
\* end.  Closing the descriptor does not wake it.
Read ==
    /\ adapter = "read" /\ (pipe > 0 \/ ~far)
    /\ pipe' = 0 /\ adapter' = IF pipe > 0 THEN "acquire" ELSE "terminal"
    /\ UNCHANGED <<near, far, lock, adapterOnly>>

\* Mutant: the cached principal is not asked.
Whoever == TRUE
MayStream == revocation # "done"

AcquireToSend ==
    /\ adapter = "acquire" /\ lock = Nobody /\ MayStream
    /\ adapter' = "send" /\ lock' = "adapter"
    /\ UNCHANGED <<pipe, near, far, adapterOnly>>

\* Denied, or not authorised in time: the socket is closed, the body dropped.
RefuseBody ==
    /\ adapter = "acquire"
    /\ adapter' = "terminal" /\ near' = FALSE
    /\ UNCHANGED <<pipe, far, lock, adapterOnly>>

Sent ==
    /\ adapter = "send"
    /\ ReadAgain /\ Release("adapter")
    /\ UNCHANGED <<pipe, far, adapterOnly>>

\* Mutant: the lock is not released when a send is given up.
SendTimesOutLocked ==
    /\ adapter = "send" /\ AdapterEnds
    /\ UNCHANGED <<pipe, far, lock, adapterOnly>>
\* The cooperative timeout of _send_and_drain
SendTimesOut ==
    /\ adapter = "send"
    /\ AdapterEnds /\ Release("adapter")
    /\ UNCHANGED <<pipe, far, adapterOnly>>

Terminated ==
    /\ adapter = "terminal"
    /\ AdapterEnds
    /\ UNCHANGED <<pipe, far, lock, adapterOnly>>

\* Once both have ended the last reference to the handler's end is gone.
Collect ==
    /\ adapter = "ended" /\ handler = "ended" /\ far
    /\ far' = FALSE
    /\ UNCHANGED <<adapter, pipe, near, lock, adapterOnly>>

-----------------------------------------------------------------------------
\* The browser goes away; _close_on_disconnect closes the descriptor.
Disconnect ==
    /\ browser /\ adapter # "ended"
    /\ browser' = FALSE /\ near' = FALSE
    /\ UNCHANGED <<handler, left, events, pipe, adapter, far, lock, revocation>>

AskRevocation ==
    /\ revocation = "none" /\ revocation' = "asked"
    /\ UNCHANGED <<handler, left, events, pipe, adapter, near, far, lock, browser>>

\* The session is dropped under its role check lock.
Revoke ==
    /\ revocation = "asked" /\ lock = Nobody
    /\ revocation' = "done"
    /\ UNCHANGED <<handler, left, events, pipe, adapter, near, far, lock, browser>>

HandlerStep ==
    \/ CheckSession \/ HandlerGivesUp \/ AcquireToWrite \/ WritePiece \/ Written
    \/ WriteFails \/ Resume
AdapterStep ==
    \/ Read \/ AcquireToSend \/ RefuseBody \/ Sent \/ SendTimesOut
    \/ Terminated
Next == HandlerStep \/ AdapterStep \/ Collect \/ Disconnect \/ AskRevocation \/ Revoke

Spec == Init /\ [][Next]_vars

\* Threads run, and every wait of theirs for a lock, a write or a send has a
\* timeout; a revocation takes the lock once it is free.
FairSpec ==
    /\ Spec
    /\ WF_vars(HandlerStep) /\ WF_vars(AdapterStep) /\ WF_vars(Collect)
    /\ WF_vars(Revoke)

-----------------------------------------------------------------------------
\* No body is handed to the ASGI server once the session's revocation is done.
NothingSentRevoked == adapter = "send" => revocation # "done"

\* The handler's thread ends, whoever reads or does not.
HandlerThreadEnds == []<>(handler = "ended")

\* A revocation completes, however slow the browser and full the pipe.
RevocationCompletes == []<>(revocation # "asked")

\* The documented end of the response: after the handler's last event it ends,
\* so that the browser may connect and be authenticated again.
ResponseEnds == []<>(handler = "ended" => adapter = "ended")
=============================================================================
