--------------------------- MODULE AccountSessions ---------------------------
(***************************************************************************)
(* The handlers of app.py that change who may hold a tunnel: the update of *)
(* an account with a new password and the revocation of the sessions the   *)
(* old one opened, suspension and restoration, and the termination of one  *)
(* session.  They run beside the VPN client, which drops and opens its     *)
(* tunnels between any two requests.                                       *)
(*                                                                         *)
(* One VPN username.  RouterOS lists a session by the row it occupies and, *)
(* mostly, a unique session id; rows are used again.  A session's number   *)
(* here is its unique id.  The password is a version: a session remembers  *)
(* the one it was opened with.  The account's review lock is asserted in   *)
(* the step of the change it guards; the receipts are ReviewCoordination.  *)
(***************************************************************************)
EXTENDS Naturals, FiniteSets

CONSTANTS Workers, Kinds, Rows, Nobody,
          MaxSessions, MaxRequests, MaxMishaps

VARIABLES live,      \* sessions that are up
          rowOf,     \* the row of every session so far
          named,     \* sessions listed with their unique id
          openedBy,  \* the version of the password a session was opened with
          password, disabled,   \* of the account, on the router
          holder,    \* who holds the account's lock
          req,       \* the request of each worker
          shutOut,   \* ghost: reported suspended, and not enabled since
          begun, mishaps

sessions == <<live, rowOf, named, openedBy>>
account == <<password, disabled>>
vars == <<live, rowOf, named, openedBy, password, disabled, holder, req, shutOut,
          begun, mishaps>>

Sessions == 1..MaxSessions
Opened == DOMAIN rowOf
RowsOf(S) == {rowOf[s] : s \in S}

Stages == {"idle", "patch", "capture", "check", "drop", "lostDrop", "lastLook", "confirm",
           "readBack", "cut", "count", "terminate", "poll"}
Statuses == {"none", "verified", "unknown", "incomplete"}
Verdicts == {"none", "refused", "rejected", "coordination", "unknown", "mismatch",
             "changed", "suspended", "restored", "partial", "terminated", "stillActive"}

TypeOK ==
  /\ live \subseteq Opened
  /\ Opened \subseteq Sessions /\ \A s \in Opened : rowOf[s] \in Rows
  /\ named \subseteq Opened
  /\ DOMAIN openedBy = Opened /\ \A s \in Opened : openedBy[s] \in 0..password
  /\ password \in 0..MaxRequests
  /\ disabled \in BOOLEAN
  /\ holder \in Workers \cup {Nobody}
  /\ req \in [Workers ->
       [kind : Kinds \cup {"none"}, at : Stages, disable : BOOLEAN,
        seen : SUBSET Sessions, marked : SUBSET Sessions, todo : SUBSET Sessions,
        blurred : SUBSET Sessions, ambiguous : BOOLEAN, uncaptured : BOOLEAN,
        version : 0..MaxRequests, status : Statuses, verdict : Verdicts]]
  /\ shutOut \in BOOLEAN
  /\ begun \in 0..MaxRequests /\ mishaps \in 0..MaxMishaps

Idle == [kind |-> "none", at |-> "idle", disable |-> FALSE, seen |-> {}, marked |-> {},
         todo |-> {}, blurred |-> {}, ambiguous |-> FALSE, uncaptured |-> FALSE,
         version |-> 0, status |-> "none", verdict |-> "none"]

\* One session is up.  Which row it has does not matter: rows are alike.
Init ==
  /\ rowOf = [s \in {1} |-> CHOOSE row \in Rows : TRUE]
  /\ live = {1} /\ named = {1} /\ openedBy = [s \in {1} |-> 0]
  /\ password = 0 /\ disabled = FALSE
  /\ holder = Nobody
  /\ req = [w \in Workers |-> Idle]
  /\ shutOut = FALSE /\ begun = 0 /\ mishaps = 0

-----------------------------------------------------------------------------
(* Steps of a handler.                                                     *)

Mishap == mishaps < MaxMishaps /\ mishaps' = mishaps + 1
Smooth == UNCHANGED mishaps

Goes(w, r) == req' = [req EXCEPT ![w] = r] /\ UNCHANGED <<holder, begun, shutOut>>
To(w, stage) == Goes(w, [req[w] EXCEPT !.at = stage])

\* The handler answers and leaves its lock and its variables.  What it saw is
\* remembered where the answer claims that sessions are gone.
Ended(w, r, verdict) ==
  LET answered == [Idle EXCEPT !.verdict = verdict] IN
  /\ req' = [req EXCEPT ![w] =
       IF r.status = "verified" \/ verdict = "terminated"
       THEN [answered EXCEPT !.kind = r.kind, !.seen = r.seen, !.version = r.version,
                             !.status = r.status]
       ELSE answered]
  /\ holder' = IF holder = w THEN Nobody ELSE holder
  /\ UNCHANGED begun
Answers(w, verdict) == Ended(w, req[w], verdict) /\ UNCHANGED shutOut

Begins(w, kind, r) ==
  /\ req[w].at = "idle" /\ begun < MaxRequests /\ kind \in Kinds
  /\ begun' = begun + 1
  /\ req' = [req EXCEPT ![w] = r]
  /\ UNCHANGED <<sessions, account, shutOut, mishaps>>

Locks(w) == holder = Nobody /\ holder' = w

\* list_active_ovpn_sessions, seen by the handler at once or not at all.
Looks(After, Broken) ==
  /\ UNCHANGED <<sessions, account>>
  /\ (After /\ Smooth) \/ (Broken /\ Mishap)

\* DELETE /ppp/active/<row>: whatever holds the row goes.
RowCleared(row) ==
  /\ live' = {s \in live : rowOf[s] # row}
  /\ UNCHANGED <<rowOf, named, openedBy, account>>

LoseLock ==
  /\ holder # Nobody /\ Mishap
  /\ holder' = Nobody
  /\ UNCHANGED <<sessions, account, req, shutOut, begun>>

-----------------------------------------------------------------------------
(* PATCH /ppp/secret of an update, a suspension or a restoration.          *)

\* Without a unique id for every session a password is not changed.
ReviewUpdate(w) ==
  \E disable \in BOOLEAN :
    /\ Begins(w, "password",
         IF live \subseteq named
         THEN [Idle EXCEPT !.kind = "password", !.disable = disable, !.seen = live,
                           !.marked = live, !.at = "patch"]
         ELSE [Idle EXCEPT !.verdict = "refused"])
    /\ IF live \subseteq named THEN Locks(w) ELSE holder = Nobody /\ UNCHANGED holder

ReviewSuspend(w) ==
  /\ Begins(w, "suspend", [Idle EXCEPT !.kind = "suspend", !.disable = TRUE, !.seen = live,
                                       !.todo = live, !.at = "patch"])
  /\ Locks(w)

ReviewRestore(w) ==
  /\ disabled
  /\ Begins(w, "restore", [Idle EXCEPT !.kind = "restore", !.at = "patch"])
  /\ Locks(w)

Patched(w) ==
  /\ password' = password + IF req[w].kind = "password" THEN 1 ELSE 0
  /\ disabled' = req[w].disable
  /\ shutOut' = (shutOut /\ req[w].disable)
  /\ UNCHANGED sessions
Unpatched == UNCHANGED <<sessions, account, shutOut>>

\* An answer in the 400s rejects; any other error leaves the outcome open.
Patch(w) ==
  LET next(lost) == [req[w] EXCEPT
                       !.at = IF req[w].kind = "password" THEN "capture" ELSE "readBack",
                       !.ambiguous = lost, !.version = password']
  IN /\ req[w].at = "patch"
     /\ \/ /\ holder = w
           /\ \/ Patched(w) /\ req' = [req EXCEPT ![w] = next(FALSE)] /\ Smooth
              \/ (Patched(w) \/ Unpatched) /\ req' = [req EXCEPT ![w] = next(TRUE)] /\ Mishap
           /\ UNCHANGED <<holder, begun>>
        \/ /\ holder = w /\ req[w].kind = "password" /\ Mishap
           /\ UNCHANGED <<sessions, account>> /\ Answers(w, "rejected")
        \/ /\ holder # w /\ Smooth
           /\ UNCHANGED <<sessions, account>> /\ Answers(w, "coordination")

-----------------------------------------------------------------------------
(* _revoke_active_user_sessions.                                           *)

\* A session on a row of the first list is not marked: it was not reviewed.
Newcomers(w) == {s \in live \cap named : rowOf[s] \notin RowsOf(req[w].seen)}

Capture(w) ==
  LET marked == req[w].marked \cup Newcomers(w) IN
  /\ req[w].at = "capture"
  /\ Looks(Goes(w, [req[w] EXCEPT !.marked = marked, !.todo = marked, !.at = "check",
                                  !.uncaptured = ~(live \subseteq named)]),
           Goes(w, [req[w] EXCEPT !.todo = req[w].marked, !.at = "check",
                                  !.uncaptured = TRUE]))

OnRow(s) == {t \in live : rowOf[t] = rowOf[s]}

\* Each marked session is looked for again before its row is deleted.
Check(w) ==
  /\ req[w].at = "check"
  /\ \/ /\ req[w].todo = {}
        /\ To(w, "lastLook") /\ Smooth /\ UNCHANGED <<sessions, account>>
     \/ \E s \in req[w].todo :
          LET passed == [req[w] EXCEPT !.todo = @ \ {s}] IN
          /\ \A t \in req[w].todo : s =< t
          /\ Looks(CASE s \in live -> To(w, "drop")
                     [] s \notin live /\ OnRow(s) \ named # {} ->
                          Goes(w, [passed EXCEPT !.blurred = @ \cup {s}])
                     [] OTHER -> Goes(w, passed),
                   Goes(w, [req[w] EXCEPT !.status = "unknown", !.at = "confirm"]))

\* A refused or lost DELETE is left to the last look.
Drop(w) ==
  /\ req[w].at = "drop"
  /\ IF holder # w
     THEN To(w, "lostDrop") /\ Smooth /\ UNCHANGED <<sessions, account>>
     ELSE \E s \in req[w].todo :
            /\ \A t \in req[w].todo : s =< t
            /\ Goes(w, [req[w] EXCEPT !.todo = @ \ {s}, !.at = "check"])
            /\ \/ RowCleared(rowOf[s]) /\ Smooth
               \/ (RowCleared(rowOf[s]) \/ UNCHANGED <<sessions, account>>) /\ Mishap

\* summarize_sessions
Unmarked(w) == {s \in live \cap named : s \notin req[w].marked
                                         /\ rowOf[s] \notin RowsOf(req[w].seen)}
Incomplete(w) == live \cap named \cap req[w].marked # {} \/ Unmarked(w) # {}
Nameless(w) == {s \in live \ named : rowOf[s] \notin RowsOf(req[w].marked)}
Unresolved(w) ==
  (req[w].blurred \cup {m \in req[w].marked : OnRow(m) \ named # {}}) \ (live \cap named)

\* Mutant: what could not be captured is forgotten.
SummaryOfList(w) == IF Incomplete(w) THEN "incomplete" ELSE "verified"
Summary(w) ==
  CASE Incomplete(w) -> "incomplete"
    [] ~Incomplete(w) /\ (\/ Unresolved(w) # {} \/ Nameless(w) # {}
                          \/ req[w].uncaptured \/ req[w].ambiguous) -> "unknown"
    [] OTHER -> "verified"

LastLook(w) ==
  /\ req[w].at = "lastLook"
  /\ Looks(Goes(w, [req[w] EXCEPT !.status = Summary(w), !.at = "confirm"]),
           Goes(w, [req[w] EXCEPT !.status = "unknown", !.at = "confirm"]))

\* The lock went in the middle: what is left is reported, nothing is ended.
LostDrop(w) ==
  /\ req[w].at = "lostDrop"
  /\ \E status \in {Summary(w), "unknown"} :
       Looks(/\ status = Summary(w)
             /\ Ended(w, [req[w] EXCEPT !.status = status], "coordination")
             /\ UNCHANGED shutOut,
             /\ status = "unknown"
             /\ Ended(w, [req[w] EXCEPT !.status = status], "coordination")
             /\ UNCHANGED shutOut)

\* The account is read back; a lost answer leaves the password unverified; the
\* dashboard's own settings come last and may fail to be saved.
Confirm(w) ==
  /\ req[w].at = "confirm"
  /\ IF holder # w
     THEN UNCHANGED <<sessions, account>> /\ Answers(w, "coordination") /\ Smooth
     ELSE Looks(CASE disabled # req[w].disable -> Answers(w, "mismatch")
                  [] disabled = req[w].disable /\ req[w].ambiguous -> Answers(w, "unknown")
                  [] OTHER -> Answers(w, "changed"),
                Answers(w, "unknown") \/ Answers(w, "partial"))

-----------------------------------------------------------------------------
(* _set_user_access after its PATCH.                                       *)

ReadBack(w) ==
  LET suspends == req[w].kind = "suspend" IN
  /\ req[w].at = "readBack"
  /\ Looks(CASE disabled # suspends -> Answers(w, "mismatch")
             [] disabled = suspends /\ holder # w -> Answers(w, "coordination")
             [] disabled = suspends /\ holder = w /\ suspends -> To(w, "cut")
             [] OTHER -> Answers(w, "restored"),
           Answers(w, "unknown"))

\* The sessions of the review, by row.
Cut(w) ==
  /\ req[w].at = "cut"
  /\ \/ /\ req[w].todo = {}
        /\ To(w, "count") /\ Smooth /\ UNCHANGED <<sessions, account>>
     \/ /\ req[w].todo # {} /\ holder # w
        /\ UNCHANGED <<sessions, account>> /\ Answers(w, "coordination") /\ Smooth
     \/ /\ holder = w
        /\ \E s \in req[w].todo :
             /\ \A t \in req[w].todo : s =< t
             /\ Goes(w, [req[w] EXCEPT !.todo = @ \ {s}])
             /\ \/ RowCleared(rowOf[s]) /\ Smooth
                \/ (RowCleared(rowOf[s]) \/ UNCHANGED <<sessions, account>>) /\ Mishap

\* Mutant: only the sessions of the review are counted.
LeftOfReview(w) == live \cap req[w].seen
LeftOver(w) == live

Count(w) ==
  /\ req[w].at = "count"
  /\ UNCHANGED <<sessions, account>>
  /\ \/ /\ LeftOver(w) = {} /\ holder = w /\ Smooth
        /\ Ended(w, req[w], "suspended") /\ shutOut' = TRUE
     \/ LeftOver(w) # {} /\ holder = w /\ Smooth /\ Answers(w, "partial")
     \/ holder # w /\ Smooth /\ Answers(w, "coordination")
     \/ Mishap /\ Answers(w, "partial")

-----------------------------------------------------------------------------
(* _terminate_session, which takes no lock.                                *)

ReviewTerminate(w) ==
  \E s \in live :
    /\ Begins(w, "terminate", [Idle EXCEPT !.kind = "terminate", !.seen = {s},
                                           !.at = "terminate"])
    /\ UNCHANGED holder

Terminate(w) ==
  /\ req[w].at = "terminate"
  /\ \E s \in req[w].seen :
       /\ To(w, "poll")
       /\ \/ RowCleared(rowOf[s]) /\ Smooth
          \/ (RowCleared(rowOf[s]) \/ UNCHANGED <<sessions, account>>) /\ Mishap

\* Mutant: a request that was sent is believed.
SentIsGone(s) == FALSE

\* Without a unique id any session on the row is taken for the reviewed one.
Still(s) == IF s \in named THEN s \in live ELSE OnRow(s) # {}

\* Polled until it is gone or time is up.
Poll(w) ==
  /\ req[w].at = "poll"
  /\ \E s \in req[w].seen :
       Looks(IF Still(s) THEN Answers(w, "stillActive") ELSE Answers(w, "terminated"),
             Answers(w, "unknown"))

-----------------------------------------------------------------------------
(* The VPN client.                                                         *)

Connect(row) ==
  LET s == Cardinality(Opened) + 1 IN
  /\ ~disabled /\ s =< MaxSessions
  /\ row \notin RowsOf(live)
  /\ live' = live \cup {s}
  /\ rowOf' = [t \in Opened \cup {s} |-> IF t = s THEN row ELSE rowOf[t]]
  /\ openedBy' = [t \in Opened \cup {s} |-> IF t = s THEN password ELSE openedBy[t]]
  /\ \/ named' = named \cup {s} /\ Smooth
     \/ UNCHANGED named /\ Mishap
  /\ UNCHANGED <<account, holder, req, shutOut, begun>>

Disconnect(s) ==
  /\ s \in live
  /\ live' = live \ {s}
  /\ UNCHANGED <<rowOf, named, openedBy, account, holder, req, shutOut, begun, mishaps>>

-----------------------------------------------------------------------------
Update(w) ==
  \/ ReviewUpdate(w) \/ Patch(w) \/ Capture(w) \/ Check(w) \/ Drop(w)
  \/ LostDrop(w) \/ LastLook(w) \/ Confirm(w)

Access(w) == ReviewSuspend(w) \/ ReviewRestore(w) \/ ReadBack(w) \/ Cut(w) \/ Count(w)

Termination(w) == ReviewTerminate(w) \/ Terminate(w) \/ Poll(w)

Next ==
  \/ \E w \in Workers : Update(w) \/ Access(w) \/ Termination(w)
  \/ LoseLock
  \/ \E row \in Rows : Connect(row)
  \/ \E s \in live : Disconnect(s)

Spec == Init /\ [][Next]_vars

-----------------------------------------------------------------------------
OpenedBefore(w) == {s \in live : openedBy[s] < req[w].version}

\* When a password change reports its sessions revoked, no tunnel that the
\* old password opened is up, unless it took over a row of the reviewed list
\* before the update (app.py:5955-5963).
RevokedButForReusedRows ==
  \A w \in Workers : req[w].status = "verified" =>
    \A s \in OpenedBefore(w) : s \notin req[w].seen /\ rowOf[s] \in RowsOf(req[w].seen)

\* An account reported as suspended with no session left has none until it
\* is enabled again (app.py:7400-7490).
SuspendedStaysOut == shutOut => live = {}

\* A session reported as terminated is gone, also when its row was taken over by
\* another before the request or between two polls (app.py:8326-8420).
TerminatedIsGone ==
  \A w \in Workers : req[w].kind = "terminate" /\ req[w].verdict = "terminated" =>
    req[w].seen \cap live = {}
=============================================================================
