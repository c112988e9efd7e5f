-------------------------- MODULE CredentialChecks --------------------------
(***************************************************************************)
(* LoginRateLimiter (security.py) and the handlers of app.py that ask it   *)
(* before they let RouterOS check a password: login, reauthentication, and *)
(* the three revocations of dashboard sessions that demand the password    *)
(* again.  Any number of them run at once on the one limiter; the check of *)
(* a password, the session store and the audit log answer in their own     *)
(* time, or fail.                                                          *)
(*                                                                         *)
(* What the session store does is SessionStore; here its answers are any   *)
(* it could give.  A method of the limiter runs under its lock and is one  *)
(* step.  Stamps of attempts are counted; their ageing is a step.          *)
(***************************************************************************)
EXTENDS Naturals, FiniteSets, FiniteSetsExt

CONSTANTS Workers, Identities, Kinds, Nobody,
          Limit,         \* failures and attempts in flight, per identity
          MaxInFlight,   \* max_in_flight
          MaxTracked,    \* max_tracked_identities
          MaxRequests, MaxMishaps

ASSUME NumberAssumption ==
  /\ IsFiniteSet(Workers) /\ Nobody \notin Identities
  /\ Limit \in Nat /\ MaxTracked \in Nat /\ MaxRequests \in Nat /\ MaxMishaps \in Nat

Revocations == {"revokeSession", "revokeAccount", "revokeOthers"}

VARIABLES recent, aged,    \* _attempts: stamps in the window, identities with older ones
          reserved,        \* _reservations, counted for every identity
          loginAudit,      \* the aggregate audit of refused logins
          adminAudit,      \* the audit of refused account revocations
          capable,         \* the administrators' account may manage sessions
          req,             \* the request of each worker
          guessed,         \* ghost: rejected passwords in the window, since one was right
          refused, onRecord,     \* ghosts: refused logins, those in the audit log
          adminRecorded,   \* ghost: a refused revocation was recorded in this interval
          begun, mishaps

limiter == <<recent, aged, reserved, guessed>>
audits == <<loginAudit, adminAudit, refused, onRecord, adminRecorded>>
vars == <<recent, aged, reserved, loginAudit, adminAudit, capable, req, guessed, refused,
          onRecord, adminRecorded, begun, mishaps>>

Stages == {"idle", "verify", "loginAudit", "adminAudit", "commit", "rotate", "recheck",
           "start", "revoke", "close"}
Answers == {"none", "limited", "rejected", "denied", "unavailable", "error", "signedIn",
            "rotated", "notRevoked", "revoked", "pending"}

\* A request: what it may do when, whether it holds a reservation, and, as history,
\* whether the account could manage sessions since its password was right, what it
\* did to sessions, whether that was on record first, and its answer.
Requests ==
  [kind : Kinds \cup {"none"}, id : Identities \cup {Nobody}, at : Stages,
   held : BOOLEAN, stood : BOOLEAN, done : {"no", "yes", "later"},
   started : BOOLEAN, answer : Answers]

TypeOK ==
  /\ recent \in [Identities -> 0..Limit] /\ aged \subseteq Identities
  /\ reserved \in [Identities -> 0..Limit]
  /\ loginAudit \in [near : BOOLEAN, writing : BOOLEAN, suppressed : 0..MaxRequests,
                     taken : 0..MaxRequests, during : 0..MaxRequests]
  /\ ~loginAudit.writing => loginAudit.taken = 0 /\ loginAudit.during = 0
  /\ adminAudit \in [near : BOOLEAN, writing : BOOLEAN]
  /\ capable \in BOOLEAN
  /\ req \in [Workers -> Requests]
  /\ guessed \in [Identities -> 0..Limit]
  /\ refused \in 0..MaxRequests /\ onRecord \in 0..MaxRequests
  /\ adminRecorded \in BOOLEAN
  /\ begun \in 0..MaxRequests /\ mishaps \in 0..MaxMishaps

NoRequest == [kind |-> "none", id |-> Nobody, at |-> "idle", held |-> FALSE,
              stood |-> FALSE, done |-> "no", started |-> FALSE, answer |-> "none"]

Init ==
  /\ recent = [i \in Identities |-> 0] /\ aged = {}
  /\ reserved = [i \in Identities |-> 0]
  /\ loginAudit = [near |-> FALSE, writing |-> FALSE, suppressed |-> 0, taken |-> 0,
                   during |-> 0]
  /\ adminAudit = [near |-> FALSE, writing |-> FALSE]
  /\ capable = TRUE
  /\ req = [w \in Workers |-> NoRequest]
  /\ guessed = [i \in Identities |-> 0]
  /\ refused = 0 /\ onRecord = 0 /\ adminRecorded = FALSE
  /\ begun = 0 /\ mishaps = 0

-----------------------------------------------------------------------------
(* The limiter.                                                            *)

InFlight == MapThenSumSet(LAMBDA i : reserved[i], Identities)
Tracked == {i \in Identities : reserved[i] > 0 \/ recent[i] > 0}

\* Mutant: an attempt in flight does not count against its identity's limit.
MayReserveUncounted(i) ==
  /\ InFlight < MaxInFlight
  /\ i \in Tracked \/ Cardinality(Tracked) < MaxTracked
  /\ recent[i] < Limit
\* Mutant: identities whose attempts are all in flight are not tracked.
MayReserveUntracked(i) ==
  /\ InFlight < MaxInFlight
  /\ recent[i] > 0 \/ Cardinality({j \in Identities : recent[j] > 0}) < MaxTracked
  /\ recent[i] + reserved[i] < Limit
MayReserve(i) ==
  /\ InFlight < MaxInFlight
  /\ i \in Tracked \/ Cardinality(Tracked) < MaxTracked
  /\ recent[i] + reserved[i] < Limit

Goes(w, r) == req' = [req EXCEPT ![w] = r]
Ends(r, answer) == [r EXCEPT !.at = "idle", !.id = Nobody, !.stood = FALSE, !.answer = answer]

\* Mutant: only a password that was rejected gives its reservation back.
FinishRejected(w, result) ==
  LET i == req[w].id IN
  /\ reserved' = IF result = "failed" THEN [reserved EXCEPT ![i] = @ - 1] ELSE reserved
  /\ recent' = [recent EXCEPT ![i] = IF result = "failed" THEN @ + 1
                                     ELSE IF result = "verified" THEN 0 ELSE @]
  /\ guessed' = [guessed EXCEPT ![i] = IF result = "failed" THEN @ + 1
                                       ELSE IF result = "verified" THEN 0 ELSE @]
  /\ aged' = IF result = "verified" THEN aged \ {i} ELSE aged
\* finish, by a handler that holds a reservation.
Finish(w, result) ==
  LET i == req[w].id
      after == [failed |-> recent[i] + 1, verified |-> 0, open |-> recent[i]] IN
  /\ reserved' = [reserved EXCEPT ![i] = @ - 1]
  /\ recent' = [recent EXCEPT ![i] = after[result]]
  /\ aged' = IF result = "verified" THEN aged \ {i} ELSE aged
  /\ guessed' = [guessed EXCEPT ![i] = IF result = "failed" THEN @ + 1
                                       ELSE IF result = "verified" THEN 0 ELSE @]

\* reserve_rate_limited_login_audit, by a login that was refused
Refusal ==
  CASE loginAudit.writing -> [loginAudit EXCEPT !.during = @ + 1]
    [] loginAudit.near /\ ~loginAudit.writing -> [loginAudit EXCEPT !.suppressed = @ + 1]
    [] OTHER -> [near |-> TRUE, writing |-> TRUE, suppressed |-> 0,
                 taken |-> loginAudit.suppressed, during |-> 0]

\* Mutant: the count of the interval is lost with the record that was not written.
RecordedLossy(ok) ==
  [loginAudit EXCEPT !.writing = FALSE, !.taken = 0, !.during = 0,
                     !.suppressed = loginAudit.during]
\* complete_rate_limited_login_audit
Recorded(ok) ==
  [loginAudit EXCEPT !.writing = FALSE, !.taken = 0, !.during = 0,
                     !.suppressed = IF ok THEN loginAudit.during
                                    ELSE loginAudit.taken + loginAudit.during + 1]

\* Mutant: a record that was not written still silences the interval.
AdminRecordedAnyway(ok) == [near |-> TRUE, writing |-> FALSE]
\* complete_admin_account_rate_limited_audit
AdminRecorded(ok) == [near |-> ok, writing |-> FALSE]

-----------------------------------------------------------------------------
(* The handlers.                                                           *)

Smooth == UNCHANGED mishaps
Mishap == mishaps < MaxMishaps /\ mishaps' = mishaps + 1

\* reserve: the history of every identity is pruned, the attempt let in or not.
Begin(w, kind, i) ==
  LET r == [NoRequest EXCEPT !.kind = kind, !.id = i] IN
  /\ req[w].at = "idle" /\ begun < MaxRequests
  /\ kind \in Revocations => capable \/ kind = "revokeOthers"
  /\ begun' = begun + 1
  /\ aged' = {}
  /\ \/ /\ MayReserve(i)
        /\ reserved' = [reserved EXCEPT ![i] = @ + 1]
        /\ Goes(w, [r EXCEPT !.at = "verify", !.held = TRUE])
        /\ UNCHANGED audits
     \/ /\ ~MayReserve(i) /\ UNCHANGED reserved
        /\ \/ /\ kind = "login"
              /\ refused' = refused + 1 /\ loginAudit' = Refusal
              /\ Goes(w, IF Refusal.writing /\ ~loginAudit.writing
                           THEN [r EXCEPT !.at = "loginAudit"]
                           ELSE Ends(r, "limited"))
              /\ UNCHANGED <<adminAudit, onRecord, adminRecorded>>
           \/ /\ kind = "revokeAccount"
              /\ IF adminAudit.writing \/ adminAudit.near
                   THEN Goes(w, Ends(r, "limited")) /\ UNCHANGED adminAudit
                   ELSE /\ adminAudit' = [near |-> TRUE, writing |-> TRUE]
                        /\ Goes(w, [r EXCEPT !.at = "adminAudit"])
              /\ UNCHANGED <<loginAudit, refused, onRecord, adminRecorded>>
           \/ /\ kind \notin {"login", "revokeAccount"}
              /\ Goes(w, Ends(r, "limited")) /\ UNCHANGED audits
  /\ Smooth
  /\ UNCHANGED <<recent, capable, guessed>>

WriteLoginAudit(w) ==
  /\ req[w].at = "loginAudit"
  /\ \/ /\ loginAudit' = Recorded(TRUE) /\ onRecord' = onRecord + loginAudit.taken + 1
        /\ Goes(w, Ends(req[w], "limited")) /\ Smooth
     \/ /\ loginAudit' = Recorded(FALSE) /\ UNCHANGED onRecord
        /\ Goes(w, Ends(req[w], "unavailable")) /\ Mishap
  /\ UNCHANGED <<limiter, adminAudit, capable, refused, adminRecorded, begun>>

WriteAdminAudit(w) ==
  /\ req[w].at = "adminAudit"
  /\ \/ adminAudit' = AdminRecorded(TRUE) /\ adminRecorded' = TRUE /\ Smooth
     \/ adminAudit' = AdminRecorded(FALSE) /\ UNCHANGED adminRecorded /\ Mishap
  /\ Goes(w, Ends(req[w], "limited"))
  /\ UNCHANGED <<limiter, loginAudit, capable, refused, onRecord, begun>>

\* RouterOS rejects the password, refuses the API, or cannot be asked.  A login
\* whose form is malformed, or whose account is gone, counts as rejected.
Unverified(w) ==
  /\ req[w].at = "verify"
  /\ \/ Finish(w, "failed") /\ Goes(w, [Ends(req[w], "rejected") EXCEPT !.held = FALSE])
        /\ Smooth
     \/ /\ Finish(w, "open") /\ Mishap
        /\ \E answer \in {"denied", "unavailable", "error"} :
              Goes(w, [Ends(req[w], answer) EXCEPT !.held = FALSE])
  /\ UNCHANGED <<audits, capable, begun>>

\* RouterOS verifies the password.  A login keeps its reservation until its
\* session is stored; the other handlers give it back and write the record of
\* the check, and end if that fails.
Verified(w) ==
  /\ req[w].at = "verify"
  /\ \/ /\ req[w].kind = "login"
        /\ Goes(w, [req[w] EXCEPT !.at = "commit"]) /\ Smooth
        /\ UNCHANGED limiter
     \/ /\ req[w].kind # "login"
        /\ Finish(w, "verified")
        /\ LET r == [req[w] EXCEPT !.held = FALSE, !.stood = capable] IN
           \/ /\ Goes(w, [r EXCEPT !.at = IF r.kind = "reauth" THEN "rotate" ELSE "recheck"])
              /\ Smooth
           \/ r.kind # "reauth" /\ Goes(w, Ends(r, "error")) /\ Mishap
  /\ UNCHANGED <<audits, capable, begun>>

\* sessions.create answers: a session, access changed since, too many sessions,
\* or it raises.
CommitLogin(w) ==
  /\ req[w].at = "commit"
  /\ \/ /\ Finish(w, "verified") /\ Smooth
        /\ \E answer \in {"signedIn", "denied", "limited"} :
              Goes(w, [Ends(req[w], answer) EXCEPT !.held = FALSE])
     \/ /\ Finish(w, "open") /\ Mishap
        /\ Goes(w, [Ends(req[w], "unavailable") EXCEPT !.held = FALSE])
  /\ UNCHANGED <<audits, capable, begun>>

\* sessions.rotate answers: a replacement, none, or it raises.
Rotate(w) ==
  /\ req[w].at = "rotate"
  /\ \/ Goes(w, Ends(req[w], "rotated")) /\ Smooth
     \/ \E answer \in {"denied", "unavailable"} : Goes(w, Ends(req[w], answer)) /\ Mishap
  /\ UNCHANGED <<limiter, audits, capable, begun>>

\* Mutant: the role the request arrived with is good enough.
StillManagesOnce(w) == TRUE
StillManages(w) == capable \/ req[w].kind = "revokeOthers"

\* revalidate_session: RouterOS is asked again; the session may have ended.
Recheck(w) ==
  /\ req[w].at = "recheck"
  /\ \/ /\ StillManages(w) /\ Smooth
        /\ Goes(w, [req[w] EXCEPT !.at = IF req[w].kind = "revokeAccount"
                                           THEN "start" ELSE "revoke"])
     \/ ~StillManages(w) /\ Goes(w, Ends(req[w], "notRevoked")) /\ Smooth
     \/ Goes(w, Ends(req[w], "notRevoked")) /\ Mishap
  /\ UNCHANGED <<limiter, audits, capable, begun>>

Unstarted(r) == Ends(r, "notRevoked")
\* The record of an account's revocation comes before it.
StartRecord(w) ==
  /\ req[w].at = "start"
  /\ \/ Goes(w, [req[w] EXCEPT !.at = "revoke", !.started = TRUE]) /\ Smooth
     \/ Goes(w, Unstarted(req[w])) /\ Mishap
  /\ UNCHANGED <<limiter, audits, capable, begun>>

\* Mutant: a revocation left to the retry thread answers as one that is done.
PostponedAsDone(r) == Ends([r EXCEPT !.done = "later"], "revoked")
Postponed(r) == Ends([r EXCEPT !.done = "later"], "pending")
\* The session store revokes, finds nothing to revoke, or, for an account whose
\* sessions are busy, takes it on for later.
Revoke(w) ==
  /\ req[w].at = "revoke"
  /\ \/ Goes(w, [req[w] EXCEPT !.done = "yes", !.at = "close"]) /\ Smooth
     \/ /\ req[w].kind = "revokeAccount"
        /\ Goes(w, Postponed(req[w])) /\ Smooth
     \/ /\ req[w].kind # "revokeAccount"
        /\ Goes(w, Ends(req[w], "notRevoked")) /\ Mishap
  /\ UNCHANGED <<limiter, audits, capable, begun>>

\* The record of what was revoked; without it the answer says so.
Close(w) ==
  /\ req[w].at = "close"
  /\ \/ Goes(w, Ends(req[w], "revoked")) /\ Smooth
     \/ /\ Goes(w, Ends(req[w], IF req[w].kind = "revokeAccount" THEN "revoked" ELSE "error"))
        /\ Mishap
  /\ UNCHANGED <<limiter, audits, capable, begun>>

-----------------------------------------------------------------------------
(* Time, and RouterOS.                                                     *)

\* The oldest stamp of an identity leaves the window.
WindowPasses(i) ==
  /\ recent[i] > 0
  /\ recent' = [recent EXCEPT ![i] = @ - 1]
  /\ guessed' = [guessed EXCEPT ![i] = @ - 1]
  /\ aged' = aged \cup {i}
  /\ UNCHANGED <<reserved, audits, capable, req, begun, mishaps>>

LoginIntervalPasses ==
  /\ loginAudit.near
  /\ loginAudit' = [loginAudit EXCEPT !.near = FALSE]
  /\ UNCHANGED <<limiter, adminAudit, refused, onRecord, adminRecorded, capable, req,
                 begun, mishaps>>

AdminIntervalPasses ==
  /\ adminAudit.near
  /\ adminAudit' = [adminAudit EXCEPT !.near = FALSE] /\ adminRecorded' = FALSE
  /\ UNCHANGED <<limiter, loginAudit, refused, onRecord, capable, req, begun, mishaps>>

\* The account's role is changed on RouterOS.
ChangeRole ==
  /\ Mishap
  /\ capable' = ~capable
  /\ req' = [w \in Workers |-> IF req[w].at \in {"recheck", "start", "revoke"}
                                 THEN [req[w] EXCEPT !.stood = @ \/ capable'] ELSE req[w]]
  /\ UNCHANGED <<limiter, audits, begun>>

Next ==
  \/ \E w \in Workers :
       \/ \E kind \in Kinds, i \in Identities : Begin(w, kind, i)
       \/ WriteLoginAudit(w) \/ WriteAdminAudit(w)
       \/ Unverified(w) \/ Verified(w) \/ CommitLogin(w) \/ Rotate(w)
       \/ Recheck(w) \/ StartRecord(w) \/ Revoke(w) \/ Close(w)
  \/ \E i \in Identities : WindowPasses(i)
  \/ LoginIntervalPasses \/ AdminIntervalPasses \/ ChangeRole

Spec == Init /\ [][Next]_vars

-----------------------------------------------------------------------------
(* What it promises.                                                       *)

Checking(i) == {w \in Workers : req[w].held /\ req[w].id = i}

\* However logins, reauthentications and revocations interleave, RouterOS is not
\* asked to check more than Limit passwords of an identity in a window that do
\* not turn out right (reserve and finish, security.py:1349).
GuessesBounded == \A i \in Identities : guessed[i] + Cardinality(Checking(i)) <= Limit

\* A reservation lives as long as the request that took it: none is leaked by an
\* exception, and an outage of RouterOS does not fill the limiter for good.
SlotsAreHeld ==
  \A i \in Identities : reserved[i] = Cardinality(Checking(i))

\* The limiter remembers a bounded number of identities, whoever calls.
MemoryBounded ==
  Cardinality({i \in Identities : recent[i] > 0 \/ reserved[i] > 0 \/ i \in aged})
    <= MaxTracked

\* Every refused login is in the audit log or still to be, whichever writes
\* failed and whoever was refused during them.
RefusalsCounted ==
  refused = onRecord + loginAudit.suppressed
              + (IF loginAudit.writing THEN loginAudit.taken + loginAudit.during + 1 ELSE 0)

\* A refused account revocation goes unrecorded only when another was recorded in
\* the same interval, or is being recorded.
SilenceHasARecord == adminAudit.near => adminAudit.writing \/ adminRecorded

\* What the answer says of the sessions is what happened to them; an account's
\* revocation is on record before it happens.
AnswersAreHonest ==
  \A w \in Workers :
    /\ req[w].done # "no" /\ req[w].kind = "revokeAccount" => req[w].started
    /\ req[w].answer = "revoked" => req[w].done = "yes"
    /\ req[w].answer = "pending" => req[w].done = "later"
    /\ req[w].answer = "notRevoked" => req[w].done = "no"

\* What the limiter and the handlers around it promise in every state.
CredentialsAreGuarded ==
  /\ TypeOK
  /\ GuessesBounded /\ SlotsAreHeld /\ MemoryBounded
  /\ RefusalsCounted /\ SilenceHasARecord
  /\ AnswersAreHonest

\* Sessions of others are revoked only for an administrator whose account could
\* manage sessions at some time after the password was checked.
RevokesWithStandingStep ==
  \A w \in Workers :
     req'[w].done # "no" /\ req[w].done = "no" /\ req[w].kind # "revokeOthers"
       => req[w].stood
RevokesWithStanding == [][RevokesWithStandingStep]_vars
=============================================================================
