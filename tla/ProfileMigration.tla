-------------------------- MODULE ProfileMigration --------------------------
(***************************************************************************)
(* The replacement of one client certificate by another (app.py, store.py):*)
(* a new profile is issued and recorded as the replacement, an operator    *)
(* confirms that it was imported and then that it was tested, the old      *)
(* certificate is reviewed and revoked.  Each is a request of its own, of  *)
(* any operator, and reads the row of the migration and RouterOS before it *)
(* writes; only the issue of profiles takes the account's lock.            *)
(*                                                                         *)
(* One old certificate, managed or not; its replacements are numbered.     *)
(* RouterOS lists the sessions of the VPN user by rows, which it reuses.   *)
(***************************************************************************)
EXTENDS Naturals, FiniteSets

CONSTANTS Workers, Kinds, Replacements, Rows, Nobody, MaxRequests, MaxMishaps

None == 0

VARIABLES managed,      \* the old certificate has a row in the device table
          old, cert,    \* on RouterOS: the old certificate, its replacements
          sessions,     \* on RouterOS: rows of the user's sessions
          row,          \* the migration's row; ghosts: testedOn, testedFor, testedAfter,
                        \* retiredFor, what was checked for it and when
          local,        \* the device's row says it is revoked
          reviews,      \* receipts of previews, by replacement
          issuing,      \* who holds the account's lock
          req,          \* the request of each worker
          bridged,      \* ghost: replacements active at some time with the old one revoked
          begun, mishaps

router == <<old, cert, sessions, bridged>>
vars == <<managed, old, cert, sessions, row, local, reviews, issuing, req, bridged,
          begun, mishaps>>

Sides == Replacements \cup {None}
NoRow == [to |-> None, imported |-> FALSE, tested |-> FALSE, seen |-> {}, state |-> "",
          retiredFor |-> None, testedOn |-> {}, testedFor |-> None, testedAfter |-> FALSE]
Points == {"idle", "issue", "record", "undo", "certificates", "list", "write", "check",
           "send", "readBack", "store"}
\* after, a ghost: RouterOS was asked for sessions after the import was recorded.
Idle == [kind |-> "none", at |-> "idle", to |-> None, found |-> {}, state |-> "",
         after |-> FALSE]

TypeOK ==
  /\ managed \in BOOLEAN
  /\ old \in {"active", "revoked"}
  /\ cert \in [Replacements -> {"absent", "active", "revoked"}]
  /\ sessions \subseteq Rows
  /\ row \in [to : Sides, imported : BOOLEAN, tested : BOOLEAN, seen : SUBSET Rows,
              state : {"", "verified", "partial"}, retiredFor : Sides, testedOn : SUBSET Rows,
              testedFor : Sides, testedAfter : BOOLEAN]
  /\ local \in BOOLEAN /\ (local => managed)
  /\ reviews \subseteq Sides
  /\ issuing \in Workers \cup {Nobody}
  /\ req \in [Workers -> [kind : Kinds \cup {"none"}, at : Points, to : Sides,
                          found : SUBSET Rows, state : {"", "verified", "partial"},
                          after : BOOLEAN]]
  /\ bridged \subseteq Replacements
  /\ begun \in 0..MaxRequests /\ mishaps \in 0..MaxMishaps

Init ==
  /\ managed \in BOOLEAN
  /\ old = "active" /\ cert = [r \in Replacements |-> "absent"] /\ sessions = {}
  /\ row = NoRow /\ local = FALSE /\ reviews = {} /\ issuing = Nobody
  /\ req = [w \in Workers |-> Idle]
  /\ bridged = {} /\ begun = 0 /\ mishaps = 0

-----------------------------------------------------------------------------
Smooth == UNCHANGED mishaps
Mishap == mishaps < MaxMishaps /\ mishaps' = mishaps + 1

Goes(w, r) == req' = [req EXCEPT ![w] = r]
Ends(w) == Goes(w, Idle)

\* Certificates change on RouterOS, and what they have been is noted.
Certificates(o, c) ==
  /\ old' = o /\ cert' = c
  /\ bridged' = bridged \cup {r \in Replacements : o = "revoked" /\ c[r] = "active"}
  /\ UNCHANGED sessions

Active(c, r) == r # None => c[r] = "active"

-----------------------------------------------------------------------------
(* A profile is issued to replace the old one, under the account's lock.   *)

\* The review found the old certificate active; it is asked again before issue.
BeginIssue(w) ==
  /\ req[w].at = "idle" /\ begun < MaxRequests /\ "replace" \in Kinds
  /\ issuing = Nobody /\ old = "active"
  /\ issuing' = w /\ begun' = begun + 1
  /\ Goes(w, [Idle EXCEPT !.kind = "replace", !.at = "issue"])
  /\ Smooth
  /\ UNCHANGED <<managed, router, row, local, reviews>>

Issue(w, r) ==
  /\ req[w].at = "issue" /\ cert[r] = "absent"
  /\ Certificates(old, [cert EXCEPT ![r] = "active"])
  /\ Goes(w, [req[w] EXCEPT !.at = "record", !.to = r]) /\ Smooth
  /\ UNCHANGED <<managed, row, local, reviews, issuing, begun>>

\* record_profile_migration: an upsert that forgets every confirmation.  What
\* follows it may fail as well, and the row stays.
Replaced(r) == [NoRow EXCEPT !.to = r]
Record(w) ==
  /\ req[w].at = "record"
  /\ \/ row' = Replaced(req[w].to) /\ Ends(w) /\ issuing' = Nobody /\ Smooth
     \/ /\ row' \in {row, Replaced(req[w].to)} /\ UNCHANGED issuing /\ Mishap
        /\ Goes(w, [req[w] EXCEPT !.at = "undo"])
  /\ UNCHANGED <<managed, router, local, reviews, begun>>

\* The compensation of an issue that could not be recorded, which may fail too.
Undo(w) ==
  /\ req[w].at = "undo"
  /\ \/ Certificates(old, [cert EXCEPT ![req[w].to] = "revoked"]) /\ Smooth
     \/ UNCHANGED router /\ Mishap
  /\ Ends(w) /\ issuing' = Nobody
  /\ UNCHANGED <<managed, row, local, reviews, begun>>

-----------------------------------------------------------------------------
(* _confirm_profile_migration_step: "imported", then "tested".             *)

BeginStep(w, step) ==
  /\ req[w].at = "idle" /\ begun < MaxRequests /\ step \in Kinds
  /\ row.to # None /\ (step = "tested" => row.imported)
  /\ begun' = begun + 1
  /\ Goes(w, [Idle EXCEPT !.kind = step, !.at = "certificates", !.to = row.to])
  /\ Smooth
  /\ UNCHANGED <<managed, router, row, local, reviews, issuing>>

\* list_ovpn_client_certificates
CheckCertificates(w) ==
  /\ req[w].at = "certificates"
  /\ \/ /\ old = "active" /\ Active(cert, req[w].to)
        /\ Goes(w, [req[w] EXCEPT !.at = "list"]) /\ Smooth
     \/ ~(old = "active" /\ Active(cert, req[w].to)) /\ Ends(w) /\ Smooth
     \/ Ends(w) /\ Mishap
  /\ UNCHANGED <<managed, router, row, local, reviews, issuing, begun>>

\* list_active_ovpn_sessions
ListSessions(w) ==
  /\ req[w].at = "list"
  /\ \/ /\ req[w].kind = "imported" \/ sessions # {}
        /\ Goes(w, [req[w] EXCEPT !.at = "write", !.found = sessions,
                      !.after = row.to = req[w].to /\ row.imported])
        /\ Smooth
     \/ req[w].kind = "tested" /\ sessions = {} /\ Ends(w) /\ Smooth
     \/ Ends(w) /\ Mishap
  /\ UNCHANGED <<managed, router, row, local, reviews, issuing, begun>>

\* Only the first confirmation of the import counts.
Imported(w) ==
  IF row.imported THEN row
  ELSE [row EXCEPT !.imported = TRUE, !.seen = req[w].found]

\* Mutant: what the handler saw before it asked RouterOS is good enough.
TestCountsEarly(w) == req[w].found \ row.seen # {}
\* A test wants a confirmed import and a session that was not there then.
TestCounts(w) == row.imported /\ req[w].found \ row.seen # {}

\* record_profile_migration_step, one transaction; the row is found by the name
\* of the old certificate.
RecordStep(w) ==
  /\ req[w].at = "write"
  /\ \/ req[w].kind = "imported" /\ row' = Imported(w)
     \/ /\ req[w].kind = "tested"
        /\ row' = IF TestCounts(w)
                    THEN [row EXCEPT !.tested = TRUE, !.testedOn = req[w].found,
                                     !.testedFor = req[w].to, !.testedAfter = req[w].after]
                    ELSE row
  /\ Ends(w) /\ Smooth
  /\ UNCHANGED <<managed, router, local, reviews, issuing, begun>>

-----------------------------------------------------------------------------
(* _revoke_device: the old certificate is reviewed, then retired.          *)

\* A managed certificate without a migration may be revoked as it is.
MayRetire == ~local /\ (row.tested \/ (managed /\ row.to = None))

BeginRetire(w, kind) ==
  /\ req[w].at = "idle" /\ begun < MaxRequests /\ kind \in Kinds \cap {"preview", "retire"}
  /\ MayRetire
  /\ begun' = begun + 1
  /\ Goes(w, [Idle EXCEPT !.kind = kind, !.at = "check", !.to = row.to])
  /\ Smooth
  /\ UNCHANGED <<managed, router, row, local, reviews, issuing>>

\* The certificates are read; a preview issues a receipt for what it saw, which
\* the revocation uses up.
Review(w) ==
  LET shown == (old = "active" /\ Active(cert, req[w].to))
      kind == req[w].kind IN
  /\ req[w].at = "check"
  /\ \/ /\ shown /\ kind = "preview" /\ Smooth
        /\ reviews' = reviews \cup {req[w].to} /\ Ends(w)
     \/ /\ shown /\ kind = "retire" /\ req[w].to \in reviews /\ Smooth
        /\ reviews' = reviews \ {req[w].to}
        /\ Goes(w, [req[w] EXCEPT !.at = "send"])
     \/ /\ ~shown \/ (kind = "retire" /\ req[w].to \notin reviews)
        /\ Ends(w) /\ UNCHANGED reviews /\ Smooth
     \/ Ends(w) /\ UNCHANGED reviews /\ Mishap
  /\ UNCHANGED <<managed, router, row, local, issuing, begun>>

\* revoke_certificate: whatever the answer, RouterOS is read back.
SendRevoke(w) ==
  /\ req[w].at = "send"
  /\ \/ Certificates("revoked", cert) /\ Smooth
     \/ UNCHANGED router /\ Mishap
  /\ Goes(w, [req[w] EXCEPT !.at = "readBack"])
  /\ UNCHANGED <<managed, row, local, reviews, issuing, begun>>

\* Mutant: the answer to the request is believed.
ShownRevokedUnread == TRUE
ShownRevoked == old = "revoked"
\* Mutant: the replacement is not looked at again.
OutcomeUnread(to) == "verified"
Outcome(to) == IF Active(cert, to) THEN "verified" ELSE "partial"

ReadBack(w) ==
  /\ req[w].at = "readBack"
  /\ \/ /\ ShownRevoked /\ Smooth
        /\ Goes(w, [req[w] EXCEPT !.at = "store", !.state = Outcome(req[w].to)])
     \/ ~ShownRevoked /\ Ends(w) /\ Smooth
     \/ Ends(w) /\ Mishap
  /\ UNCHANGED <<managed, router, row, local, reviews, issuing, begun>>

\* mark_revoked and record_profile_migration_retirement
StoreRetired(w) ==
  /\ req[w].at = "store"
  /\ local' = managed
  /\ row' = IF req[w].to # None /\ row.to # None
              THEN [row EXCEPT !.state = req[w].state, !.retiredFor = req[w].to] ELSE row
  /\ Ends(w) /\ Smooth
  /\ UNCHANGED <<managed, router, reviews, issuing, begun>>

-----------------------------------------------------------------------------
(* RouterOS and its clients.                                               *)

Connect(s) ==
  /\ s \in Rows \ sessions /\ sessions' = sessions \cup {s}
  /\ UNCHANGED <<managed, old, cert, bridged, row, local, reviews, issuing, req, begun,
                 mishaps>>
Disconnect(s) ==
  /\ s \in sessions /\ sessions' = sessions \ {s}
  /\ UNCHANGED <<managed, old, cert, bridged, row, local, reviews, issuing, req, begun,
                 mishaps>>
\* An administrator revokes a replacement on the router.
RevokeReplacement(r) ==
  /\ cert[r] = "active" /\ Mishap
  /\ Certificates(old, [cert EXCEPT ![r] = "revoked"])
  /\ UNCHANGED <<managed, row, local, reviews, issuing, req, begun>>

Next ==
  \/ \E w \in Workers :
       \/ BeginIssue(w) \/ (\E r \in Replacements : Issue(w, r)) \/ Record(w) \/ Undo(w)
       \/ \E step \in {"imported", "tested"} : BeginStep(w, step)
       \/ CheckCertificates(w) \/ ListSessions(w) \/ RecordStep(w)
       \/ \E kind \in {"preview", "retire"} : BeginRetire(w, kind)
       \/ Review(w) \/ SendRevoke(w) \/ ReadBack(w) \/ StoreRetired(w)
  \/ \E s \in Rows : Connect(s) \/ Disconnect(s)
  \/ \E r \in Replacements : RevokeReplacement(r)

Spec == Init /\ [][Next]_vars

-----------------------------------------------------------------------------
(* What it promises.                                                       *)

\* A recorded test stands on a recorded import and on a session that the import
\* did not find.  If it was begun for the replacement the row names, RouterOS was
\* asked for sessions after the import had been recorded in that replacement's row.
\* A confirmation begun for an earlier replacement can be recorded there as well, and
\* of such a test this does not hold: its sessions may be from before the import
\* (store.py:1141-1187).
TestsFollowImports ==
  row.tested =>
    /\ row.imported /\ row.testedOn \ row.seen # {}
    /\ row.testedFor = row.to => row.testedAfter

\* What the dashboard shows as retired is revoked on the router.
RetiredIsRevoked == (row.state # "" \/ local) => old = "revoked"

\* A retirement is called verified only when there was a time at which the old
\* certificate was revoked and the reviewed replacement active.
RetirementLeavesAWay ==
  row.state = "verified" => row.retiredFor \in bridged
=============================================================================
