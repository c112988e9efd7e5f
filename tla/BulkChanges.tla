---------------------------- MODULE BulkChanges ----------------------------
(***************************************************************************)
(* Handlers that change many VPN accounts in one request (app.py): the     *)
(* application of a policy template and the bulk suspension and bulk       *)
(* revocation of selected users.  The accounts are locked together,        *)
(* changed one after the other, and answered with one outcome each; a lost *)
(* lock ends the request with the outcomes so far.                         *)
(*                                                                         *)
(* Every account has one tunnel at most and a fixed set of certificates.   *)
(* mutation_locks is taken in one step (MutationLocks); receipts are       *)
(* ReviewCoordination.  A single edit of one account stands for the other  *)
(* requests that change it: they run under the same lock.                  *)
(***************************************************************************)
EXTENDS Naturals, FiniteSets

CONSTANTS Workers, Accounts, Kinds, Templates, Nobody, Devices, MaxRequests, MaxMishaps

\* Accounts are handled in the order of the request: 1, 2, ...; so are the devices of one.
BulkAssumption ==
  Accounts \subseteq Nat /\ Devices \subseteq Nat /\ Templates # {} /\ Nobody \notin Workers

VARIABLES disabled, online,   \* accounts, on the router
          profile,            \* the PPP profile of each account
          revoked,            \* certificates revoked on the router
          closed,             \* devices closed in the dashboard
          assigned,           \* the template the dashboard holds for an account
          holder,             \* of each account's lock
          req,
          touched,            \* ghost: accounts the request changed on the router
          begun, mishaps

router == <<disabled, online, profile, revoked>>
store == <<closed, assigned>>
vars == <<disabled, online, profile, revoked, closed, assigned, holder, req, touched,
          begun, mishaps>>

Certs == Accounts \X Devices
Stages == {"idle", "turn", "patch", "readBack", "cut", "count", "settle",
           "revoke", "revoked", "rate", "assign", "readProfile"}
Outcomes == {"none", "skipped", "unchanged", "failed", "unknown", "partial", "verified"}
Verdicts == {"none", "done", "coordination", "crashed"}

TypeOK ==
  /\ disabled \subseteq Accounts /\ online \subseteq Accounts
  /\ profile \in [Accounts -> Templates]
  /\ revoked \subseteq Certs /\ closed \subseteq Certs
  /\ assigned \in [Accounts -> Templates]
  /\ holder \in [Accounts -> Workers \cup {Nobody}]
  /\ req \in [Workers ->
       [kind : Kinds \cup {"none"}, at : Stages, todo : SUBSET Accounts,
        selected : SUBSET Accounts, template : Templates, skip : SUBSET Accounts,
        listed : SUBSET Accounts, devices : SUBSET Certs, mismatch : BOOLEAN,
        started : BOOLEAN, left : BOOLEAN, outcome : [Accounts -> Outcomes],
        verdict : Verdicts]]
  /\ touched \in [Workers -> SUBSET Accounts]
  /\ begun \in 0..MaxRequests /\ mishaps \in 0..MaxMishaps

SomeTemplate == CHOOSE t \in Templates : TRUE
Idle == [kind |-> "none", at |-> "idle", todo |-> {}, selected |-> {},
         template |-> SomeTemplate, skip |-> {}, listed |-> {}, devices |-> {},
         mismatch |-> FALSE, started |-> FALSE, left |-> FALSE,
         outcome |-> [a \in Accounts |-> "none"], verdict |-> "none"]

Init ==
  /\ disabled = {} /\ online = Accounts
  /\ profile = [a \in Accounts |-> SomeTemplate]
  /\ revoked = {} /\ closed = {}
  /\ assigned = profile
  /\ holder = [a \in Accounts |-> Nobody]
  /\ req = [w \in Workers |-> Idle]
  /\ touched = [w \in Workers |-> {}]
  /\ begun = 0 /\ mishaps = 0

-----------------------------------------------------------------------------
Mishap == mishaps < MaxMishaps /\ mishaps' = mishaps + 1
Smooth == UNCHANGED mishaps

\* The account whose turn it is.
Turn(w) == CHOOSE a \in req[w].todo : \A b \in req[w].todo : a =< b
Owned(w) == holder[Turn(w)] = w

Goes(w, r) == req' = [req EXCEPT ![w] = r] /\ UNCHANGED <<holder, begun>>
To(w, stage) == Goes(w, [req[w] EXCEPT !.at = stage])
Untouched == UNCHANGED touched

\* The outcome of this account; the next one follows.
Outcome(w, status) ==
  Goes(w, [req[w] EXCEPT !.outcome[Turn(w)] = status, !.todo = @ \ {Turn(w)},
                         !.started = FALSE, !.mismatch = FALSE, !.at = "turn"])

LeavesWith(w, outcome, verdict) ==
  /\ req' = [req EXCEPT ![w] = [Idle EXCEPT !.kind = req[w].kind, !.outcome = outcome,
                                        !.verdict = verdict]]
  /\ holder' = [a \in Accounts |-> IF holder[a] = w THEN Nobody ELSE holder[a]]
  /\ UNCHANGED begun

\* Mutant: only finished accounts are reported.
FinishedOnly(w) == req[w].outcome
\* A lost lock: an account whose change had begun is reported as unknown.
Unfinished(w) ==
  IF req[w].started THEN [req[w].outcome EXCEPT ![Turn(w)] = "unknown"]
  ELSE req[w].outcome
Dispossessed(w) ==
  /\ ~Owned(w) /\ LeavesWith(w, Unfinished(w), "coordination")
  /\ UNCHANGED <<router, store, touched, mishaps>>

\* The dashboard's database failed: no outcome is answered.
Crashes(w) ==
  Mishap /\ LeavesWith(w, req[w].outcome, "crashed") /\ UNCHANGED <<router, touched>>

\* A change of the router under the lock of the account: Effect or nothing,
\* answered or not.
Change(w, Effect, After, Broken) ==
  LET Takes == Effect /\ touched' = [touched EXCEPT ![w] = @ \cup {Turn(w)}]
      Fails == UNCHANGED router /\ Untouched
  IN \/ Owned(w) /\ UNCHANGED store
        /\ \/ Takes /\ Goes(w, After) /\ Smooth
           \/ (Takes \/ Fails) /\ Goes(w, Broken) /\ Mishap
     \/ Dispossessed(w)

Reads(After, Broken) ==
  /\ UNCHANGED <<router, store>> /\ Untouched
  /\ (After /\ Smooth) \/ (Broken /\ Mishap)

-----------------------------------------------------------------------------
(* The review, repeated under the locks.                                   *)

Review(w, kind, selected, r) ==
  /\ req[w].at = "idle" /\ begun < MaxRequests /\ kind \in Kinds
  /\ \A a \in selected : holder[a] = Nobody
  /\ begun' = begun + 1
  /\ holder' = [a \in Accounts |-> IF a \in selected THEN w ELSE holder[a]]
  /\ req' = [req EXCEPT ![w] = [r EXCEPT !.kind = kind, !.at = "turn", !.todo = selected,
                                         !.selected = selected]]
  /\ touched' = [touched EXCEPT ![w] = {}]
  /\ UNCHANGED <<router, store, mishaps>>

Open(a) == {c \in Certs : c[1] = a /\ c \notin closed}

ReviewSuspend(w, selected) ==
  Review(w, "suspend", selected, [Idle EXCEPT !.skip = disabled \cap selected,
                                              !.listed = online \cap selected])
ReviewRevoke(w, selected) == Review(w, "revoke", selected, Idle)

\* What the dashboard holds decides whether an account needs a change.
Has(selected, t) == {a \in selected : assigned[a] = t}

ReviewTemplate(w, selected) ==
  \E t \in Templates :
    Review(w, "template", selected, [Idle EXCEPT !.template = t, !.skip = Has(selected, t)])

\* The lock of the account is asserted before its turn.  Left out: SQLite failing to
\* assign a template that changes nothing (app.py:6730).
NextAccount(w) ==
  /\ req[w].at = "turn" /\ req[w].todo # {} /\ Owned(w)
  /\ UNCHANGED <<router, closed>> /\ Untouched /\ Smooth
  /\ LET a == Turn(w) IN
     \/ /\ req[w].kind = "suspend" /\ UNCHANGED assigned
        /\ IF a \in req[w].skip THEN Outcome(w, "skipped") ELSE To(w, "patch")
     \/ /\ req[w].kind = "revoke" /\ UNCHANGED assigned
        /\ IF Open(a) = {} THEN Outcome(w, "skipped")
           ELSE Goes(w, [req[w] EXCEPT !.devices = Open(a), !.at = "revoke"])
     \/ /\ req[w].kind = "template"
        /\ IF a \in req[w].skip
           THEN assigned' = [assigned EXCEPT ![a] = req[w].template] /\ Outcome(w, "unchanged")
           ELSE UNCHANGED assigned /\ Goes(w, [req[w] EXCEPT !.started = TRUE, !.at = "rate"])

TurnLost(w) == req[w].at = "turn" /\ req[w].todo # {} /\ Dispossessed(w)

AllDone(w) ==
  /\ req[w].at = "turn" /\ req[w].todo = {}
  /\ LeavesWith(w, req[w].outcome, "done")
  /\ UNCHANGED <<router, store, touched, mishaps>>

-----------------------------------------------------------------------------
(* Bulk suspension of one account.                                         *)

Patch(w) ==
  LET next == [req[w] EXCEPT !.started = TRUE, !.at = "readBack"] IN
  /\ req[w].at = "patch"
  /\ Change(w, /\ disabled' = disabled \cup {Turn(w)}
               /\ UNCHANGED <<online, profile, revoked>>, next, next)

ReadBack(w) ==
  /\ req[w].at = "readBack"
  /\ Reads(IF Turn(w) \in disabled THEN To(w, "cut") ELSE Outcome(w, "failed"),
           Outcome(w, "unknown"))

Cut(w) ==
  LET next == [req[w] EXCEPT !.at = "count"] IN
  /\ req[w].at = "cut"
  /\ IF Turn(w) \in req[w].listed
     THEN Change(w, /\ online' = online \ {Turn(w)}
                    /\ UNCHANGED <<disabled, profile, revoked>>, next, next)
     ELSE Goes(w, next) /\ Smooth /\ UNCHANGED <<router, store, touched>>

\* A failed list leaves the number of remaining sessions unknown.
Count(w) ==
  /\ req[w].at = "count"
  /\ Reads(Goes(w, [req[w] EXCEPT !.left = Turn(w) \in online, !.at = "settle"]),
           Goes(w, [req[w] EXCEPT !.left = TRUE, !.at = "settle"]))

\* Mutant: the lock is not asserted again.
NoLongerAsserted(w) == TRUE
StillOwned(w) == Owned(w)

Settle(w) ==
  /\ req[w].at = "settle"
  /\ UNCHANGED store
  /\ \/ /\ StillOwned(w) /\ Outcome(w, IF req[w].left THEN "partial" ELSE "verified")
        /\ UNCHANGED router /\ Untouched /\ Smooth
     \/ ~StillOwned(w) /\ Dispossessed(w)
     \/ StillOwned(w) /\ Crashes(w)

-----------------------------------------------------------------------------
(* Bulk revocation of one account's devices.                               *)

ThisDevice(w) == CHOOSE c \in req[w].devices : \A d \in req[w].devices : c[2] =< d[2]

Revoke(w) ==
  LET next == [req[w] EXCEPT !.started = TRUE, !.at = "revoked"] IN
  /\ req[w].at = "revoke"
  /\ Change(w, /\ revoked' = revoked \cup {ThisDevice(w)}
               /\ UNCHANGED <<disabled, online, profile>>, next, next)

\* The certificate is read back; its row is closed only when it is revoked.
Revoked(w) ==
  LET c == ThisDevice(w)
      last == req[w].devices = {c}
      rest(mismatch) == [req[w] EXCEPT !.devices = @ \ {c}, !.mismatch = mismatch,
                                       !.at = "revoke"]
      Step(mismatch) ==
        IF last THEN Outcome(w, IF mismatch THEN "partial" ELSE "verified")
        ELSE Goes(w, rest(mismatch))
  IN /\ req[w].at = "revoked"
     /\ UNCHANGED assigned
     /\ \/ /\ c \in revoked /\ Owned(w)
           /\ closed' = closed \cup {c} /\ Step(req[w].mismatch)
           /\ UNCHANGED router /\ Untouched /\ Smooth
        \/ c \in revoked /\ Owned(w) /\ UNCHANGED closed /\ Crashes(w)
        \/ c \in revoked /\ Dispossessed(w)
        \/ /\ c \notin revoked /\ UNCHANGED closed /\ Step(TRUE)
           /\ UNCHANGED router /\ Untouched /\ Smooth
        \/ /\ UNCHANGED closed /\ Outcome(w, "unknown")
           /\ UNCHANGED router /\ Untouched /\ Mishap

-----------------------------------------------------------------------------
(* The template of one account.                                            *)

\* ensure_rate_profile, read back by itself; an error is the outcome.
Rate(w) ==
  /\ req[w].at = "rate"
  /\ \/ Owned(w) /\ To(w, "assign") /\ Smooth /\ UNCHANGED <<router, store, touched>>
     \/ Owned(w) /\ Outcome(w, "failed") /\ Mishap /\ UNCHANGED <<router, store, touched>>
     \/ Dispossessed(w)

Assign(w) ==
  LET next == [req[w] EXCEPT !.at = "readProfile"] IN
  /\ req[w].at = "assign"
  /\ Change(w, /\ profile' = [profile EXCEPT ![Turn(w)] = req[w].template]
               /\ UNCHANGED <<disabled, online, revoked>>, next, next)

\* Mutant: the assignment is kept whatever was read.
KeptUnread(w) == TRUE
Confirmed(w) == profile[Turn(w)] = req[w].template

ReadProfile(w) ==
  LET a == Turn(w)
      Kept == assigned' = [assigned EXCEPT ![a] = req[w].template] IN
  /\ req[w].at = "readProfile" /\ UNCHANGED closed
  /\ \/ /\ Confirmed(w) /\ Owned(w) /\ Kept /\ Outcome(w, "verified")
        /\ UNCHANGED router /\ Untouched /\ Smooth
     \/ Confirmed(w) /\ Owned(w) /\ (Kept \/ UNCHANGED assigned) /\ Crashes(w)
     \/ Confirmed(w) /\ Dispossessed(w)
     \/ /\ ~Confirmed(w) /\ Outcome(w, "failed")
        /\ UNCHANGED <<router, assigned>> /\ Untouched /\ Smooth
     \/ /\ Outcome(w, "unknown")
        /\ UNCHANGED <<router, assigned>> /\ Untouched /\ Mishap

-----------------------------------------------------------------------------
(* Others.                                                                 *)

LoseLock(a) ==
  /\ holder[a] # Nobody /\ Mishap
  /\ holder' = [holder EXCEPT ![a] = Nobody]
  /\ UNCHANGED <<router, store, req, touched, begun>>

\* A restoration by another request, under the account's lock.
Restore(a) ==
  /\ holder[a] = Nobody /\ a \in disabled
  /\ disabled' = disabled \ {a}
  /\ UNCHANGED <<online, profile, revoked, store, holder, req, touched, begun, mishaps>>

Connect(a) ==
  /\ a \notin disabled \cup online
  /\ online' = online \cup {a}
  /\ UNCHANGED <<disabled, profile, revoked, store, holder, req, touched, begun, mishaps>>

Disconnect(a) ==
  /\ a \in online
  /\ online' = online \ {a}
  /\ UNCHANGED <<disabled, profile, revoked, store, holder, req, touched, begun, mishaps>>

-----------------------------------------------------------------------------
Next ==
  \/ \E w \in Workers :
       \/ \E S \in (SUBSET Accounts) \ {{}} :
            ReviewSuspend(w, S) \/ ReviewRevoke(w, S) \/ ReviewTemplate(w, S)
       \/ NextAccount(w) \/ TurnLost(w) \/ AllDone(w)
       \/ Patch(w) \/ ReadBack(w) \/ Cut(w) \/ Count(w) \/ Settle(w)
       \/ Revoke(w) \/ Revoked(w)
       \/ Rate(w) \/ Assign(w) \/ ReadProfile(w)
  \/ \E a \in Accounts : LoseLock(a) \/ Restore(a) \/ Connect(a) \/ Disconnect(a)

Spec == Init /\ [][Next]_vars

-----------------------------------------------------------------------------
\* Whatever a request changed on the router is in the outcomes it answers,
\* also when a lost lock ended it between two accounts or in the middle of
\* one; an account it reports as skipped or unchanged it did not touch
\* (app.py:6798-6806, 7133-7140).
ChangesAreReported ==
  \A w \in Workers : req[w].verdict \in {"done", "coordination"} =>
    \A a \in touched[w] : req[w].outcome[a] \notin {"none", "skipped", "unchanged"}

\* An account is reported as verified only in a state that is what was asked
\* for, although its lock may have gone to another request in between: no
\* tunnel and disabled, every device revoked and closed, or the template's
\* profile on the router.
VerifiedWhenSaidStep ==
  \A w \in Workers : \A a \in Accounts :
     req[w].outcome[a] = "none" /\ req'[w].outcome[a] = "verified" =>
       CASE req[w].kind = "suspend" -> a \in disabled /\ a \notin online
         [] req[w].kind = "revoke" -> \A c \in Certs : c[1] = a => c \in revoked \cap closed'
         [] OTHER -> profile[a] = req[w].template
VerifiedWhenSaid == [][VerifiedWhenSaidStep]_vars

\* The dashboard takes over an assignment or closes a device only after the
\* router was read.
StoreFollowsRouterStep ==
  /\ closed' \subseteq closed \cup revoked
  /\ \A a \in Accounts : assigned'[a] # assigned[a] => profile[a] = assigned'[a]
StoreFollowsRouter == [][StoreFollowsRouterStep]_vars
=============================================================================
