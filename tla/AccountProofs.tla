---------------------------- MODULE AccountProofs ----------------------------
(***************************************************************************)
(* Proofs about handlers that change VPN accounts and devices: tunnels     *)
(* that must end with what they were opened by (Tunnel), changes of several *)
(* accounts (Several), the provisioning of a profile (Prov), and the       *)
(* creation and deletion of an account with its device profiles (Account). *)
(* The four share no state.  Each theorem is about the specification of    *)
(* one of them, for every value of its constants; a variable two of them   *)
(* declare is declared once here.                                          *)
(***************************************************************************)
EXTENDS FiniteSets, FiniteSetTheorems, WellFoundedInduction, TLAPS

CONSTANTS Workers, Nobody,
          TunnelKinds, Rows, MaxTunnels, MaxTunnelRequests, MaxTunnelMishaps,
          BulkKinds, Accounts, Templates, Devices, MaxBulkRequests, MaxBulkMishaps,
          Provisioners, MaxProfileMishaps,
          AccountKinds, Tunnels, MaxAccountRequests, MaxAccountMishaps, MaxCerts

VARIABLES live, rowOf, named, openedBy, password, disabled, holder, req, shutOut, begun, mishaps,
          online, profile, revoked, closed, assigned, touched,
          job, cert, files, nextFile,
          account, rateSet, tunnels, made, nextId, device, settings, registered

Tunnel == INSTANCE AccountSessions WITH
    Kinds <- TunnelKinds, MaxSessions <- MaxTunnels, MaxRequests <- MaxTunnelRequests,
    MaxMishaps <- MaxTunnelMishaps
Several == INSTANCE BulkChanges WITH
    Kinds <- BulkKinds, MaxRequests <- MaxBulkRequests, MaxMishaps <- MaxBulkMishaps
Prov == INSTANCE ProfileProvisioning WITH MaxMishaps <- MaxProfileMishaps
Account == INSTANCE AccountMutations WITH
    Kinds <- AccountKinds, MaxRequests <- MaxAccountRequests, MaxMishaps <- MaxAccountMishaps

-----------------------------------------------------------------------------
(* Tunnels *)

Handlers ==
  [kind : TunnelKinds \cup {"none"}, at : Tunnel!Stages, disable : BOOLEAN,
   seen : SUBSET Nat, marked : SUBSET Nat, todo : SUBSET Nat,
   blurred : SUBSET Nat, ambiguous : BOOLEAN, uncaptured : BOOLEAN,
   version : Nat, status : Tunnel!Statuses, verdict : Tunnel!Verdicts]

\* Sessions are numbered as they come.
TunnelsTyped ==
  /\ \E n \in Nat : DOMAIN rowOf = 1..n
  /\ DOMAIN openedBy = DOMAIN rowOf /\ \A s \in DOMAIN rowOf : openedBy[s] \in 0..password
  /\ live \subseteq DOMAIN rowOf
  /\ password \in Nat /\ disabled \in BOOLEAN /\ shutOut \in BOOLEAN
  /\ holder \in Workers \cup {Nobody}
  /\ req \in [Workers -> Handlers]

\* What a handler that stands as r may rely on, and what its answer claims.
Relies(w, r) ==
  /\ r.seen \subseteq DOMAIN rowOf /\ r.version =< password
  /\ r.at # "idle" => r.verdict = "none"
  /\ r.at \notin {"idle", "confirm"} => r.status # "verified"
  /\ r.at \in {"capture", "check", "drop", "lostDrop", "lastLook"}
       \/ (r.at = "patch" /\ r.kind = "password") => r.seen \subseteq r.marked
  /\ r.at \in {"terminate", "poll"} => \E s \in Nat : r.seen = {s}
  /\ r.at \in {"cut", "count"} /\ holder = w => disabled
Claims(r) ==
  /\ r.status = "verified" =>
       \A s \in live : openedBy[s] < r.version =>
         s \notin r.seen /\ \E t \in r.seen : rowOf[s] = rowOf[t]
  /\ r.kind = "terminate" /\ r.verdict = "terminated" => r.seen \cap live = {}

TunnelInv ==
  /\ TunnelsTyped
  /\ shutOut => disabled /\ live = {}
  /\ \A w \in Workers : Relies(w, req[w]) /\ Claims(req[w])

\* Sessions come with new numbers and the password of the time, and go.
SessionsMove ==
  /\ DOMAIN rowOf \subseteq DOMAIN rowOf'
  /\ \A s \in DOMAIN rowOf : rowOf'[s] = rowOf[s] /\ openedBy'[s] = openedBy[s]
  /\ \A s \in live' \ live : s \notin DOMAIN rowOf /\ openedBy'[s] = password
  /\ password' \in Nat /\ password =< password'

\* What a handler saw and claims stays so, unless it loses what it relies on.
LEMMA ClaimsStay ==
  ASSUME TunnelsTyped, SessionsMove, NEW w \in Workers, NEW r \in Handlers,
         Relies(w, r), Claims(r),
         holder' = w => holder = w /\ (disabled => disabled')
  PROVE  Relies(w, r)' /\ Claims(r)'
  <1>1. r.seen \subseteq DOMAIN rowOf /\ r.version \in Nat /\ r.version =< password
    BY DEF Relies, Handlers
  <1>2. Relies(w, r)'
    BY <1>1 DEF Relies, SessionsMove, TunnelsTyped
  <1>3. ASSUME NEW s \in live', openedBy'[s] < r.version
        PROVE  s \in live /\ rowOf'[s] = rowOf[s] /\ openedBy'[s] = openedBy[s]
    <2>1. s \in live
      BY <1>1, <1>3 DEF SessionsMove, TunnelsTyped
    <2>2. QED
      BY <2>1 DEF SessionsMove, TunnelsTyped
  <1>4. \A s \in r.seen : rowOf'[s] = rowOf[s]
    BY <1>1 DEF SessionsMove
  <1>5. r.seen \cap live' \subseteq live
    BY <1>1 DEF SessionsMove
  <1>6. Claims(r)'
    BY <1>3, <1>4, <1>5 DEF Claims
  <1>7. QED
    BY <1>2, <1>6

\* A step of one handler that leaves sessions that were there, or ends some.
LEMMA HandlerStep ==
  ASSUME TunnelInv, TunnelsTyped', SessionsMove, NEW w \in Workers, NEW r \in Handlers,
         req' = [req EXCEPT ![w] = r], Relies(w, r)', Claims(r)',
         \A v \in Workers \ {w} : holder' = v => holder = v /\ (disabled => disabled'),
         shutOut' => disabled' /\ live' = {}
  PROVE  TunnelInv'
  <1> SUFFICES ASSUME NEW v \in Workers PROVE Relies(v, req[v])' /\ Claims(req[v])'
    BY DEF TunnelInv
  <1>1. req \in [Workers -> Handlers]
    BY DEF TunnelInv, TunnelsTyped
  <1>2. CASE v = w
    <2>1. req'[v] = r
      BY <1>1, <1>2
    <2>2. QED
      BY <1>2, <2>1 DEF Relies, Claims
  <1>3. CASE v # w
    <2>1. req'[v] = req[v] /\ req[v] \in Handlers
      BY <1>1, <1>3
    <2>2. Relies(v, req[v]) /\ Claims(req[v])
      BY DEF TunnelInv
    <2> DEFINE q == req[v]
    <2>3. q \in Handlers /\ Relies(v, q) /\ Claims(q) /\ req'[v] = q
      BY <2>1, <2>2
    <2>4. PICK h \in Handlers : h = q
      BY <2>3
    <2>5. Relies(v, h)' /\ Claims(h)'
      BY <1>3, <2>3, <2>4, ClaimsStay DEF TunnelInv
    <2>6. QED
      BY <2>3, <2>4, <2>5 DEF Relies, Claims
  <1>4. QED
    BY <1>2, <1>3

\* Sessions end, the account stays.
Quiet == UNCHANGED <<rowOf, openedBy, password, disabled>> /\ live' \subseteq live

LEMMA QuietOK ==
  ASSUME TunnelInv, Quiet, req' \in [Workers -> Handlers], holder' \in Workers \cup {Nobody},
         shutOut' \in BOOLEAN
  PROVE  TunnelsTyped' /\ SessionsMove
  BY DEF TunnelInv, TunnelsTyped, Quiet, SessionsMove

LEMMA CalmStep ==
  ASSUME Nobody \notin Workers, TunnelInv, Quiet, NEW w \in Workers, NEW r \in Handlers,
         req' = [req EXCEPT ![w] = r], Relies(w, r), Claims(r),
         holder' \in {holder, Nobody},
         shutOut' = shutOut \/ (shutOut' = TRUE /\ disabled /\ live = {})
  PROVE  TunnelInv'
  <1>1. req' \in [Workers -> Handlers] /\ holder' \in Workers \cup {Nobody}
        /\ shutOut' \in BOOLEAN
    BY DEF TunnelInv, TunnelsTyped
  <1>2. TunnelsTyped' /\ SessionsMove
    BY <1>1, QuietOK
  <1>3. Relies(w, r)' /\ Claims(r)'
    BY <1>2, ClaimsStay DEF TunnelInv, Quiet
  <1>4. shutOut' => disabled' /\ live' = {}
    BY DEF TunnelInv, Quiet
  <1>5. \A v \in Workers \ {w} : holder' = v => holder = v /\ (disabled => disabled')
    BY DEF Quiet
  <1>6. QED
    BY <1>2, <1>3, <1>4, <1>5, HandlerStep

LEMMA HandlerOK ==
  ASSUME TunnelInv, NEW w \in Workers
  PROVE  req[w] \in Handlers /\ Relies(w, req[w]) /\ Claims(req[w])
  BY DEF TunnelInv, TunnelsTyped

LEMMA IdleHandler ==
  /\ Tunnel!Idle \in Handlers
  /\ Tunnel!Idle.status = "none" /\ Tunnel!Idle.seen = {} /\ Tunnel!Idle.verdict = "none"
  /\ Tunnel!Idle.at = "idle" /\ Tunnel!Idle.version = 0
  BY DEF Tunnel!Idle, Handlers, Tunnel!Stages, Tunnel!Statuses, Tunnel!Verdicts

\* Looks and deletions are quiet.
LEMMA QuietSteps ==
  ASSUME NEW n
  PROVE  /\ UNCHANGED <<Tunnel!sessions, Tunnel!account>> => Quiet
         /\ Tunnel!RowCleared(n) => Quiet
  BY DEF Quiet, Tunnel!sessions, Tunnel!account, Tunnel!RowCleared

\* An answer: what the handler says of sessions was so when it last looked.
LEMMA AnswerStep ==
  ASSUME Nobody \notin Workers, TunnelInv, Quiet, NEW w \in Workers, NEW r \in Handlers,
         NEW verdict \in Tunnel!Verdicts, Tunnel!Ended(w, r, verdict),
         shutOut' = shutOut \/ (shutOut' = TRUE /\ disabled /\ live = {}),
         r.seen \subseteq DOMAIN rowOf, r.version =< password, Claims(r),
         verdict = "terminated" => r.seen \cap live = {}
  PROVE  TunnelInv'
  <1> DEFINE answered == [Tunnel!Idle EXCEPT !.verdict = verdict]
             told == [answered EXCEPT !.kind = r.kind, !.seen = r.seen, !.version = r.version,
                                      !.status = r.status]
             new == IF r.status = "verified" \/ verdict = "terminated" THEN told ELSE answered
  <1>1. answered \in Handlers /\ answered.status = "none" /\ answered.seen = {}
        /\ answered.at = "idle" /\ answered.version = 0 /\ answered.verdict = verdict
    BY IdleHandler DEF Handlers
  <1> HIDE DEF answered
  <1>2. told \in Handlers /\ told.status = r.status /\ told.seen = r.seen /\ told.at = "idle"
        /\ told.version = r.version /\ told.verdict = verdict /\ told.kind = r.kind
    BY <1>1 DEF Handlers
  <1> HIDE DEF told
  <1>3. password \in Nat
    BY DEF TunnelInv, TunnelsTyped
  <1>4. Relies(w, answered) /\ (verdict # "terminated" => Claims(answered))
    BY <1>1, <1>3 DEF Relies, Claims
  <1>5. Relies(w, told) /\ Claims(told)
    BY <1>2 DEF Relies, Claims
  <1>6. new \in Handlers /\ Relies(w, new) /\ Claims(new)
    BY <1>1, <1>2, <1>4, <1>5
  <1>7. req' = [req EXCEPT ![w] = new] /\ holder' \in {holder, Nobody}
    BY DEF Tunnel!Ended, answered, told
  <1> HIDE DEF new
  <1>8. QED
    BY <1>6, <1>7, CalmStep

\* A handler that goes on from what it saw, without a claim.
LEMMA GoesOnStep ==
  ASSUME Nobody \notin Workers, TunnelInv, Quiet, NEW w \in Workers, NEW r \in Handlers,
         Tunnel!Goes(w, r), r.seen = req[w].seen, r.version = req[w].version,
         r.status # "verified", r.verdict = "none",
         r.at \in {"capture", "check", "drop", "lostDrop", "lastLook"} => r.seen \subseteq r.marked,
         r.at # "patch",
         r.at \in {"terminate", "poll"} => req[w].at \in {"terminate", "poll"},
         r.at \in {"cut", "count"} =>
           req[w].at \in {"cut", "count"} \/ disabled \/ holder # w
  PROVE  TunnelInv'
  <1>1. Relies(w, r) /\ Claims(r)
    BY HandlerOK DEF Relies, Claims
  <1>2. QED
    BY <1>1, CalmStep DEF Tunnel!Goes

LEMMA CaptureKeeps ==
  ASSUME Nobody \notin Workers, TunnelInv, NEW w \in Workers, Tunnel!Capture(w)
  PROVE  TunnelInv'
  <1>1. /\ req[w] \in Handlers /\ req[w].at = "capture" /\ req[w].seen \subseteq req[w].marked
        /\ req[w].status # "verified" /\ req[w].verdict = "none"
    BY HandlerOK DEF Tunnel!Capture, Relies
  <1> DEFINE marked == req[w].marked \cup Tunnel!Newcomers(w)
             captured == [req[w] EXCEPT !.marked = marked, !.todo = marked, !.at = "check",
                                        !.uncaptured = ~(live \subseteq named)]
             missed == [req[w] EXCEPT !.todo = req[w].marked, !.at = "check",
                                      !.uncaptured = TRUE]
  <1>2. marked \subseteq Nat
    BY <1>1 DEF Tunnel!Newcomers, TunnelInv, TunnelsTyped, Handlers
  <1> HIDE DEF marked
  <1>3. /\ captured \in Handlers /\ captured.seen = req[w].seen /\ captured.at = "check"
        /\ captured.version = req[w].version /\ captured.status = req[w].status
        /\ captured.verdict = "none" /\ captured.marked = marked
    BY <1>1, <1>2 DEF Handlers, Tunnel!Stages
  <1>4. /\ missed \in Handlers /\ missed.seen = req[w].seen /\ missed.at = "check"
        /\ missed.version = req[w].version /\ missed.status = req[w].status
        /\ missed.verdict = "none" /\ missed.marked = req[w].marked
    BY <1>1 DEF Handlers, Tunnel!Stages
  <1>5. Quiet /\ (Tunnel!Goes(w, captured) \/ Tunnel!Goes(w, missed))
    BY QuietSteps DEF Tunnel!Capture, Tunnel!Looks, marked
  <1>6. req[w].seen \subseteq marked
    BY <1>1 DEF marked
  <1> HIDE DEF captured, missed
  <1>7. QED
    BY <1>1, <1>3, <1>4, <1>5, <1>6, GoesOnStep

LEMMA CheckKeeps ==
  ASSUME Nobody \notin Workers, TunnelInv, NEW w \in Workers, Tunnel!Check(w)
  PROVE  TunnelInv'
  <1>1. /\ req[w] \in Handlers /\ req[w].at = "check" /\ req[w].seen \subseteq req[w].marked
        /\ req[w].status # "verified" /\ req[w].verdict = "none"
    BY HandlerOK DEF Tunnel!Check, Relies
  <1>2. Quiet
    BY QuietSteps DEF Tunnel!Check, Tunnel!Looks
  <1>3. ASSUME NEW r \in Handlers, Tunnel!Goes(w, r), r.seen = req[w].seen,
               r.version = req[w].version, r.status # "verified", r.verdict = "none",
               r.marked = req[w].marked, r.at \in {"lastLook", "drop", "check", "confirm"}
        PROVE  TunnelInv'
    BY <1>1, <1>2, <1>3, GoesOnStep
  <1>4. CASE \E stage \in {"lastLook", "drop"} : Tunnel!To(w, stage)
    <2>1. PICK stage \in {"lastLook", "drop"} : Tunnel!Goes(w, [req[w] EXCEPT !.at = stage])
      BY <1>4 DEF Tunnel!To
    <2> DEFINE r == [req[w] EXCEPT !.at = stage]
    <2>2. r \in Handlers /\ r.seen = req[w].seen /\ r.version = req[w].version
          /\ r.status = req[w].status /\ r.verdict = "none" /\ r.marked = req[w].marked
          /\ r.at = stage
      BY <1>1 DEF Handlers, Tunnel!Stages
    <2>3. QED
      BY <1>1, <1>3, <2>1, <2>2
  <1>5. CASE \E s \in Nat : Tunnel!Goes(w, [[req[w] EXCEPT !.todo = @ \ {s}] EXCEPT !.blurred = @ \cup {s}])
    <2>1. PICK s \in Nat : Tunnel!Goes(w, [[req[w] EXCEPT !.todo = @ \ {s}] EXCEPT !.blurred = @ \cup {s}])
      BY <1>5
    <2> DEFINE r == [[req[w] EXCEPT !.todo = @ \ {s}] EXCEPT !.blurred = @ \cup {s}]
    <2>2. r \in Handlers /\ r.seen = req[w].seen /\ r.version = req[w].version
          /\ r.status = req[w].status /\ r.verdict = "none" /\ r.marked = req[w].marked
          /\ r.at = "check"
      BY <1>1 DEF Handlers, Tunnel!Stages
    <2>3. QED
      BY <1>1, <1>3, <2>1, <2>2
  <1>6. CASE \E s \in Nat : Tunnel!Goes(w, [req[w] EXCEPT !.todo = @ \ {s}])
    <2>1. PICK s \in Nat : Tunnel!Goes(w, [req[w] EXCEPT !.todo = @ \ {s}])
      BY <1>6
    <2> DEFINE r == [req[w] EXCEPT !.todo = @ \ {s}]
    <2>2. r \in Handlers /\ r.seen = req[w].seen /\ r.version = req[w].version
          /\ r.status = req[w].status /\ r.verdict = "none" /\ r.marked = req[w].marked
          /\ r.at = "check"
      BY <1>1 DEF Handlers, Tunnel!Stages
    <2>3. QED
      BY <1>1, <1>3, <2>1, <2>2
  <1>7. CASE Tunnel!Goes(w, [req[w] EXCEPT !.status = "unknown", !.at = "confirm"])
    <2> DEFINE r == [req[w] EXCEPT !.status = "unknown", !.at = "confirm"]
    <2>1. r \in Handlers /\ r.seen = req[w].seen /\ r.version = req[w].version
          /\ r.status = "unknown" /\ r.verdict = "none" /\ r.marked = req[w].marked
          /\ r.at = "confirm"
      BY <1>1 DEF Handlers, Tunnel!Stages, Tunnel!Statuses
    <2>2. QED
      BY <1>3, <1>7, <2>1
  <1>8. req[w].todo \subseteq Nat
    BY <1>1 DEF Handlers
  <1>9. QED
    BY <1>4, <1>5, <1>6, <1>7, <1>8 DEF Tunnel!Check, Tunnel!Looks

LEMMA DropKeeps ==
  ASSUME Nobody \notin Workers, TunnelInv, NEW w \in Workers, Tunnel!Drop(w)
  PROVE  TunnelInv'
  <1>1. /\ req[w] \in Handlers /\ req[w].at = "drop" /\ req[w].seen \subseteq req[w].marked
        /\ req[w].status # "verified" /\ req[w].verdict = "none" /\ req[w].todo \subseteq Nat
    BY HandlerOK DEF Tunnel!Drop, Relies, Handlers
  <1>2. Quiet
    BY QuietSteps DEF Tunnel!Drop
  <1>3. ASSUME NEW r \in Handlers, Tunnel!Goes(w, r), r.seen = req[w].seen,
               r.version = req[w].version, r.status # "verified", r.verdict = "none",
               r.marked = req[w].marked, r.at \in {"lostDrop", "check"}
        PROVE  TunnelInv'
    BY <1>1, <1>2, <1>3, GoesOnStep
  <1>4. CASE Tunnel!To(w, "lostDrop")
    <2> DEFINE r == [req[w] EXCEPT !.at = "lostDrop"]
    <2>1. r \in Handlers /\ r.seen = req[w].seen /\ r.version = req[w].version
          /\ r.status = req[w].status /\ r.verdict = "none" /\ r.marked = req[w].marked
          /\ r.at = "lostDrop"
      BY <1>1 DEF Handlers, Tunnel!Stages
    <2>2. QED
      BY <1>1, <1>3, <1>4, <2>1 DEF Tunnel!To
  <1>5. CASE \E s \in req[w].todo : Tunnel!Goes(w, [req[w] EXCEPT !.todo = @ \ {s}, !.at = "check"])
    <2>1. PICK s \in req[w].todo : Tunnel!Goes(w, [req[w] EXCEPT !.todo = @ \ {s}, !.at = "check"])
      BY <1>5
    <2> DEFINE r == [req[w] EXCEPT !.todo = @ \ {s}, !.at = "check"]
    <2>2. r \in Handlers /\ r.seen = req[w].seen /\ r.version = req[w].version
          /\ r.status = req[w].status /\ r.verdict = "none" /\ r.marked = req[w].marked
          /\ r.at = "check"
      BY <1>1 DEF Handlers, Tunnel!Stages
    <2>3. QED
      BY <1>1, <1>3, <2>1, <2>2
  <1>6. QED
    BY <1>4, <1>5 DEF Tunnel!Drop

\* A list that leaves nothing open has only sessions that no mark covers, all of
\* them on rows of the reviewed list.
LEMMA VerifiedLeaves ==
  ASSUME TunnelInv, NEW w \in Workers, req[w].seen \subseteq req[w].marked,
         Tunnel!Summary(w) = "verified", NEW s \in live
  PROVE  s \notin req[w].seen /\ \E t \in req[w].seen : rowOf[s] = rowOf[t]
  <1>1. /\ ~Tunnel!Incomplete(w) /\ Tunnel!Unresolved(w) = {} /\ Tunnel!Nameless(w) = {}
    BY DEF Tunnel!Summary
  <1>2. s \in named
    <2>1. SUFFICES ASSUME s \notin named PROVE FALSE
      OBVIOUS
    <2>2. PICK m \in req[w].marked : rowOf[s] = rowOf[m]
      BY <1>1, <2>1 DEF Tunnel!Nameless, Tunnel!RowsOf
    <2>3. s \in Tunnel!OnRow(m) \ named
      BY <2>1, <2>2 DEF Tunnel!OnRow
    <2>4. m \in live \cap named
      BY <1>1, <2>3 DEF Tunnel!Unresolved
    <2>5. QED
      BY <1>1, <2>4 DEF Tunnel!Incomplete
  <1>3. s \notin req[w].marked /\ rowOf[s] \in Tunnel!RowsOf(req[w].seen)
    BY <1>1, <1>2 DEF Tunnel!Incomplete, Tunnel!Unmarked
  <1>4. QED
    BY <1>3 DEF Tunnel!RowsOf

LEMMA LastLookKeeps ==
  ASSUME Nobody \notin Workers, TunnelInv, NEW w \in Workers,
         Tunnel!LastLook(w) \/ Tunnel!LostDrop(w)
  PROVE  TunnelInv'
  <1>1. /\ req[w] \in Handlers /\ req[w].at \in {"lastLook", "lostDrop"}
        /\ req[w].seen \subseteq req[w].marked /\ req[w].verdict = "none"
        /\ req[w].seen \subseteq DOMAIN rowOf /\ req[w].version =< password
    BY HandlerOK DEF Tunnel!LastLook, Tunnel!LostDrop, Relies
  <1>2. Quiet
    BY QuietSteps DEF Tunnel!LastLook, Tunnel!LostDrop, Tunnel!Looks
  <1>3. Tunnel!Summary(w) \in Tunnel!Statuses
    BY DEF Tunnel!Summary, Tunnel!Statuses
  <1>4. CASE Tunnel!LastLook(w)
    <2>1. PICK status \in {Tunnel!Summary(w), "unknown"} :
            Tunnel!Goes(w, [req[w] EXCEPT !.status = status, !.at = "confirm"])
      BY <1>4 DEF Tunnel!LastLook, Tunnel!Looks
    <2> DEFINE r == [req[w] EXCEPT !.status = status, !.at = "confirm"]
    <2>2. r \in Handlers /\ r.seen = req[w].seen /\ r.version = req[w].version
          /\ r.status = status /\ r.verdict = "none" /\ r.at = "confirm"
      BY <1>1, <1>3 DEF Handlers, Tunnel!Stages, Tunnel!Statuses
    <2> HIDE DEF r
    <2>3. Relies(w, r)
      BY <1>1, <2>2 DEF Relies
    <2>4. Claims(r)
      BY <1>1, <2>2, VerifiedLeaves DEF Claims
    <2>5. QED
      BY <1>2, <2>1, <2>2, <2>3, <2>4, CalmStep DEF Tunnel!Goes, r
  <1>5. CASE Tunnel!LostDrop(w)
    <2>1. PICK status \in {Tunnel!Summary(w), "unknown"} :
            Tunnel!Ended(w, [req[w] EXCEPT !.status = status], "coordination")
            /\ UNCHANGED shutOut
      BY <1>5 DEF Tunnel!LostDrop, Tunnel!Looks
    <2> DEFINE r == [req[w] EXCEPT !.status = status]
    <2>2. r \in Handlers /\ r.seen = req[w].seen /\ r.version = req[w].version
          /\ r.status = status /\ r.verdict = "none"
      BY <1>1, <1>3 DEF Handlers, Tunnel!Stages, Tunnel!Statuses
    <2> HIDE DEF r
    <2>3. Claims(r)
      BY <1>1, <2>2, VerifiedLeaves DEF Claims
    <2>4. Tunnel!Ended(w, r, "coordination")
      BY <2>1 DEF r
    <2>5. "coordination" \in Tunnel!Verdicts
      BY DEF Tunnel!Verdicts
    <2>6. QED
      BY <1>1, <1>2, <2>1, <2>2, <2>3, <2>4, <2>5, AnswerStep
  <1>6. QED
    BY <1>4, <1>5

LEMMA AnswersKeep ==
  ASSUME Nobody \notin Workers, TunnelInv, Quiet, NEW w \in Workers,
         NEW verdict \in Tunnel!Verdicts \ {"terminated"}, Tunnel!Answers(w, verdict)
  PROVE  TunnelInv'
  <1>1. /\ req[w] \in Handlers /\ Claims(req[w])
        /\ req[w].seen \subseteq DOMAIN rowOf /\ req[w].version =< password
    BY HandlerOK DEF Relies
  <1>2. PICK r \in Handlers : r = req[w]
    BY <1>1
  <1>3. Tunnel!Ended(w, r, verdict) /\ shutOut' = shutOut
    BY <1>2 DEF Tunnel!Answers
  <1>4. QED
    BY <1>1, <1>2, <1>3, AnswerStep DEF Claims

LEMMA ConfirmKeeps ==
  ASSUME Nobody \notin Workers, TunnelInv, NEW w \in Workers, Tunnel!Confirm(w)
  PROVE  TunnelInv'
  <1>1. Quiet
    BY QuietSteps DEF Tunnel!Confirm, Tunnel!Looks
  <1>2. \E verdict \in {"coordination", "mismatch", "unknown", "changed", "partial"} :
          Tunnel!Answers(w, verdict)
    BY DEF Tunnel!Confirm, Tunnel!Looks
  <1>3. QED
    BY <1>1, <1>2, AnswersKeep DEF Tunnel!Verdicts

LEMMA ReadBackKeepsTunnels ==
  ASSUME Nobody \notin Workers, TunnelInv, NEW w \in Workers, Tunnel!ReadBack(w)
  PROVE  TunnelInv'
  <1>1. Quiet
    BY QuietSteps DEF Tunnel!ReadBack, Tunnel!Looks
  <1>2. CASE \E verdict \in {"mismatch", "coordination", "restored", "unknown"} :
               Tunnel!Answers(w, verdict)
    BY <1>1, <1>2, AnswersKeep DEF Tunnel!Verdicts
  <1>3. CASE disabled = TRUE /\ Tunnel!To(w, "cut")
    <2> DEFINE r == [req[w] EXCEPT !.at = "cut"]
    <2>1. /\ req[w] \in Handlers /\ req[w].status # "verified" /\ req[w].verdict = "none"
      BY HandlerOK DEF Tunnel!ReadBack, Relies
    <2>2. r \in Handlers /\ r.seen = req[w].seen /\ r.version = req[w].version
          /\ r.status = req[w].status /\ r.verdict = "none" /\ r.at = "cut"
      BY <2>1 DEF Handlers, Tunnel!Stages
    <2>3. QED
      BY <1>1, <1>3, <2>1, <2>2, GoesOnStep DEF Tunnel!To
  <1>4. QED
    BY <1>2, <1>3 DEF Tunnel!ReadBack, Tunnel!Looks

LEMMA CutKeeps ==
  ASSUME Nobody \notin Workers, TunnelInv, NEW w \in Workers, Tunnel!Cut(w)
  PROVE  TunnelInv'
  <1>1. Quiet
    BY QuietSteps DEF Tunnel!Cut
  <1>2. /\ req[w] \in Handlers /\ req[w].at = "cut" /\ req[w].todo \subseteq Nat
        /\ req[w].status # "verified" /\ req[w].verdict = "none"
    BY HandlerOK DEF Tunnel!Cut, Relies, Handlers
  <1>3. CASE Tunnel!To(w, "count")
    <2> DEFINE r == [req[w] EXCEPT !.at = "count"]
    <2>1. r \in Handlers /\ r.seen = req[w].seen /\ r.version = req[w].version
          /\ r.status = req[w].status /\ r.verdict = "none" /\ r.at = "count"
      BY <1>2 DEF Handlers, Tunnel!Stages
    <2>2. QED
      BY <1>1, <1>2, <1>3, <2>1, GoesOnStep DEF Tunnel!To
  <1>4. CASE Tunnel!Answers(w, "coordination")
    BY <1>1, <1>4, AnswersKeep DEF Tunnel!Verdicts
  <1>5. CASE \E s \in req[w].todo : Tunnel!Goes(w, [req[w] EXCEPT !.todo = @ \ {s}])
    <2>1. PICK s \in req[w].todo : Tunnel!Goes(w, [req[w] EXCEPT !.todo = @ \ {s}])
      BY <1>5
    <2> DEFINE r == [req[w] EXCEPT !.todo = @ \ {s}]
    <2>2. r \in Handlers /\ r.seen = req[w].seen /\ r.version = req[w].version
          /\ r.status = req[w].status /\ r.verdict = "none" /\ r.at = "cut"
      BY <1>2 DEF Handlers, Tunnel!Stages
    <2>3. QED
      BY <1>1, <1>2, <2>1, <2>2, GoesOnStep
  <1>6. QED
    BY <1>3, <1>4, <1>5 DEF Tunnel!Cut

\* Who still has its lock when nothing is left finds the account disabled.
LEMMA CountKeeps ==
  ASSUME Nobody \notin Workers, TunnelInv, NEW w \in Workers, Tunnel!Count(w)
  PROVE  TunnelInv'
  <1>1. Quiet
    BY QuietSteps DEF Tunnel!Count, Quiet, Tunnel!sessions, Tunnel!account
  <1>2. CASE Tunnel!Answers(w, "partial") \/ Tunnel!Answers(w, "coordination")
    BY <1>1, <1>2, AnswersKeep DEF Tunnel!Verdicts
  <1>3. CASE /\ live = {} /\ holder = w /\ Tunnel!Ended(w, req[w], "suspended")
             /\ shutOut' = TRUE
    <2>1. /\ req[w] \in Handlers /\ Claims(req[w]) /\ disabled
          /\ req[w].seen \subseteq DOMAIN rowOf /\ req[w].version =< password
      BY <1>3, HandlerOK DEF Tunnel!Count, Relies
    <2>2. PICK r \in Handlers : r = req[w]
      BY <2>1
    <2>3. Tunnel!Ended(w, r, "suspended")
      BY <1>3, <2>2
    <2>4. "suspended" \in Tunnel!Verdicts
      BY DEF Tunnel!Verdicts
    <2>5. QED
      BY <1>1, <1>3, <2>1, <2>2, <2>3, <2>4, AnswerStep
  <1>4. QED
    BY <1>2, <1>3 DEF Tunnel!Count, Tunnel!LeftOver

LEMMA TerminateKeeps ==
  ASSUME Nobody \notin Workers, TunnelInv, NEW w \in Workers, Tunnel!Terminate(w)
  PROVE  TunnelInv'
  <1>1. Quiet
    BY QuietSteps DEF Tunnel!Terminate
  <1>2. /\ req[w] \in Handlers /\ req[w].at = "terminate"
        /\ req[w].status # "verified" /\ req[w].verdict = "none"
    BY HandlerOK DEF Tunnel!Terminate, Relies
  <1> DEFINE r == [req[w] EXCEPT !.at = "poll"]
  <1>3. r \in Handlers /\ r.seen = req[w].seen /\ r.version = req[w].version
        /\ r.status = req[w].status /\ r.verdict = "none" /\ r.at = "poll"
    BY <1>2 DEF Handlers, Tunnel!Stages
  <1>4. QED
    BY <1>1, <1>2, <1>3, GoesOnStep DEF Tunnel!Terminate, Tunnel!To

\* A session that is no longer listed, by its id or on its row, is gone.
LEMMA PollKeeps ==
  ASSUME Nobody \notin Workers, TunnelInv, NEW w \in Workers, Tunnel!Poll(w)
  PROVE  TunnelInv'
  <1>1. Quiet
    BY QuietSteps DEF Tunnel!Poll, Tunnel!Looks
  <1>2. PICK s \in req[w].seen :
          \/ Tunnel!Answers(w, "stillActive") \/ Tunnel!Answers(w, "unknown")
          \/ ~Tunnel!Still(s) /\ Tunnel!Answers(w, "terminated")
    BY DEF Tunnel!Poll, Tunnel!Looks
  <1>3. CASE Tunnel!Answers(w, "stillActive") \/ Tunnel!Answers(w, "unknown")
    BY <1>1, <1>3, AnswersKeep DEF Tunnel!Verdicts
  <1>4. CASE ~Tunnel!Still(s) /\ Tunnel!Answers(w, "terminated")
    <2>1. s \notin live
      BY <1>4 DEF Tunnel!Still, Tunnel!OnRow
    <2>2. /\ req[w] \in Handlers /\ Claims(req[w])
          /\ req[w].seen \subseteq DOMAIN rowOf /\ req[w].version =< password
          /\ req[w].seen \cap live = {}
      BY <1>2, <2>1, HandlerOK DEF Tunnel!Poll, Relies
    <2>3. PICK r \in Handlers : r = req[w]
      BY <2>2
    <2>4. Tunnel!Ended(w, r, "terminated") /\ shutOut' = shutOut
      BY <1>4, <2>3 DEF Tunnel!Answers
    <2>5. "terminated" \in Tunnel!Verdicts
      BY DEF Tunnel!Verdicts
    <2>6. QED
      BY <1>1, <2>2, <2>3, <2>4, <2>5, AnswerStep
  <1>5. QED
    BY <1>2, <1>3, <1>4

\* A PATCH, also one whose answer is lost, is sent under the account's lock.
LEMMA PatchKeeps ==
  ASSUME Nobody \notin Workers, TunnelInv, NEW w \in Workers, Tunnel!Patch(w)
  PROVE  TunnelInv'
  <1>1. /\ req[w] \in Handlers /\ req[w].at = "patch" /\ Relies(w, req[w])
        /\ req[w].status # "verified" /\ req[w].verdict = "none"
        /\ req[w].seen \subseteq DOMAIN rowOf /\ req[w].version =< password
        /\ req[w].disable \in BOOLEAN
    BY HandlerOK DEF Tunnel!Patch, Relies, Handlers
  <1>2. CASE Tunnel!Answers(w, "rejected") \/ Tunnel!Answers(w, "coordination")
    <2>1. Quiet
      BY <1>2, QuietSteps DEF Tunnel!Patch, Tunnel!Answers, Tunnel!Ended, Tunnel!Patched,
                              Tunnel!Unpatched
    <2>2. QED
      BY <1>2, <2>1, AnswersKeep DEF Tunnel!Verdicts
  <1>3. CASE /\ holder = w /\ holder' = holder
             /\ Tunnel!Patched(w) \/ Tunnel!Unpatched
             /\ \E lost \in BOOLEAN :
                  req' = [req EXCEPT ![w] = [req[w] EXCEPT
                    !.at = IF req[w].kind = "password" THEN "capture" ELSE "readBack",
                    !.ambiguous = lost, !.version = password']]
    <2>1. PICK lost \in BOOLEAN : req' = [req EXCEPT ![w] = [req[w] EXCEPT
                    !.at = IF req[w].kind = "password" THEN "capture" ELSE "readBack",
                    !.ambiguous = lost, !.version = password']]
      BY <1>3
    <2>2. /\ UNCHANGED <<live, rowOf, named, openedBy>> /\ password' \in Nat
          /\ password =< password' /\ disabled' \in BOOLEAN /\ shutOut' \in BOOLEAN
          /\ shutOut' => disabled' /\ live' = {}
      BY <1>1, <1>3 DEF Tunnel!Patched, Tunnel!Unpatched, Tunnel!sessions, Tunnel!account,
                        TunnelInv, TunnelsTyped
    <2> DEFINE at1 == IF req[w].kind = "password" THEN "capture" ELSE "readBack"
               new == [req[w] EXCEPT !.at = at1, !.ambiguous = lost, !.version = password']
    <2>3. at1 \in {"capture", "readBack"} /\ (at1 = "capture" => req[w].seen \subseteq req[w].marked)
      BY <1>1 DEF Relies
    <2> HIDE DEF at1
    <2>4. new \in Handlers /\ new.seen = req[w].seen /\ new.version = password'
          /\ new.status = req[w].status /\ new.verdict = "none" /\ new.at = at1
          /\ new.marked = req[w].marked
      BY <1>1, <2>2, <2>3 DEF Handlers, Tunnel!Stages
    <2>5. PICK r \in Handlers :
            /\ req' = [req EXCEPT ![w] = r]
            /\ r.seen \subseteq DOMAIN rowOf /\ r.version = password'
            /\ r.status # "verified" /\ r.verdict = "none" /\ r.at \in {"capture", "readBack"}
            /\ r.at = "capture" => r.seen \subseteq r.marked
      <3>1. req' = [req EXCEPT ![w] = new]
        BY <2>1 DEF at1
      <3> HIDE DEF new
      <3>2. QED
        BY <1>1, <2>3, <2>4, <3>1
    <2>6. TunnelsTyped'
      BY <1>3, <2>2, <2>5 DEF TunnelInv, TunnelsTyped
    <2>7. SessionsMove
      BY <2>2 DEF SessionsMove
    <2>8. r.seen \subseteq DOMAIN rowOf' /\ r.version =< password'
      BY <2>2, <2>5
    <2>9. Relies(w, r)'
      BY <2>5, <2>8 DEF Relies
    <2>10. Claims(r)'
      BY <2>5 DEF Claims
    <2>11. \A v \in Workers \ {w} : holder' = v => holder = v /\ (disabled => disabled')
      BY <1>3
    <2>12. shutOut' => disabled' /\ live' = {}
      BY <2>2
    <2>13. QED
      BY <2>5, <2>6, <2>7, <2>9, <2>10, <2>11, <2>12, HandlerStep
  <1>4. QED
    BY <1>2, <1>3 DEF Tunnel!Patch

\* A handler begins with what it lists, and the account's lock or none.
LEMMA ReviewKeeps ==
  ASSUME Nobody \notin Workers, TunnelInv, NEW w \in Workers,
         \/ Tunnel!ReviewUpdate(w) \/ Tunnel!ReviewSuspend(w)
         \/ Tunnel!ReviewRestore(w) \/ Tunnel!ReviewTerminate(w)
  PROVE  TunnelInv'
  <1>1. /\ live \subseteq Nat /\ live \subseteq DOMAIN rowOf /\ password \in Nat
        /\ req \in [Workers -> Handlers]
    BY DEF TunnelInv, TunnelsTyped
  <1>2. PICK r \in Handlers :
          /\ req' = [req EXCEPT ![w] = r] /\ r.seen \subseteq live /\ r.version = 0
          /\ r.status = "none" /\ r.verdict \in {"none", "refused"}
          /\ r.verdict # "none" => r.at = "idle"
          /\ r.at \in {"idle", "patch", "terminate"}
          /\ r.at = "patch" /\ r.kind = "password" => r.seen = r.marked
          /\ r.at = "terminate" => \E s \in Nat : r.seen = {s}
    <2>1. CASE Tunnel!ReviewUpdate(w)
      <3>1. PICK disable \in BOOLEAN : Tunnel!Begins(w, "password",
              IF live \subseteq named
              THEN [Tunnel!Idle EXCEPT !.kind = "password", !.disable = disable, !.seen = live,
                                       !.marked = live, !.at = "patch"]
              ELSE [Tunnel!Idle EXCEPT !.verdict = "refused"])
        BY <2>1 DEF Tunnel!ReviewUpdate
      <3> DEFINE r == [Tunnel!Idle EXCEPT !.kind = "password", !.disable = disable,
                                          !.seen = live, !.marked = live, !.at = "patch"]
                 refused == [Tunnel!Idle EXCEPT !.verdict = "refused"]
      <3>2. "password" \in TunnelKinds
        BY <3>1 DEF Tunnel!Begins
      <3>3. r \in Handlers /\ r.seen = live /\ r.marked = live /\ r.version = 0
            /\ r.status = "none" /\ r.verdict = "none" /\ r.at = "patch"
        BY <1>1, <3>2, IdleHandler DEF Handlers, Tunnel!Stages
      <3>4. refused \in Handlers /\ refused.seen = {} /\ refused.version = 0
            /\ refused.status = "none" /\ refused.verdict = "refused" /\ refused.at = "idle"
        BY IdleHandler DEF Handlers, Tunnel!Verdicts
      <3>5. QED
        BY <3>1, <3>3, <3>4 DEF Tunnel!Begins
    <2>2. CASE Tunnel!ReviewSuspend(w)
      <3> DEFINE r == [Tunnel!Idle EXCEPT !.kind = "suspend", !.disable = TRUE, !.seen = live,
                                          !.todo = live, !.at = "patch"]
      <3>1. Tunnel!Begins(w, "suspend", r) /\ "suspend" \in TunnelKinds
        BY <2>2 DEF Tunnel!ReviewSuspend, Tunnel!Begins
      <3>2. r \in Handlers /\ r.seen = live /\ r.version = 0 /\ r.kind = "suspend"
            /\ r.status = "none" /\ r.verdict = "none" /\ r.at = "patch"
        BY <1>1, <3>1, IdleHandler DEF Handlers, Tunnel!Stages
      <3>3. QED
        BY <3>1, <3>2 DEF Tunnel!Begins
    <2>3. CASE Tunnel!ReviewRestore(w)
      <3> DEFINE r == [Tunnel!Idle EXCEPT !.kind = "restore", !.at = "patch"]
      <3>1. Tunnel!Begins(w, "restore", r) /\ "restore" \in TunnelKinds
        BY <2>3 DEF Tunnel!ReviewRestore, Tunnel!Begins
      <3>2. r \in Handlers /\ r.seen = {} /\ r.version = 0 /\ r.kind = "restore"
            /\ r.status = "none" /\ r.verdict = "none" /\ r.at = "patch"
        BY <3>1, IdleHandler DEF Handlers, Tunnel!Stages
      <3>3. QED
        BY <3>1, <3>2 DEF Tunnel!Begins
    <2>4. CASE Tunnel!ReviewTerminate(w)
      <3>1. PICK s \in live : Tunnel!Begins(w, "terminate",
               [Tunnel!Idle EXCEPT !.kind = "terminate", !.seen = {s}, !.at = "terminate"])
        BY <2>4 DEF Tunnel!ReviewTerminate
      <3> DEFINE r == [Tunnel!Idle EXCEPT !.kind = "terminate", !.seen = {s}, !.at = "terminate"]
      <3>2. "terminate" \in TunnelKinds
        BY <3>1 DEF Tunnel!Begins
      <3>3. r \in Handlers /\ r.seen = {s} /\ r.version = 0
            /\ r.status = "none" /\ r.verdict = "none" /\ r.at = "terminate"
        BY <1>1, <3>2, IdleHandler DEF Handlers, Tunnel!Stages
      <3>4. QED
        BY <1>1, <3>1, <3>3 DEF Tunnel!Begins
    <2>5. QED
      BY <2>1, <2>2, <2>3, <2>4
  <1>3. /\ UNCHANGED <<live, rowOf, named, openedBy, password, disabled, shutOut>>
        /\ holder' \in {w, holder}
    BY DEF Tunnel!ReviewUpdate, Tunnel!ReviewSuspend, Tunnel!ReviewRestore,
           Tunnel!ReviewTerminate, Tunnel!Begins, Tunnel!Locks, Tunnel!sessions,
           Tunnel!account
  <1>4. TunnelsTyped'
    BY <1>2, <1>3 DEF TunnelInv, TunnelsTyped
  <1>5. SessionsMove
    BY <1>1, <1>3 DEF SessionsMove
  <1>6. Relies(w, r)' /\ Claims(r)'
    <2>1. r.seen \subseteq DOMAIN rowOf' /\ r.version =< password'
      <3>1. rowOf' = rowOf /\ password' = password
        BY <1>3
      <3>2. r.seen \subseteq DOMAIN rowOf
        BY <1>1, <1>2
      <3>3. r.version =< password
        BY <1>1, <1>2
      <3>4. QED
        BY <3>1, <3>2, <3>3
    <2>2. Relies(w, r)'
      BY <1>2, <2>1 DEF Relies
    <2>3. Claims(r)'
      BY <1>2 DEF Claims
    <2>4. QED
      BY <2>2, <2>3
  <1>7. \A v \in Workers \ {w} : holder' = v => holder = v /\ (disabled => disabled')
    BY <1>3
  <1>8. QED
    BY <1>2, <1>3, <1>4, <1>5, <1>6, <1>7, HandlerStep DEF TunnelInv

\* The world: a lock that is lost, tunnels that come and go.
LEMMA WorldStep ==
  ASSUME TunnelInv, TunnelsTyped', SessionsMove, req' = req,
         \A v \in Workers : holder' = v => holder = v /\ (disabled => disabled'),
         shutOut' => disabled' /\ live' = {}
  PROVE  TunnelInv'
  <1> SUFFICES ASSUME NEW v \in Workers PROVE Relies(v, req[v])' /\ Claims(req[v])'
    BY DEF TunnelInv
  <1>1. PICK r \in Handlers : r = req[v]
    BY HandlerOK
  <1>2. Relies(v, r) /\ Claims(r)
    BY <1>1, HandlerOK
  <1>3. Relies(v, r)' /\ Claims(r)'
    BY <1>2, ClaimsStay DEF TunnelInv
  <1>4. req'[v] = r
    BY <1>1
  <1>5. QED
    BY <1>3, <1>4 DEF Relies, Claims

LEMMA ConnectKeeps ==
  ASSUME TunnelInv, NEW place \in Rows, Tunnel!Connect(place)
  PROVE  TunnelInv'
  <1>1. PICK n \in Nat : DOMAIN rowOf = 1..n
    BY DEF TunnelInv, TunnelsTyped
  <1>2. Cardinality(DOMAIN rowOf) = n
    BY <1>1, FS_Interval
  <1> DEFINE s == Tunnel!Cardinality(DOMAIN rowOf) + 1
  <1>3. /\ ~disabled /\ live' = live \cup {s}
        /\ rowOf' = [t \in DOMAIN rowOf \cup {s} |-> IF t = s THEN place ELSE rowOf[t]]
        /\ openedBy' = [t \in DOMAIN rowOf \cup {s} |-> IF t = s THEN password ELSE openedBy[t]]
        /\ UNCHANGED <<password, disabled, holder, req, shutOut>>
    BY DEF Tunnel!Connect, Tunnel!Opened, Tunnel!account
  <1>4. Tunnel!Cardinality(DOMAIN rowOf) = Cardinality(DOMAIN rowOf)
    BY DEF Tunnel!Cardinality, Cardinality
  <1> HIDE DEF s
  <1>5. s = n + 1
    BY <1>2, <1>4 DEF s
  <1>6. s \notin DOMAIN rowOf
    BY <1>1, <1>5
  <1>7. DOMAIN rowOf' = 1..s /\ s \in Nat
    BY <1>1, <1>3, <1>5
  <1>8. TunnelsTyped'
    BY <1>3, <1>7 DEF TunnelInv, TunnelsTyped
  <1>9. SessionsMove
    BY <1>3, <1>6 DEF SessionsMove, TunnelInv, TunnelsTyped
  <1>10. QED
    BY <1>3, <1>8, <1>9, WorldStep DEF TunnelInv

LEMMA OthersKeep ==
  ASSUME Nobody \notin Workers, TunnelInv,
         Tunnel!LoseLock \/ (\E s \in live : Tunnel!Disconnect(s)) \/ UNCHANGED Tunnel!vars
  PROVE  TunnelInv'
  <1>1. /\ UNCHANGED <<rowOf, openedBy, password, disabled, req, shutOut>>
        /\ live' \subseteq live /\ holder' \in {holder, Nobody}
    BY DEF Tunnel!LoseLock, Tunnel!Disconnect, Tunnel!vars, Tunnel!sessions, Tunnel!account
  <1>2. TunnelsTyped' /\ SessionsMove
    BY <1>1 DEF TunnelInv, TunnelsTyped, SessionsMove
  <1>3. QED
    BY <1>1, <1>2, WorldStep DEF TunnelInv

LEMMA TunnelsInitially ==
  ASSUME Tunnel!Init PROVE TunnelInv
  <1>1. /\ DOMAIN rowOf = 1..1 /\ DOMAIN openedBy = 1..1 /\ openedBy[1] = 0 /\ live = {1}
        /\ password = 0 /\ disabled = FALSE /\ holder = Nobody /\ shutOut = FALSE
        /\ req = [w \in Workers |-> Tunnel!Idle]
    BY DEF Tunnel!Init
  <1>2. TunnelsTyped
    <2>1. req \in [Workers -> Handlers]
      BY <1>1, IdleHandler
    <2>2. \E n \in Nat : DOMAIN rowOf = 1..n
      BY <1>1
    <2>3. live \subseteq DOMAIN rowOf /\ \A s \in DOMAIN rowOf : openedBy[s] \in 0..password
      BY <1>1
    <2>4. QED
      BY <1>1, <2>1, <2>2, <2>3 DEF TunnelsTyped
  <1>3. \A w \in Workers : Relies(w, req[w]) /\ Claims(req[w])
    BY <1>1, IdleHandler DEF Relies, Claims
  <1>4. QED
    BY <1>1, <1>2, <1>3 DEF TunnelInv

LEMMA TunnelStep ==
  ASSUME Nobody \notin Workers, TunnelInv, [Tunnel!Next]_Tunnel!vars PROVE TunnelInv'
  <1>1. ASSUME NEW w \in Workers, Tunnel!Update(w) PROVE TunnelInv'
    BY <1>1, ReviewKeeps, PatchKeeps, CaptureKeeps, CheckKeeps, DropKeeps, LastLookKeeps,
       ConfirmKeeps DEF Tunnel!Update
  <1>2. ASSUME NEW w \in Workers, Tunnel!Access(w) PROVE TunnelInv'
    BY <1>2, ReviewKeeps, ReadBackKeepsTunnels, CutKeeps, CountKeeps DEF Tunnel!Access
  <1>3. ASSUME NEW w \in Workers, Tunnel!Termination(w) PROVE TunnelInv'
    BY <1>3, ReviewKeeps, TerminateKeeps, PollKeeps DEF Tunnel!Termination
  <1>4. QED
    BY <1>1, <1>2, <1>3, ConnectKeeps, OthersKeep DEF Tunnel!Next

LEMMA TunnelInvariant == ASSUME Nobody \notin Workers PROVE Tunnel!Spec => []TunnelInv
  <1>1. Tunnel!Init => TunnelInv
    BY TunnelsInitially
  <1>2. TunnelInv /\ [Tunnel!Next]_Tunnel!vars => TunnelInv'
    BY TunnelStep
  <1>3. QED
    BY <1>1, <1>2, PTL DEF Tunnel!Spec

\* When a password change reports its sessions revoked, no tunnel of the old
\* password is up but on a reused row, whatever comes and goes during its calls
\* (_revoke_active_user_sessions, app.py:5921-6054).
THEOREM OldPasswordIsOut ==
  ASSUME Nobody \notin Workers PROVE Tunnel!Spec => []Tunnel!RevokedButForReusedRows
  <1>1. TunnelInv => Tunnel!RevokedButForReusedRows
    BY DEF TunnelInv, Claims, Tunnel!RevokedButForReusedRows, Tunnel!OpenedBefore, Tunnel!RowsOf
  <1>2. QED
    BY <1>1, TunnelInvariant, PTL

\* An account that was reported as suspended has no tunnel until it is enabled, and a
\* tunnel that was reported as terminated is gone (_set_user_access,
\* _terminate_session, app.py:7293-7505, 8283-8431).
THEOREM EndedStaysEnded ==
  ASSUME Nobody \notin Workers
  PROVE  Tunnel!Spec => [](Tunnel!SuspendedStaysOut /\ Tunnel!TerminatedIsGone)
  <1>1. TunnelInv => Tunnel!SuspendedStaysOut /\ Tunnel!TerminatedIsGone
    BY DEF TunnelInv, Claims, Tunnel!SuspendedStaysOut, Tunnel!TerminatedIsGone
  <1>2. QED
    BY <1>1, TunnelInvariant, PTL

\* Sessions that a handler remembers, and a handler whose PATCH may still change the
\* password.
Remembered(r) == r.seen \cup r.marked \cup r.todo \cup r.blurred
ToChange(w) == holder = w /\ req[w].at = "patch" /\ req[w].kind = "password"

\* The password is changed at most once per request: what is known of it is bounded
\* by the requests that began.
TunnelBounds ==
  /\ DOMAIN rowOf \subseteq Tunnel!Sessions /\ \A s \in DOMAIN rowOf : rowOf[s] \in Rows
  /\ named \subseteq DOMAIN rowOf /\ DOMAIN openedBy = DOMAIN rowOf
  /\ \A w \in Workers : Remembered(req[w]) \subseteq DOMAIN rowOf
  /\ begun \in 0..MaxTunnelRequests /\ mishaps \in 0..MaxTunnelMishaps
  /\ password =< begun /\ \A w \in Workers : ToChange(w) => password < begun

TunnelLimits ==
  Nobody \notin Workers /\ Rows # {} /\ MaxTunnels \in Nat \ {0}
  /\ MaxTunnelRequests \in Nat /\ MaxTunnelMishaps \in Nat

Mishaps == Tunnel!Smooth \/ Tunnel!Mishap

\* A step that makes no session and leaves the password.
Steady == UNCHANGED <<rowOf, openedBy, named, password>> /\ Mishaps

LEMMA MishapsOK ==
  ASSUME TunnelLimits, TunnelBounds, Mishaps PROVE mishaps' \in 0..MaxTunnelMishaps
  BY DEF TunnelLimits, TunnelBounds, Mishaps, Tunnel!Smooth, Tunnel!Mishap

\* A handler goes on: with what it remembers and what it sees.
LEMMA GoesWithin ==
  ASSUME TunnelLimits, TunnelInv, TunnelBounds, Steady, NEW w \in Workers, NEW r,
         req' = [req EXCEPT ![w] = r], r.at # "patch", begun' = begun,
         holder' \in {holder, Nobody},
         Remembered(r) \subseteq Remembered(req[w]) \cup live
  PROVE  TunnelBounds'
  <1>1. live \subseteq DOMAIN rowOf /\ req \in [Workers -> Handlers]
    BY DEF TunnelInv, TunnelsTyped
  <1>2. Remembered(r) \subseteq DOMAIN rowOf
    BY <1>1 DEF TunnelBounds
  <1>3. \A v \in Workers : req'[v] = IF v = w THEN r ELSE req[v]
    BY <1>1
  <1>4. \A v \in Workers : Remembered(req'[v]) \subseteq DOMAIN rowOf
    BY <1>2, <1>3 DEF TunnelBounds
  <1>5. \A v \in Workers : ToChange(v)' => ToChange(v)
    BY <1>3 DEF ToChange, TunnelLimits
  <1>6. mishaps' \in 0..MaxTunnelMishaps
    BY MishapsOK DEF Steady
  <1>7. QED
    BY <1>4, <1>5, <1>6 DEF TunnelBounds, Steady

\* A handler answers.
LEMMA EndsWithin ==
  ASSUME TunnelLimits, TunnelInv, TunnelBounds, Steady, NEW w \in Workers, NEW r \in Handlers,
         NEW verdict, Tunnel!Ended(w, r, verdict), r.seen \subseteq Remembered(req[w])
  PROVE  TunnelBounds'
  <1> DEFINE answered == [Tunnel!Idle EXCEPT !.verdict = verdict]
             told == [answered EXCEPT !.kind = r.kind, !.seen = r.seen, !.version = r.version,
                                      !.status = r.status]
             new == IF r.status = "verified" \/ verdict = "terminated" THEN told ELSE answered
  <1>1. /\ answered.at = "idle" /\ answered.seen = {} /\ answered.marked = {}
        /\ answered.todo = {} /\ answered.blurred = {}
    BY DEF Tunnel!Idle
  <1>2. /\ told.at = "idle" /\ told.seen = r.seen /\ told.marked = {}
        /\ told.todo = {} /\ told.blurred = {}
    BY DEF Tunnel!Idle
  <1>3. /\ req' = [req EXCEPT ![w] = new] /\ holder' \in {holder, Nobody} /\ begun' = begun
    BY DEF Tunnel!Ended
  <1> HIDE DEF answered, told
  <1>4. new.at # "patch" /\ Remembered(new) \subseteq Remembered(req[w])
    BY <1>1, <1>2 DEF Remembered
  <1> HIDE DEF new
  <1>5. QED
    BY <1>3, <1>4, GoesWithin

LEMMA AnswersWithin ==
  ASSUME TunnelLimits, TunnelInv, TunnelBounds, Steady, NEW w \in Workers, NEW verdict,
         Tunnel!Answers(w, verdict)
  PROVE  TunnelBounds'
  <1>1. PICK r \in Handlers : r = req[w]
    BY HandlerOK
  <1>2. Tunnel!Ended(w, r, verdict) /\ r.seen \subseteq Remembered(req[w])
    BY <1>1 DEF Tunnel!Answers, Remembered
  <1>3. QED
    BY <1>2, EndsWithin

\* Another stage, with the same memory.
LEMMA ToWithin ==
  ASSUME TunnelLimits, TunnelInv, TunnelBounds, Steady, NEW w \in Workers, NEW stage,
         Tunnel!To(w, stage), stage # "patch"
  PROVE  TunnelBounds'
  <1> DEFINE r == [req[w] EXCEPT !.at = stage]
  <1>1. req[w] \in Handlers
    BY HandlerOK
  <1>2. r.at = stage /\ Remembered(r) = Remembered(req[w])
    BY <1>1 DEF Handlers, Remembered
  <1>3. req' = [req EXCEPT ![w] = r] /\ holder' = holder /\ begun' = begun
    BY DEF Tunnel!To, Tunnel!Goes
  <1> HIDE DEF r
  <1>4. QED
    BY <1>2, <1>3, GoesWithin

LEMMA SteadySteps ==
  ASSUME NEW n
  PROVE  /\ UNCHANGED <<Tunnel!sessions, Tunnel!account>> /\ Mishaps => Steady
         /\ Tunnel!RowCleared(n) /\ Mishaps => Steady
  BY DEF Steady, Tunnel!sessions, Tunnel!account, Tunnel!RowCleared

LEMMA ChecksWithin ==
  ASSUME TunnelLimits, TunnelInv, TunnelBounds, NEW w \in Workers,
         Tunnel!Check(w) \/ Tunnel!Capture(w)
  PROVE  TunnelBounds'
  <1>1. req[w] \in Handlers
    BY HandlerOK
  <1>2. Steady /\ req[w].at # "patch"
    <2>1. UNCHANGED <<Tunnel!sessions, Tunnel!account>> /\ Mishaps
      BY Zenon DEF Tunnel!Check, Tunnel!Capture, Tunnel!Looks, Mishaps
    <2>2. req[w].at = "check" \/ req[w].at = "capture"
      BY Zenon DEF Tunnel!Check, Tunnel!Capture
    <2>3. QED
      BY <1>1, <2>1, <2>2, SteadySteps
  <1>3. ASSUME NEW r, Tunnel!Goes(w, r), r.at # "patch",
               Remembered(r) \subseteq Remembered(req[w]) \cup live
        PROVE  TunnelBounds'
    BY <1>1, <1>2, <1>3, GoesWithin DEF Tunnel!Goes
  <1>4. CASE \E stage \in {"lastLook", "drop"} : Tunnel!To(w, stage)
    BY <1>2, <1>4, ToWithin
  <1>5. CASE \E s \in req[w].todo :
               Tunnel!Goes(w, [[req[w] EXCEPT !.todo = @ \ {s}] EXCEPT !.blurred = @ \cup {s}])
    <2>1. PICK s \in req[w].todo :
            Tunnel!Goes(w, [[req[w] EXCEPT !.todo = @ \ {s}] EXCEPT !.blurred = @ \cup {s}])
      BY <1>5, Zenon
    <2> DEFINE r == [[req[w] EXCEPT !.todo = @ \ {s}] EXCEPT !.blurred = @ \cup {s}]
    <2>2. r.at = req[w].at /\ r.seen = req[w].seen /\ r.marked = req[w].marked /\ r.todo = req[w].todo \ {s}
          /\ r.blurred = req[w].blurred \cup {s}
      BY DEF Handlers
    <2> HIDE DEF r
    <2>3. Remembered(r) \subseteq Remembered(req[w])
      BY <2>2 DEF Remembered
    <2>4. QED
      BY <1>2, <1>3, <2>1, <2>2, <2>3 DEF r
  <1>6. CASE \E s \in req[w].todo : Tunnel!Goes(w, [req[w] EXCEPT !.todo = @ \ {s}])
    <2>1. PICK s \in req[w].todo : Tunnel!Goes(w, [req[w] EXCEPT !.todo = @ \ {s}])
      BY <1>6
    <2> DEFINE r == [req[w] EXCEPT !.todo = @ \ {s}]
    <2>2. r.at = req[w].at /\ r.seen = req[w].seen /\ r.marked = req[w].marked /\ r.todo = req[w].todo \ {s}
          /\ r.blurred = req[w].blurred
      BY DEF Handlers
    <2> HIDE DEF r
    <2>3. Remembered(r) \subseteq Remembered(req[w])
      BY <2>2 DEF Remembered
    <2>4. QED
      BY <1>2, <1>3, <2>1, <2>2, <2>3 DEF r
  <1>7. CASE Tunnel!Goes(w, [req[w] EXCEPT !.status = "unknown", !.at = "confirm"])
    <2> DEFINE r == [req[w] EXCEPT !.status = "unknown", !.at = "confirm"]
    <2>1. r.at = "confirm" /\ Remembered(r) = Remembered(req[w])
      BY DEF Handlers, Remembered
    <2>2. QED
      BY <1>3, <1>7, <2>1
  <1>8. CASE Tunnel!Capture(w)
    <2> DEFINE marked == req[w].marked \cup Tunnel!Newcomers(w)
               captured == [req[w] EXCEPT !.marked = marked, !.todo = marked, !.at = "check",
                                     !.uncaptured = ~(live \subseteq named)]
               missed == [req[w] EXCEPT !.todo = req[w].marked, !.at = "check", !.uncaptured = TRUE]
    <2>1. Tunnel!Goes(w, captured) \/ Tunnel!Goes(w, missed)
      BY <1>1, <1>8 DEF Tunnel!Capture, Tunnel!Looks
    <2>2. marked \subseteq req[w].marked \cup live
      BY DEF Tunnel!Newcomers
    <2> HIDE DEF marked
    <2>3. captured.at = "check" /\ captured.seen = req[w].seen /\ captured.marked = marked
          /\ captured.todo = marked /\ captured.blurred = req[w].blurred
      BY DEF Handlers
    <2>4. missed.at = "check" /\ missed.seen = req[w].seen /\ missed.marked = req[w].marked
          /\ missed.todo = req[w].marked /\ missed.blurred = req[w].blurred
      BY DEF Handlers
    <2> HIDE DEF captured, missed
    <2>5. Remembered(captured) \subseteq Remembered(req[w]) \cup live
      BY <2>2, <2>3 DEF Remembered
    <2>6. Remembered(missed) \subseteq Remembered(req[w]) \cup live
      BY <2>4 DEF Remembered
    <2>7. QED
      BY <1>3, <2>1, <2>3, <2>4, <2>5, <2>6
  <1>9. CASE Tunnel!Check(w)
    <2>1. CASE Tunnel!To(w, "lastLook")
      BY <1>4, <2>1
    <2>2. CASE Tunnel!Goes(w, [req[w] EXCEPT !.status = "unknown", !.at = "confirm"])
      BY <1>7, <2>2
    <2>3. ASSUME NEW s \in req[w].todo,
                 CASE s \in live -> Tunnel!To(w, "drop")
                   [] s \notin live /\ Tunnel!OnRow(s) \ named # {} ->
                        Tunnel!Goes(w, [[req[w] EXCEPT !.todo = @ \ {s}]
                                          EXCEPT !.blurred = @ \cup {s}])
                   [] OTHER -> Tunnel!Goes(w, [req[w] EXCEPT !.todo = @ \ {s}])
          PROVE  TunnelBounds'
      <3>1. CASE Tunnel!To(w, "drop")
        BY <1>4, <3>1
      <3>2. CASE Tunnel!Goes(w, [[req[w] EXCEPT !.todo = @ \ {s}] EXCEPT !.blurred = @ \cup {s}])
        BY <1>5, <3>2, Zenon
      <3>3. CASE Tunnel!Goes(w, [req[w] EXCEPT !.todo = @ \ {s}])
        BY <1>6, <3>3, Zenon
      <3>4. QED
        BY <2>3, <3>1, <3>2, <3>3
    <2>4. QED
      BY <1>9, <2>1, <2>2, <2>3, Zenon DEF Tunnel!Check, Tunnel!Looks
  <1>10. QED
    BY <1>8, <1>9

LEMMA CutsWithin ==
  ASSUME TunnelLimits, TunnelInv, TunnelBounds, NEW w \in Workers,
         Tunnel!Drop(w) \/ Tunnel!Cut(w)
  PROVE  TunnelBounds'
  <1>1. req[w] \in Handlers
    BY HandlerOK
  <1>2. Steady
    <2>1. \/ UNCHANGED <<Tunnel!sessions, Tunnel!account>>
          \/ \E s \in req[w].todo : Tunnel!RowCleared(rowOf[s])
      BY Zenon DEF Tunnel!Drop, Tunnel!Cut
    <2>2. Mishaps
      BY Zenon DEF Tunnel!Drop, Tunnel!Cut, Mishaps
    <2>3. QED
      BY <2>1, <2>2, SteadySteps
  <1>3. CASE \E stage \in {"lostDrop", "count"} : Tunnel!To(w, stage)
    BY <1>2, <1>3, ToWithin
  <1>4. CASE Tunnel!Answers(w, "coordination")
    BY <1>2, <1>4, AnswersWithin
  <1>5. ASSUME NEW s \in req[w].todo, NEW stage \in {"check", "cut"},
               Tunnel!Goes(w, [req[w] EXCEPT !.todo = @ \ {s}, !.at = stage])
        PROVE  TunnelBounds'
    <2>1. Tunnel!Goes(w, [req[w] EXCEPT !.todo = @ \ {s}, !.at = stage])
      BY <1>5
    <2> DEFINE r == [req[w] EXCEPT !.todo = @ \ {s}, !.at = stage]
    <2>2. r.at = stage /\ r.seen = req[w].seen /\ r.marked = req[w].marked /\ r.todo = req[w].todo \ {s}
          /\ r.blurred = req[w].blurred
      BY DEF Handlers
    <2> HIDE DEF r
    <2>3. Remembered(r) \subseteq Remembered(req[w])
      BY <2>2 DEF Remembered
    <2>4. QED
      BY <1>1, <1>2, <2>1, <2>2, <2>3, GoesWithin DEF Tunnel!Goes, r
  <1>6. CASE Tunnel!Drop(w)
    <2>1. \/ Tunnel!To(w, "lostDrop")
          \/ \E s \in req[w].todo :
               Tunnel!Goes(w, [req[w] EXCEPT !.todo = @ \ {s}, !.at = "check"])
      BY <1>6, Zenon DEF Tunnel!Drop
    <2>2. QED
      BY <1>3, <1>5, <2>1, Zenon
  <1>7. CASE Tunnel!Cut(w)
    <2>1. ASSUME NEW s \in req[w].todo PROVE [req[w] EXCEPT !.todo = @ \ {s}] = [req[w] EXCEPT !.todo = @ \ {s}, !.at = "cut"]
      BY <1>1, <1>7 DEF Tunnel!Cut, Handlers
    <2>2. \/ Tunnel!To(w, "count") \/ Tunnel!Answers(w, "coordination")
          \/ \E s \in req[w].todo : Tunnel!Goes(w, [req[w] EXCEPT !.todo = @ \ {s}])
      BY <1>7, Zenon DEF Tunnel!Cut
    <2>3. QED
      BY <1>3, <1>4, <1>5, <2>1, <2>2, Zenon
  <1>8. QED
    BY <1>6, <1>7

LEMMA LastLookWithin ==
  ASSUME TunnelLimits, TunnelInv, TunnelBounds, NEW w \in Workers,
         Tunnel!LastLook(w) \/ Tunnel!LostDrop(w)
  PROVE  TunnelBounds'
  <1>1. PICK h \in Handlers : h = req[w]
    BY HandlerOK
  <1>2. Steady
    BY SteadySteps DEF Tunnel!LastLook, Tunnel!LostDrop, Tunnel!Looks, Mishaps
  <1>3. Tunnel!Summary(w) \in Tunnel!Statuses
    BY DEF Tunnel!Summary, Tunnel!Statuses
  <1>4. CASE Tunnel!LastLook(w)
    <2>1. PICK status \in {Tunnel!Summary(w), "unknown"} :
            Tunnel!Goes(w, [h EXCEPT !.status = status, !.at = "confirm"])
      BY <1>1, <1>4 DEF Tunnel!LastLook, Tunnel!Looks
    <2> DEFINE r == [h EXCEPT !.status = status, !.at = "confirm"]
    <2>2. r.at = "confirm" /\ Remembered(r) = Remembered(h)
      BY DEF Handlers, Remembered
    <2> HIDE DEF r
    <2>3. QED
      BY <1>1, <1>2, <2>1, <2>2, GoesWithin DEF Tunnel!Goes, r
  <1>5. CASE Tunnel!LostDrop(w)
    <2>1. PICK status \in {Tunnel!Summary(w), "unknown"} :
            Tunnel!Ended(w, [h EXCEPT !.status = status], "coordination")
      BY <1>1, <1>5 DEF Tunnel!LostDrop, Tunnel!Looks
    <2> DEFINE r == [h EXCEPT !.status = status]
    <2>2. r \in Handlers /\ r.seen = h.seen
      BY <1>3 DEF Handlers, Tunnel!Statuses
    <2> HIDE DEF r
    <2>3. r.seen \subseteq Remembered(req[w])
      BY <1>1, <2>2 DEF Remembered
    <2>4. Tunnel!Ended(w, r, "coordination")
      BY <2>1 DEF r
    <2>5. QED
      BY <1>2, <2>2, <2>3, <2>4, EndsWithin
  <1>6. QED
    BY <1>4, <1>5

LEMMA RepliesWithin ==
  ASSUME TunnelLimits, TunnelInv, TunnelBounds, NEW w \in Workers,
         \/ Tunnel!Confirm(w) \/ Tunnel!ReadBack(w) \/ Tunnel!Count(w)
         \/ Tunnel!Terminate(w) \/ Tunnel!Poll(w)
  PROVE  TunnelBounds'
  <1>1. Steady
    BY SteadySteps DEF Tunnel!Confirm, Tunnel!ReadBack, Tunnel!Count, Tunnel!Terminate,
                       Tunnel!Poll, Tunnel!Looks, Mishaps
  <1>2. CASE \E verdict : Tunnel!Answers(w, verdict)
    BY <1>1, <1>2, AnswersWithin
  <1>3. CASE \E stage \in {"cut", "poll"} : Tunnel!To(w, stage)
    BY <1>1, <1>3, ToWithin
  <1>4. CASE Tunnel!Ended(w, req[w], "suspended")
    <2>1. PICK h \in Handlers : h = req[w]
      BY HandlerOK
    <2>2. h.seen \subseteq Remembered(req[w]) /\ Tunnel!Ended(w, h, "suspended")
      BY <1>4, <2>1 DEF Remembered
    <2>3. QED
      BY <1>1, <2>2, EndsWithin
  <1>5. CASE Tunnel!Confirm(w)
    BY <1>2, <1>5 DEF Tunnel!Confirm, Tunnel!Looks
  <1>6. CASE Tunnel!ReadBack(w)
    BY <1>2, <1>3, <1>6 DEF Tunnel!ReadBack, Tunnel!Looks
  <1>7. CASE Tunnel!Count(w)
    BY <1>2, <1>4, <1>7 DEF Tunnel!Count
  <1>8. CASE Tunnel!Terminate(w)
    BY <1>3, <1>8 DEF Tunnel!Terminate
  <1>9. CASE Tunnel!Poll(w)
    BY <1>2, <1>9 DEF Tunnel!Poll, Tunnel!Looks
  <1>10. QED
    BY <1>5, <1>6, <1>7, <1>8, <1>9

\* Only who holds the lock changes the password, and only once.
LEMMA PatchWithin ==
  ASSUME TunnelLimits, TunnelInv, TunnelBounds, NEW w \in Workers, Tunnel!Patch(w)
  PROVE  TunnelBounds'
  <1>1. req[w] \in Handlers
    BY HandlerOK
  <1>2. req[w].at = "patch" /\ password \in Nat /\ req \in [Workers -> Handlers]
    BY <1>1 DEF Tunnel!Patch, TunnelInv, TunnelsTyped
  <1> DEFINE Answered(lost) ==
        req' = [req EXCEPT ![w] = [req[w] EXCEPT
                  !.at = IF req[w].kind = "password" THEN "capture" ELSE "readBack",
                  !.ambiguous = lost, !.version = password']]
  <1>3. CASE Tunnel!Answers(w, "rejected") \/ Tunnel!Answers(w, "coordination")
    <2>1. req'[w].at = "idle"
      <3>1. PICK verdict \in Tunnel!Verdicts : Tunnel!Ended(w, req[w], verdict)
        BY <1>3 DEF Tunnel!Answers, Tunnel!Verdicts
      <3>2. QED
        BY <1>2, <3>1 DEF Tunnel!Ended, Tunnel!Idle
    <2>2. \/ UNCHANGED <<Tunnel!sessions, Tunnel!account>>
          \/ \E lost \in BOOLEAN : Answered(lost)
      BY Zenon DEF Tunnel!Patch
    <2>3. Mishaps
      BY Zenon DEF Tunnel!Patch, Mishaps
    <2>4. ASSUME NEW lost \in BOOLEAN, Answered(lost) PROVE req'[w].at # "idle"
      BY <1>1, <1>2, <2>4 DEF Handlers
    <2>5. UNCHANGED <<Tunnel!sessions, Tunnel!account>>
      BY <2>1, <2>2, <2>4, Zenon
    <2>6. Steady
      BY <2>3, <2>5, SteadySteps
    <2>7. QED
      BY <1>3, <2>6, AnswersWithin
  <1>4. CASE /\ holder = w /\ holder' = holder /\ begun' = begun /\ Mishaps
             /\ Tunnel!Patched(w) \/ Tunnel!Unpatched
             /\ \E lost \in BOOLEAN : Answered(lost)
    <2>1. PICK lost \in BOOLEAN : Answered(lost)
      BY <1>4, Zenon
    <2>2. /\ UNCHANGED <<rowOf, openedBy, named>>
          /\ \/ password' = password
             \/ password' = password + 1 /\ req[w].kind = "password"
      <3>1. CASE Tunnel!Patched(w)
        BY <1>2, <3>1 DEF Tunnel!Patched, Tunnel!sessions
      <3>2. CASE Tunnel!Unpatched
        BY <3>2 DEF Tunnel!Unpatched, Tunnel!sessions, Tunnel!account
      <3>3. QED
        BY <1>4, <3>1, <3>2
    <2> DEFINE stage == IF req[w].kind = "password" THEN "capture" ELSE "readBack"
               r == [req[w] EXCEPT !.at = stage, !.ambiguous = lost, !.version = password']
    <2>3. r.at = stage /\ Remembered(r) = Remembered(req[w])
      BY DEF Handlers, Remembered
    <2>4. stage # "patch" /\ req' = [req EXCEPT ![w] = r]
      BY <2>1
    <2> HIDE DEF stage, r
    <2>5. \A v \in Workers : req'[v] = IF v = w THEN r ELSE req[v]
      BY <1>2, <2>4
    <2>6. \A v \in Workers : Remembered(req'[v]) \subseteq DOMAIN rowOf
      BY <1>1, <2>3, <2>5 DEF TunnelBounds
    <2>7. \A v \in Workers : ~ToChange(v)'
      BY <1>4, <2>3, <2>4, <2>5 DEF ToChange
    <2>8. password' =< begun
      BY <1>1, <1>2, <1>4, <2>2 DEF TunnelBounds, ToChange
    <2>9. mishaps' \in 0..MaxTunnelMishaps
      BY <1>4, MishapsOK
    <2>10. QED
      BY <1>4, <2>2, <2>6, <2>7, <2>8, <2>9 DEF TunnelBounds
  <1>5. QED
    BY <1>3, <1>4, Zenon DEF Tunnel!Patch, Mishaps

LEMMA ReviewWithin ==
  ASSUME TunnelLimits, TunnelInv, TunnelBounds, NEW w \in Workers,
         \/ Tunnel!ReviewUpdate(w) \/ Tunnel!ReviewSuspend(w)
         \/ Tunnel!ReviewRestore(w) \/ Tunnel!ReviewTerminate(w)
  PROVE  TunnelBounds'
  <1>1. live \subseteq DOMAIN rowOf /\ req \in [Workers -> Handlers] /\ password \in Nat
    BY DEF TunnelInv, TunnelsTyped
  <1>2. PICK r : /\ req' = [req EXCEPT ![w] = r] /\ Remembered(r) \subseteq live
                 /\ begun < MaxTunnelRequests /\ begun' = begun + 1
                 /\ UNCHANGED <<Tunnel!sessions, Tunnel!account, mishaps>>
    <2>1. ASSUME NEW kind, NEW r, Tunnel!Begins(w, kind, r), Remembered(r) \subseteq live
          PROVE  /\ req' = [req EXCEPT ![w] = r] /\ Remembered(r) \subseteq live
                 /\ begun < MaxTunnelRequests /\ begun' = begun + 1
                 /\ UNCHANGED <<Tunnel!sessions, Tunnel!account, mishaps>>
      BY <2>1 DEF Tunnel!Begins
    <2>2. CASE Tunnel!ReviewUpdate(w)
      <3>1. PICK disable \in BOOLEAN : Tunnel!Begins(w, "password",
              IF live \subseteq named
              THEN [Tunnel!Idle EXCEPT !.kind = "password", !.disable = disable, !.seen = live,
                                       !.marked = live, !.at = "patch"]
              ELSE [Tunnel!Idle EXCEPT !.verdict = "refused"])
        BY <2>2, Zenon DEF Tunnel!ReviewUpdate
      <3> DEFINE r == [Tunnel!Idle EXCEPT !.kind = "password", !.disable = disable,
                                          !.seen = live, !.marked = live, !.at = "patch"]
                 refused == [Tunnel!Idle EXCEPT !.verdict = "refused"]
      <3>2. Remembered(r) \subseteq live /\ Remembered(refused) \subseteq live
        BY DEF Remembered, Tunnel!Idle
      <3>3. Tunnel!Begins(w, "password", r) \/ Tunnel!Begins(w, "password", refused)
        BY <3>1
      <3> HIDE DEF r, refused
      <3>4. QED
        BY <2>1, <3>2, <3>3
    <2>3. CASE Tunnel!ReviewSuspend(w)
      <3> DEFINE r == [Tunnel!Idle EXCEPT !.kind = "suspend", !.disable = TRUE, !.seen = live,
                                          !.todo = live, !.at = "patch"]
      <3>1. Tunnel!Begins(w, "suspend", r) /\ Remembered(r) \subseteq live
        BY <2>3 DEF Tunnel!ReviewSuspend, Remembered, Tunnel!Idle
      <3> HIDE DEF r
      <3>2. QED
        BY <2>1, <3>1
    <2>4. CASE Tunnel!ReviewRestore(w)
      <3> DEFINE r == [Tunnel!Idle EXCEPT !.kind = "restore", !.at = "patch"]
      <3>1. Tunnel!Begins(w, "restore", r) /\ Remembered(r) \subseteq live
        BY <2>4 DEF Tunnel!ReviewRestore, Remembered, Tunnel!Idle
      <3> HIDE DEF r
      <3>2. QED
        BY <2>1, <3>1
    <2>5. CASE Tunnel!ReviewTerminate(w)
      <3>1. PICK s \in live : Tunnel!Begins(w, "terminate",
               [Tunnel!Idle EXCEPT !.kind = "terminate", !.seen = {s}, !.at = "terminate"])
        BY <2>5, Zenon DEF Tunnel!ReviewTerminate
      <3> DEFINE r == [Tunnel!Idle EXCEPT !.kind = "terminate", !.seen = {s}, !.at = "terminate"]
      <3>2. Tunnel!Begins(w, "terminate", r) /\ Remembered(r) \subseteq live
        BY <3>1 DEF Remembered, Tunnel!Idle
      <3> HIDE DEF r
      <3>3. QED
        BY <2>1, <3>2
    <2>6. QED
      BY <2>2, <2>3, <2>4, <2>5
  <1>3. \A v \in Workers : Remembered(req'[v]) \subseteq DOMAIN rowOf
    BY <1>1, <1>2 DEF TunnelBounds
  <1>4. UNCHANGED <<rowOf, openedBy, named, password, mishaps>>
    BY <1>2 DEF Tunnel!sessions, Tunnel!account
  <1>5. begun' \in 0..MaxTunnelRequests /\ password' =< begun' /\ password' < begun'
    BY <1>1, <1>2, <1>4 DEF TunnelBounds, TunnelLimits
  <1>6. QED
    BY <1>3, <1>4, <1>5 DEF TunnelBounds

LEMMA WorldWithin ==
  ASSUME TunnelLimits, TunnelInv, TunnelBounds,
         \/ Tunnel!LoseLock \/ (\E s \in live : Tunnel!Disconnect(s))
         \/ UNCHANGED Tunnel!vars \/ (\E place \in Rows : Tunnel!Connect(place))
  PROVE  TunnelBounds'
  <1>1. req' = req /\ begun' = begun /\ password' = password /\ holder' \in {holder, Nobody}
    BY DEF Tunnel!LoseLock, Tunnel!Disconnect, Tunnel!Connect, Tunnel!vars, Tunnel!account
  <1>2. mishaps' \in 0..MaxTunnelMishaps
    <2>1. Mishaps
      BY DEF Tunnel!LoseLock, Tunnel!Disconnect, Tunnel!Connect, Tunnel!vars, Mishaps,
             Tunnel!Smooth
    <2>2. QED
      BY <2>1, MishapsOK
  <1>3. \A w \in Workers : ToChange(w)' => ToChange(w)
    BY <1>1 DEF ToChange, TunnelLimits
  <1>4. /\ DOMAIN rowOf \subseteq DOMAIN rowOf' /\ DOMAIN rowOf' \subseteq Tunnel!Sessions
        /\ \A s \in DOMAIN rowOf' : rowOf'[s] \in Rows
        /\ named' \subseteq DOMAIN rowOf' /\ DOMAIN openedBy' = DOMAIN rowOf'
    <2>1. CASE \E place \in Rows : Tunnel!Connect(place)
      <3>1. PICK place \in Rows : Tunnel!Connect(place)
        BY <2>1
      <3>2. PICK n \in Nat : DOMAIN rowOf = 1..n
        BY DEF TunnelInv, TunnelsTyped
      <3>3. Tunnel!Cardinality(DOMAIN rowOf) = n
        <4>1. Tunnel!Cardinality(DOMAIN rowOf) = Cardinality(DOMAIN rowOf)
          BY DEF Tunnel!Cardinality, Cardinality
        <4>2. QED
          BY <3>2, <4>1, FS_Interval
      <3> DEFINE s == Tunnel!Cardinality(DOMAIN rowOf) + 1
      <3>4. /\ s =< MaxTunnels
            /\ rowOf' = [t \in DOMAIN rowOf \cup {s} |-> IF t = s THEN place ELSE rowOf[t]]
            /\ openedBy' = [t \in DOMAIN rowOf \cup {s} |-> IF t = s THEN password ELSE openedBy[t]]
            /\ named' \in {named, named \cup {s}}
        BY <3>1 DEF Tunnel!Connect, Tunnel!Opened
      <3>5. s = n + 1
        BY <3>3
      <3> HIDE DEF s
      <3>6. s \in Tunnel!Sessions
        BY <3>2, <3>4, <3>5 DEF Tunnel!Sessions, TunnelLimits
      <3>7. DOMAIN rowOf' = DOMAIN rowOf \cup {s} /\ DOMAIN openedBy' = DOMAIN rowOf \cup {s}
        BY <3>4
      <3>8. \A t \in DOMAIN rowOf' : rowOf'[t] \in Rows
        BY <3>1, <3>4 DEF TunnelBounds
      <3>9. QED
        BY <3>4, <3>6, <3>7, <3>8 DEF TunnelBounds
    <2>2. CASE UNCHANGED <<rowOf, openedBy, named>>
      BY <2>2 DEF TunnelBounds
    <2>3. QED
      BY <2>1, <2>2 DEF Tunnel!LoseLock, Tunnel!Disconnect, Tunnel!vars, Tunnel!sessions
  <1>5. \A w \in Workers : Remembered(req'[w]) \subseteq DOMAIN rowOf'
    BY <1>1, <1>4 DEF TunnelBounds
  <1>6. QED
    BY <1>1, <1>2, <1>3, <1>4, <1>5 DEF TunnelBounds

LEMMA BoundsStep ==
  ASSUME TunnelLimits, TunnelInv, TunnelBounds, [Tunnel!Next]_Tunnel!vars PROVE TunnelBounds'
  <1>1. ASSUME NEW w \in Workers, Tunnel!Update(w) PROVE TunnelBounds'
    BY <1>1, ReviewWithin, PatchWithin, ChecksWithin, CutsWithin, LastLookWithin,
       RepliesWithin DEF Tunnel!Update
  <1>2. ASSUME NEW w \in Workers, Tunnel!Access(w) PROVE TunnelBounds'
    BY <1>2, ReviewWithin, CutsWithin, RepliesWithin DEF Tunnel!Access
  <1>3. ASSUME NEW w \in Workers, Tunnel!Termination(w) PROVE TunnelBounds'
    BY <1>3, ReviewWithin, RepliesWithin DEF Tunnel!Termination
  <1>4. QED
    BY <1>1, <1>2, <1>3, WorldWithin DEF Tunnel!Next

LEMMA BoundsInitially ==
  ASSUME TunnelLimits, Tunnel!Init PROVE TunnelBounds
  <1>1. /\ DOMAIN rowOf = {1} /\ rowOf[1] \in Rows /\ DOMAIN openedBy = {1} /\ named = {1}
        /\ password = 0 /\ begun = 0 /\ mishaps = 0
        /\ req = [w \in Workers |-> Tunnel!Idle]
    BY DEF Tunnel!Init, TunnelLimits
  <1>2. Remembered(Tunnel!Idle) = {} /\ Tunnel!Idle.at = "idle"
    BY DEF Remembered, Tunnel!Idle
  <1>3. 1 \in Tunnel!Sessions
    BY DEF TunnelLimits, Tunnel!Sessions
  <1>4. \A w \in Workers : ~ToChange(w) /\ Remembered(req[w]) = {}
    BY <1>1, <1>2 DEF ToChange
  <1>5. QED
    BY <1>1, <1>3, <1>4 DEF TunnelBounds, TunnelLimits

\* The variables of the handlers keep their types: what is numbered stays within the
\* sessions, requests and mishaps there can be.
THEOREM TunnelsHaveTypes ==
  ASSUME TunnelLimits PROVE Tunnel!Spec => []Tunnel!TypeOK
  <1>1. TunnelInv /\ TunnelBounds => Tunnel!TypeOK
    <2> SUFFICES ASSUME TunnelInv, TunnelBounds PROVE Tunnel!TypeOK
      OBVIOUS
    <2>1. password \in 0..MaxTunnelRequests
      BY DEF TunnelInv, TunnelsTyped, TunnelBounds, TunnelLimits
    <2>2. ASSUME NEW w \in Workers
          PROVE  req[w] \in [kind : TunnelKinds \cup {"none"}, at : Tunnel!Stages, disable : BOOLEAN,
              seen : SUBSET Tunnel!Sessions, marked : SUBSET Tunnel!Sessions,
              todo : SUBSET Tunnel!Sessions, blurred : SUBSET Tunnel!Sessions,
              ambiguous : BOOLEAN, uncaptured : BOOLEAN, version : 0..MaxTunnelRequests,
              status : Tunnel!Statuses, verdict : Tunnel!Verdicts]
      <3>1. PICK h \in Handlers : h = req[w]
        BY HandlerOK
      <3>2. h.version \in 0..MaxTunnelRequests
        BY <2>1, <3>1, HandlerOK DEF Relies, Handlers, TunnelLimits
      <3>3. Remembered(h) \subseteq Tunnel!Sessions
        BY <3>1 DEF TunnelBounds
      <3>4. /\ h.seen \subseteq Tunnel!Sessions /\ h.marked \subseteq Tunnel!Sessions
            /\ h.todo \subseteq Tunnel!Sessions /\ h.blurred \subseteq Tunnel!Sessions
        BY <3>3 DEF Remembered
      <3>5. QED
        BY <3>1, <3>2, <3>4 DEF Handlers
    <2>3. req \in [Workers -> [kind : TunnelKinds \cup {"none"}, at : Tunnel!Stages, disable : BOOLEAN,
              seen : SUBSET Tunnel!Sessions, marked : SUBSET Tunnel!Sessions,
              todo : SUBSET Tunnel!Sessions, blurred : SUBSET Tunnel!Sessions,
              ambiguous : BOOLEAN, uncaptured : BOOLEAN, version : 0..MaxTunnelRequests,
              status : Tunnel!Statuses, verdict : Tunnel!Verdicts]]
      <3>1. req \in [Workers -> Handlers]
        BY DEF TunnelInv, TunnelsTyped
      <3>2. QED
        BY <2>2, <3>1
    <2>4. QED
      BY <2>1, <2>3 DEF TunnelInv, TunnelsTyped, TunnelBounds, Tunnel!TypeOK, Tunnel!Opened
  <1>2. Tunnel!Init => TunnelBounds
    BY BoundsInitially
  <1>3. TunnelInv /\ TunnelBounds /\ [Tunnel!Next]_Tunnel!vars => TunnelBounds'
    BY BoundsStep
  <1>4. Nobody \notin Workers
    BY DEF TunnelLimits
  <1>5. QED
    BY <1>1, <1>2, <1>3, <1>4, TunnelInvariant, PTL DEF Tunnel!Spec

-----------------------------------------------------------------------------
(* Changes of several accounts *)

Least(S) == CHOOSE a \in S : \A b \in S : a =< b

LEMMA LeastOK ==
  ASSUME NEW S \in SUBSET Nat, S # {}
  PROVE  Least(S) \in S /\ \A b \in S : Least(S) =< b
  <1>1. \E x \in S : \A y \in S : ~(<<y, x>> \in OpToRel(<, Nat))
    BY NatLessThanWellFounded, WFMin, Zenon
  <1>2. PICK x \in S : \A y \in S : ~(<<y, x>> \in OpToRel(<, Nat))
    BY <1>1
  <1>3. ASSUME NEW y \in S PROVE x =< y
    <2>1. <<y, x>> \in OpToRel(<, Nat) <=> y < x
      BY DEF OpToRel
    <2>2. ~(y < x)
      BY <1>2, <2>1, Zenon
    <2>3. QED
      BY <2>2
  <1>4. QED
    BY <1>3 DEF Least

Changes ==
  [kind : BulkKinds \cup {"none"}, at : Several!Stages, todo : SUBSET Accounts,
   selected : SUBSET Accounts, template : Templates, skip : SUBSET Accounts,
   listed : SUBSET Accounts, devices : SUBSET Several!Certs, mismatch : BOOLEAN,
   started : BOOLEAN, left : BOOLEAN, outcome : [Accounts -> Several!Outcomes],
   verdict : Several!Verdicts]

BulkTyped ==
  /\ disabled \subseteq Accounts /\ online \subseteq Accounts
  /\ closed \subseteq revoked /\ revoked \subseteq Several!Certs
  /\ profile \in [Accounts -> Templates] /\ assigned \in [Accounts -> Templates]
  /\ holder \in [Accounts -> Workers \cup {Nobody}]
  /\ touched \in [Workers -> SUBSET Accounts]

\* What a request touched is in its outcomes, but for the account whose turn it is
\* while its change is under way.
Untold == {"none", "skipped", "unchanged"}
Accounted(w, q) ==
  /\ q.at # "idle" => \A a \in touched[w] :
       IF a \in q.todo THEN q.started /\ a = Least(q.todo) ELSE q.outcome[a] \notin Untold
  /\ q.at = "idle" /\ q.verdict \in {"done", "coordination"} =>
       \A a \in touched[w] : q.outcome[a] \notin Untold
  /\ q.at # "idle" => q.verdict = "none"
  /\ q.at = "turn" => ~q.started
  /\ q.at \notin {"idle", "turn"} => q.todo # {}
  /\ q.at \in {"readBack", "cut", "count", "settle", "revoked", "rate", "assign", "readProfile"}
       => q.started

\* What a request has seen of the account whose turn it is, or of one it will pass
\* over, stays so while its lock is not lost.
Sees(w, q) ==
  /\ q.at \in {"patch", "readBack", "cut", "count", "settle"} => q.kind = "suspend"
  /\ q.at \in {"revoke", "revoked"} =>
       /\ q.kind = "revoke" /\ q.devices # {}
       /\ \A c \in Several!Certs : c[1] = Least(q.todo) =>
            c \in q.devices \cup closed \/ q.mismatch
  /\ q.at \in {"rate", "assign", "readProfile"} => q.kind = "template"
  /\ q.at \in {"cut", "count", "settle"} /\ holder[Least(q.todo)] = w =>
       Least(q.todo) \in disabled
  /\ q.at = "settle" /\ ~q.left /\ holder[Least(q.todo)] = w => Least(q.todo) \notin online
  /\ q.at # "idle" /\ q.kind = "template" =>
       \A a \in q.skip \cap q.todo : holder[a] = w => assigned[a] = q.template

BulkInv ==
  /\ BulkTyped /\ req \in [Workers -> Changes]
  /\ \A w \in Workers : Accounted(w, req[w]) /\ Sees(w, req[w])

\* A step about account t, by the request that has its lock; locks are lost.
Careful(w, t) ==
  /\ closed \subseteq closed' /\ disabled \subseteq disabled' /\ online' \subseteq online
  /\ \A a \in Accounts : assigned'[a] # assigned[a] => a = t /\ holder[a] = w
  /\ \A v \in Workers \ {w} : touched'[v] = touched[v]
  /\ \A a \in Accounts : holder'[a] \in {holder[a], Nobody}

\* What another request relies on, or this one where it is not about to change it.
Undisturbed(v) ==
  /\ touched'[v] = touched[v] /\ closed \subseteq closed'
  /\ \A a \in Accounts : holder'[a] = v =>
       /\ holder[a] = v /\ assigned'[a] = assigned[a]
       /\ a \in disabled => a \in disabled' /\ (a \notin online => a \notin online')

LEMMA OthersRely ==
  ASSUME Several!BulkAssumption, BulkInv, NEW v \in Workers, NEW q \in Changes,
         Accounted(v, q), Sees(v, q), Undisturbed(v)
  PROVE  Accounted(v, q)' /\ Sees(v, q)'
  <1>1. q.todo # {} => Least(q.todo) \in Accounts
    BY LeastOK DEF Changes, Several!BulkAssumption
  <1>2. Accounted(v, q)'
    BY DEF Accounted, Undisturbed
  <1>3. q.skip \cap q.todo \subseteq Accounts
    BY DEF Changes
  <1>4. Sees(v, q)'
    BY <1>1, <1>3 DEF Sees, Accounted, Undisturbed
  <1>5. QED
    BY <1>2, <1>4

\* A step of one request.
LEMMA ChangeStep ==
  ASSUME Several!BulkAssumption, BulkInv, NEW w \in Workers, NEW t, NEW q \in Changes,
         req' = [req EXCEPT ![w] = q], BulkTyped', Careful(w, t),
         Accounted(w, q)', Sees(w, q)'
  PROVE  BulkInv'
  <1>1. req' \in [Workers -> Changes]
    BY DEF BulkInv
  <1>2. ASSUME NEW v \in Workers \ {w} PROVE Accounted(v, req[v])' /\ Sees(v, req[v])'
    <2>1. PICK p \in Changes : p = req[v]
      BY DEF BulkInv
    <2>2. Accounted(v, p) /\ Sees(v, p)
      BY <2>1 DEF BulkInv
    <2>3. Undisturbed(v)
      BY DEF Undisturbed, Careful, Several!BulkAssumption
    <2>4. Accounted(v, p)' /\ Sees(v, p)'
      BY <2>2, <2>3, OthersRely
    <2>5. req'[v] = p
      BY <2>1 DEF BulkInv
    <2>6. QED
      BY <2>4, <2>5 DEF Accounted, Sees
  <1>3. req'[w] = q
    BY DEF BulkInv
  <1>4. Accounted(w, req[w])' /\ Sees(w, req[w])'
    BY <1>3 DEF Accounted, Sees
  <1>5. QED
    BY <1>1, <1>2, <1>4 DEF BulkInv

LEMMA ChangeOK ==
  ASSUME Several!BulkAssumption, BulkInv, NEW w \in Workers
  PROVE  /\ req[w] \in Changes /\ Accounted(w, req[w]) /\ Sees(w, req[w])
         /\ Several!Turn(w) = Least(req[w].todo)
         /\ req[w].todo # {} => Several!Turn(w) \in req[w].todo /\ Several!Turn(w) \in Accounts
  <1>1. req[w] \in Changes /\ Accounted(w, req[w]) /\ Sees(w, req[w])
    BY DEF BulkInv
  <1>2. Several!Turn(w) = Least(req[w].todo)
    BY DEF Several!Turn, Least
  <1>3. req[w].todo \subseteq Accounts /\ req[w].todo \in SUBSET Nat
    BY <1>1 DEF Changes, Several!BulkAssumption
  <1>4. QED
    BY <1>1, <1>2, <1>3, LeastOK

\* What a step leaves of the types.
LEMMA TypesKept ==
  ASSUME BulkInv, UNCHANGED <<disabled, online, profile, revoked>>, UNCHANGED touched,
         closed' \subseteq revoked, assigned' \in [Accounts -> Templates],
         holder' \in [Accounts -> Workers \cup {Nobody}]
  PROVE  BulkTyped'
  BY DEF BulkInv, BulkTyped

\* The outcome of the account whose turn it was.
Told(q, status) ==
  [q EXCEPT !.outcome[Least(q.todo)] = status, !.todo = @ \ {Least(q.todo)},
            !.started = FALSE, !.mismatch = FALSE, !.at = "turn"]

LEMMA ToldOK ==
  ASSUME Several!BulkAssumption, NEW q \in Changes, NEW status \in Several!Outcomes, q.todo # {}
  PROVE  LET o == Told(q, status) IN
         /\ o \in Changes /\ o.kind = q.kind /\ o.todo = q.todo \ {Least(q.todo)}
         /\ o.at = "turn" /\ o.started = FALSE /\ o.verdict = q.verdict /\ o.skip = q.skip /\ o.template = q.template
         /\ \A a \in Accounts : a # Least(q.todo) => o.outcome[a] = q.outcome[a]
         /\ o.outcome[Least(q.todo)] = status
  <1>1. Least(q.todo) \in q.todo /\ Least(q.todo) \in Accounts
    BY LeastOK DEF Changes, Several!BulkAssumption
  <1>2. PICK f \in [Accounts -> Several!Outcomes], T \in SUBSET Accounts :
          f = [q.outcome EXCEPT ![Least(q.todo)] = status] /\ T = q.todo \ {Least(q.todo)}
    BY DEF Changes
  <1>3. Told(q, status) = [q EXCEPT !.outcome = f, !.todo = T,
                                    !.started = FALSE, !.mismatch = FALSE, !.at = "turn"]
    BY <1>2 DEF Told, Changes
  <1> DEFINE o == [q EXCEPT !.outcome = f, !.todo = T, !.started = FALSE,
                            !.mismatch = FALSE, !.at = "turn"]
  <1>4. o \in Changes
    BY DEF Changes, Several!Stages
  <1>5. /\ o.kind = q.kind /\ o.todo = T /\ o.at = "turn" /\ o.started = FALSE
        /\ o.verdict = q.verdict /\ o.skip = q.skip /\ o.template = q.template /\ o.outcome = f
    BY DEF Changes
  <1>6. /\ \A a \in Accounts : a # Least(q.todo) => f[a] = q.outcome[a]
        /\ f[Least(q.todo)] = status
    BY <1>1, <1>2 DEF Changes
  <1> HIDE DEF o
  <1>7. QED
    BY <1>2, <1>3, <1>4, <1>5, <1>6 DEF o

LEMMA OutcomeKeeps ==
  ASSUME Several!BulkAssumption, BulkInv, NEW w \in Workers, NEW status \in Several!Outcomes,
         Several!Outcome(w, status), req[w].todo # {}, req[w].at # "idle",
         touched' = touched, BulkTyped', Careful(w, Several!Turn(w)),
         status \in Untold => ~req[w].started
  PROVE  BulkInv'
  <1>1. PICK q \in Changes : q = req[w] /\ Accounted(w, q) /\ Sees(w, q) /\ q.todo # {}
                             /\ Several!Turn(w) = Least(q.todo) /\ Least(q.todo) \in q.todo
    BY ChangeOK
  <1> DEFINE o == Told(q, status)
  <1>2. req' = [req EXCEPT ![w] = o] /\ holder' = holder
    BY <1>1 DEF Several!Outcome, Several!Goes, Told
  <1>3. /\ o \in Changes /\ o.kind = q.kind /\ o.todo = q.todo \ {Least(q.todo)}
        /\ o.at = "turn" /\ o.started = FALSE /\ o.verdict = q.verdict /\ o.skip = q.skip /\ o.template = q.template
        /\ \A a \in Accounts : a # Least(q.todo) => o.outcome[a] = q.outcome[a]
        /\ o.outcome[Least(q.todo)] = status
    BY <1>1, ToldOK
  <1> HIDE DEF o
  <1>4. touched[w] \subseteq Accounts
    BY DEF BulkInv, BulkTyped
  <1>5. q.at # "idle" /\ (status \in Untold => ~q.started)
    BY <1>1
  <1>6. \A a \in touched[w] : IF a \in o.todo THEN o.started /\ a = Least(o.todo)
                              ELSE o.outcome[a] \notin Untold
    <2> TAKE a \in touched[w]
    <2>1. IF a \in q.todo THEN q.started /\ a = Least(q.todo) ELSE q.outcome[a] \notin Untold
      BY <1>1, <1>5 DEF Accounted
    <2>2. a \notin o.todo
      BY <1>3, <2>1
    <2>3. o.outcome[a] \notin Untold
      BY <1>1, <1>3, <1>4, <1>5, <2>1
    <2>4. QED
      BY <2>2, <2>3
  <1>7. Accounted(w, o)'
    BY <1>1, <1>3, <1>5, <1>6 DEF Accounted
  <1>8. \A a \in Accounts \ {Least(q.todo)} : assigned'[a] = assigned[a]
    BY <1>1 DEF Careful
  <1>9. o.skip \cap o.todo \subseteq Accounts \ {Least(q.todo)}
    BY <1>3 DEF Changes
  <1>10. Sees(w, o)'
    BY <1>1, <1>2, <1>3, <1>5, <1>8, <1>9 DEF Sees
  <1>11. QED
    BY <1>1, <1>2, <1>3, <1>7, <1>10, ChangeStep

\* The answer.
LEMMA LeavesKeeps ==
  ASSUME Several!BulkAssumption, BulkInv, NEW w \in Workers, NEW o \in [Accounts -> Several!Outcomes],
         NEW verdict \in Several!Verdicts, Several!LeavesWith(w, o, verdict),
         UNCHANGED <<disabled, online, profile, revoked, touched>>,
         closed \subseteq closed', closed' \subseteq revoked,
         assigned' \in [Accounts -> Templates],
         \A a \in Accounts : assigned'[a] # assigned[a] =>
           a = Several!Turn(w) /\ holder[a] = w,
         verdict \in {"done", "coordination"} => \A a \in touched[w] : o[a] \notin Untold
  PROVE  BulkInv'
  <1>1. PICK k \in BulkKinds \cup {"none"} : k = req[w].kind
    BY DEF BulkInv, Changes
  <1> DEFINE n == [Several!Idle EXCEPT !.kind = k, !.outcome = o, !.verdict = verdict]
  <1>2. n \in Changes /\ n.at = "idle" /\ n.verdict = verdict /\ n.outcome = o
    BY DEF Several!Idle, Changes, Several!SomeTemplate, Several!BulkAssumption, Several!Stages,
           Several!Outcomes, Several!Verdicts
  <1>3. req' = [req EXCEPT ![w] = n]
    BY <1>1 DEF Several!LeavesWith
  <1> HIDE DEF n
  <1>4. holder' \in [Accounts -> Workers \cup {Nobody}]
        /\ \A a \in Accounts : holder'[a] \in {holder[a], Nobody}
    BY DEF Several!LeavesWith, BulkInv, BulkTyped
  <1>5. BulkTyped'
    BY <1>4 DEF BulkTyped, BulkInv
  <1>6. Careful(w, Several!Turn(w))
    BY <1>4 DEF Careful
  <1>7. Accounted(w, n)' /\ Sees(w, n)'
    BY <1>2 DEF Accounted, Sees
  <1>8. QED
    BY <1>2, <1>3, <1>5, <1>6, <1>7, ChangeStep

LEMMA DispossessedKeeps ==
  ASSUME Several!BulkAssumption, BulkInv, NEW w \in Workers, Several!Dispossessed(w),
         req[w].at # "idle", req[w].todo # {}
  PROVE  BulkInv'
  <1>1. PICK q \in Changes : q = req[w] /\ Accounted(w, q) /\ Several!Turn(w) = Least(q.todo)
                             /\ Least(q.todo) \in Accounts
    BY ChangeOK
  <1>2. PICK o \in [Accounts -> Several!Outcomes] : o = Several!Unfinished(w)
    BY <1>1 DEF Several!Unfinished, Changes, Several!Outcomes
  <1>3. touched[w] \subseteq Accounts
    BY DEF BulkInv, BulkTyped
  <1>4. \A a \in touched[w] : o[a] \notin Untold
    BY <1>1, <1>2, <1>3 DEF Several!Unfinished, Accounted, Changes, Untold
  <1>5. Several!LeavesWith(w, o, "coordination")
        /\ UNCHANGED <<disabled, online, profile, revoked, touched, closed, assigned>>
    BY <1>2 DEF Several!Dispossessed, Several!router, Several!store
  <1>6. "coordination" \in Several!Verdicts
    BY DEF Several!Verdicts
  <1>7. QED
    BY <1>4, <1>5, <1>6, LeavesKeeps DEF BulkInv, BulkTyped

LEMMA CrashKeeps ==
  ASSUME Several!BulkAssumption, BulkInv, NEW w \in Workers, Several!Crashes(w),
         closed' = closed, assigned' \in [Accounts -> Templates],
         \A a \in Accounts : assigned'[a] # assigned[a] =>
           a = Several!Turn(w) /\ holder[a] = w
  PROVE  BulkInv'
  <1>1. PICK o \in [Accounts -> Several!Outcomes] : o = req[w].outcome
    BY ChangeOK DEF Changes
  <1>2. Several!LeavesWith(w, o, "crashed")
        /\ UNCHANGED <<disabled, online, profile, revoked, touched>>
    BY <1>1 DEF Several!Crashes, Several!router
  <1>3. "crashed" \in Several!Verdicts
    BY DEF Several!Verdicts
  <1>4. QED
    BY <1>2, <1>3, LeavesKeeps DEF BulkInv, BulkTyped

\* A request that goes on with the same account.
LEMMA GoesKeeps ==
  ASSUME Several!BulkAssumption, BulkInv, NEW w \in Workers, NEW q \in Changes,
         Several!Goes(w, q), BulkTyped', Careful(w, Several!Turn(w)),
         Accounted(w, q)', Sees(w, q)'
  PROVE  BulkInv'
  BY ChangeStep DEF Several!Goes

\* Requests that read.
LEMMA ReadingIsCareful ==
  ASSUME BulkInv, NEW w, NEW t, UNCHANGED <<Several!router, Several!store, touched>>,
         holder' = holder
  PROVE  BulkTyped' /\ Careful(w, t)
  <1>1. UNCHANGED <<disabled, online, profile, revoked, closed, assigned>>
    BY DEF Several!router, Several!store
  <1>2. QED
    BY <1>1 DEF BulkInv, BulkTyped, Careful

\* A change of the router for the account whose turn it is, made or not.
LEMMA SendingKeeps ==
  ASSUME Several!BulkAssumption, BulkInv, NEW w \in Workers, NEW n \in Changes,
         Several!Goes(w, n), UNCHANGED Several!store,
         disabled \subseteq disabled', disabled' \subseteq Accounts, online' \subseteq online,
         revoked \subseteq revoked', revoked' \subseteq Several!Certs,
         profile' \in [Accounts -> Templates],
         touched' \in {touched, [touched EXCEPT ![w] = @ \cup {Several!Turn(w)}]},
         req[w].at \notin {"idle", "turn"}, n.at \notin {"idle", "turn"},
         n.todo = req[w].todo, n.outcome = req[w].outcome, n.started, n.verdict = req[w].verdict,
         Sees(w, n)'
  PROVE  BulkInv'
  <1>1. /\ Accounted(w, req[w]) /\ req[w].todo # {} /\ Several!Turn(w) = Least(req[w].todo)
        /\ Several!Turn(w) \in req[w].todo /\ Several!Turn(w) \in Accounts
    BY ChangeOK DEF Accounted
  <1>2. closed' = closed /\ assigned' = assigned /\ holder' = holder
    BY DEF Several!Goes, Several!store
  <1>3. BulkTyped'
    BY <1>1, <1>2 DEF BulkInv, BulkTyped
  <1>4. Careful(w, Several!Turn(w))
    BY <1>2 DEF Careful, BulkInv, BulkTyped
  <1>5. touched' \in [Workers -> SUBSET Accounts]
        /\ touched'[w] \subseteq touched[w] \cup {Several!Turn(w)}
    BY <1>3 DEF BulkTyped, BulkInv
  <1>6. \A a \in touched'[w] : IF a \in n.todo THEN n.started /\ a = Least(n.todo)
                               ELSE n.outcome[a] \notin Untold
    BY <1>1, <1>5 DEF Accounted
  <1>7. Accounted(w, n)'
    BY <1>1, <1>6 DEF Accounted
  <1>8. QED
    BY <1>3, <1>4, <1>7, GoesKeeps

\* What the handlers of one account see.
LEMMA PatchKeepsBulk ==
  ASSUME Several!BulkAssumption, BulkInv, NEW w \in Workers, Several!Patch(w)
  PROVE  BulkInv'
  <1>1. PICK q \in Changes : q = req[w] /\ Accounted(w, q) /\ Sees(w, q) /\ q.at = "patch"
                             /\ q.todo # {} /\ Several!Turn(w) \in Accounts
    BY ChangeOK DEF Several!Patch, Accounted
  <1>2. CASE Several!Dispossessed(w)
    BY <1>1, <1>2, DispossessedKeeps
  <1>3. CASE ~Several!Dispossessed(w)
    <2> DEFINE n == [q EXCEPT !.started = TRUE, !.at = "readBack"]
    <2>1. /\ n \in Changes /\ n.at = "readBack" /\ n.todo = q.todo /\ n.outcome = q.outcome
          /\ n.started /\ n.kind = q.kind /\ n.skip = q.skip /\ n.template = q.template
          /\ n.verdict = q.verdict
      BY DEF Changes, Several!Stages
    <2>2. /\ Several!Goes(w, n) /\ UNCHANGED Several!store
          /\ touched' \in {touched, [touched EXCEPT ![w] = @ \cup {Several!Turn(w)}]}
          /\ disabled' \in {disabled, disabled \cup {Several!Turn(w)}}
          /\ UNCHANGED <<online, profile, revoked>>
      BY <1>1, <1>3, Zenon DEF Several!Patch, Several!Change, Several!router, Several!Untouched
    <2> HIDE DEF n
    <2>3. Sees(w, n)'
      BY <1>1, <2>1 DEF Sees
    <2>4. QED
      BY <1>1, <2>1, <2>2, <2>3, SendingKeeps DEF BulkInv, BulkTyped
  <1>4. QED
    BY <1>2, <1>3

\* Outcomes after a reading.
LEMMA ReadOutcome ==
  ASSUME Several!BulkAssumption, BulkInv, NEW w \in Workers, NEW status \in Several!Outcomes \ Untold,
         Several!Outcome(w, status), UNCHANGED <<Several!router, Several!store, touched>>,
         req[w].at \notin {"idle", "turn"}
  PROVE  BulkInv'
  <1>1. req[w].todo # {}
    BY ChangeOK DEF Accounted
  <1>2. holder' = holder
    BY DEF Several!Outcome, Several!Goes
  <1>3. BulkTyped' /\ Careful(w, Several!Turn(w))
    BY <1>2, ReadingIsCareful
  <1>4. QED
    BY <1>1, <1>3, OutcomeKeeps

LEMMA StatusesOK ==
  /\ {"failed", "unknown", "partial", "verified"} \subseteq Several!Outcomes \ Untold
  /\ Several!Outcomes = Untold \cup {"failed", "unknown", "partial", "verified"}
  BY DEF Several!Outcomes, Untold

LEMMA ReadBackKeepsBulk ==
  ASSUME Several!BulkAssumption, BulkInv, NEW w \in Workers, Several!ReadBack(w)
  PROVE  BulkInv'
  <1>1. PICK q \in Changes : q = req[w] /\ Accounted(w, q) /\ Sees(w, q) /\ q.at = "readBack"
                             /\ q.todo # {} /\ Several!Turn(w) = Least(q.todo)
    BY ChangeOK DEF Several!ReadBack, Accounted
  <1>2. UNCHANGED <<Several!router, Several!store, touched>>
    BY DEF Several!ReadBack, Several!Reads, Several!Untouched
  <1>3. CASE \E status \in {"failed", "unknown"} : Several!Outcome(w, status)
    BY <1>1, <1>2, <1>3, ReadOutcome, StatusesOK
  <1>4. CASE Several!To(w, "cut") /\ Several!Turn(w) \in disabled
    <2> DEFINE n == [q EXCEPT !.at = "cut"]
    <2>1. /\ n \in Changes /\ n.at = "cut" /\ n.todo = q.todo /\ n.outcome = q.outcome
          /\ n.started = q.started /\ n.kind = q.kind /\ n.skip = q.skip /\ n.template = q.template
          /\ n.verdict = q.verdict
      BY DEF Changes, Several!Stages
    <2>2. Several!Goes(w, n)
      BY <1>1, <1>4 DEF Several!To
    <2> HIDE DEF n
    <2>3. BulkTyped' /\ Careful(w, Several!Turn(w))
      BY <1>2, <2>2, ReadingIsCareful DEF Several!Goes
    <2>4. Accounted(w, n)'
      BY <1>1, <1>2, <2>1 DEF Accounted
    <2>5. disabled' = disabled
      BY <1>2 DEF Several!router
    <2>6. Sees(w, n)'
      BY <1>1, <1>4, <2>1, <2>5 DEF Sees
    <2>7. QED
      BY <2>1, <2>2, <2>3, <2>4, <2>6, GoesKeeps
  <1>5. QED
    BY <1>3, <1>4 DEF Several!ReadBack, Several!Reads

LEMMA CutKeepsBulk ==
  ASSUME Several!BulkAssumption, BulkInv, NEW w \in Workers, Several!Cut(w)
  PROVE  BulkInv'
  <1>1. PICK q \in Changes : q = req[w] /\ Accounted(w, q) /\ Sees(w, q) /\ q.at = "cut"
                             /\ q.todo # {} /\ Several!Turn(w) = Least(q.todo)
                             /\ Several!Turn(w) \in Accounts
    BY ChangeOK DEF Several!Cut, Accounted
  <1>2. CASE Several!Dispossessed(w)
    BY <1>1, <1>2, DispossessedKeeps
  <1>3. CASE ~Several!Dispossessed(w)
    <2> DEFINE n == [q EXCEPT !.at = "count"]
    <2>1. /\ n \in Changes /\ n.at = "count" /\ n.todo = q.todo /\ n.outcome = q.outcome
          /\ n.started = q.started /\ n.kind = q.kind /\ n.skip = q.skip /\ n.template = q.template
          /\ n.verdict = q.verdict
      BY DEF Changes, Several!Stages
    <2>2. /\ Several!Goes(w, n) /\ UNCHANGED Several!store
          /\ touched' \in {touched, [touched EXCEPT ![w] = @ \cup {Several!Turn(w)}]}
          /\ online' \in {online, online \ {Several!Turn(w)}}
          /\ UNCHANGED <<disabled, profile, revoked>>
      BY <1>1, <1>3, Zenon DEF Several!Cut, Several!Change, Several!router, Several!Untouched
    <2> HIDE DEF n
    <2>3. holder' = holder
      BY <2>2 DEF Several!Goes
    <2>4. Sees(w, n)'
      BY <1>1, <2>1, <2>2, <2>3 DEF Sees
    <2>5. n.started
      BY <1>1, <2>1 DEF Accounted
    <2>6. QED
      BY <1>1, <2>1, <2>2, <2>4, <2>5, SendingKeeps DEF BulkInv, BulkTyped
  <1>4. QED
    BY <1>2, <1>3

LEMMA CountKeepsBulk ==
  ASSUME Several!BulkAssumption, BulkInv, NEW w \in Workers, Several!Count(w)
  PROVE  BulkInv'
  <1>1. PICK q \in Changes : q = req[w] /\ Accounted(w, q) /\ Sees(w, q) /\ q.at = "count"
                             /\ Several!Turn(w) = Least(q.todo)
    BY ChangeOK DEF Several!Count
  <1>2. UNCHANGED <<Several!router, Several!store, touched>>
    BY DEF Several!Count, Several!Reads, Several!Untouched
  <1>3. PICK left \in BOOLEAN :
          /\ Several!Goes(w, [q EXCEPT !.left = left, !.at = "settle"])
          /\ ~left => Several!Turn(w) \notin online
    <2>1. \/ Several!Goes(w, [q EXCEPT !.left = Several!Turn(w) \in online, !.at = "settle"])
          \/ Several!Goes(w, [q EXCEPT !.left = TRUE, !.at = "settle"])
      BY <1>1, Zenon DEF Several!Count, Several!Reads
    <2>2. (Several!Turn(w) \in online) \in BOOLEAN
      OBVIOUS
    <2>3. PICK left \in BOOLEAN : left = (Several!Turn(w) \in online)
      BY <2>2, Zenon
    <2>4. CASE Several!Goes(w, [q EXCEPT !.left = Several!Turn(w) \in online, !.at = "settle"])
      BY <2>3, <2>4, Zenon
    <2>5. CASE Several!Goes(w, [q EXCEPT !.left = TRUE, !.at = "settle"])
      BY <2>5, Zenon
    <2>6. QED
      BY <2>1, <2>4, <2>5
  <1> DEFINE n == [q EXCEPT !.left = left, !.at = "settle"]
  <1>4. /\ n \in Changes /\ n.at = "settle" /\ n.todo = q.todo /\ n.outcome = q.outcome
        /\ n.started = q.started /\ n.kind = q.kind /\ n.skip = q.skip /\ n.template = q.template
          /\ n.verdict = q.verdict
        /\ n.left = left
    BY DEF Changes, Several!Stages
  <1>5. Several!Goes(w, n)
    BY <1>3
  <1> HIDE DEF n
  <1>6. BulkTyped' /\ Careful(w, Several!Turn(w))
    BY <1>2, <1>5, ReadingIsCareful DEF Several!Goes
  <1>7. Accounted(w, n)'
    BY <1>1, <1>2, <1>4 DEF Accounted
  <1>8. disabled' = disabled /\ online' = online /\ holder' = holder
    BY <1>2, <1>5 DEF Several!router, Several!Goes
  <1>9. Sees(w, n)'
    BY <1>1, <1>3, <1>4, <1>8 DEF Sees
  <1>10. QED
    BY <1>4, <1>5, <1>6, <1>7, <1>9, GoesKeeps

LEMMA SettleKeeps ==
  ASSUME Several!BulkAssumption, BulkInv, NEW w \in Workers, Several!Settle(w)
  PROVE  BulkInv'
  <1>1. req[w].at = "settle" /\ req[w].todo # {} /\ UNCHANGED <<closed, assigned>>
    BY ChangeOK DEF Several!Settle, Accounted, Several!store
  <1>2. CASE /\ UNCHANGED <<Several!router, touched>>
             /\ \E status \in {"partial", "verified"} : Several!Outcome(w, status)
    BY <1>1, <1>2, ReadOutcome, StatusesOK DEF Several!store
  <1>3. CASE Several!Dispossessed(w)
    BY <1>1, <1>3, DispossessedKeeps
  <1>4. CASE Several!Crashes(w)
    BY <1>1, <1>4, CrashKeeps DEF BulkInv, BulkTyped
  <1>5. QED
    BY <1>2, <1>3, <1>4 DEF Several!Settle, Several!Untouched

LEMMA DeviceOK ==
  ASSUME Several!BulkAssumption, NEW w \in Workers, req[w].devices # {},
         req[w].devices \subseteq Several!Certs
  PROVE  Several!ThisDevice(w) \in req[w].devices
  <1> DEFINE N == {c[2] : c \in req[w].devices}
  <1>1. N \in SUBSET Nat /\ N # {}
    BY DEF Several!BulkAssumption, Several!Certs
  <1>2. Least(N) \in N /\ \A b \in N : Least(N) =< b
    BY <1>1, LeastOK
  <1>3. PICK c \in req[w].devices : c[2] = Least(N)
    BY <1>2
  <1>4. \A d \in req[w].devices : c[2] =< d[2]
    BY <1>2, <1>3
  <1>5. QED
    BY <1>4 DEF Several!ThisDevice

\* A device is left out of the list when it is closed, or the outcome is partial.
LEMMA RevokeKeepsBulk ==
  ASSUME Several!BulkAssumption, BulkInv, NEW w \in Workers, Several!Revoke(w)
  PROVE  BulkInv'
  <1>1. PICK q \in Changes : q = req[w] /\ Accounted(w, q) /\ Sees(w, q) /\ q.at = "revoke"
                             /\ q.todo # {} /\ Several!Turn(w) \in Accounts
    BY ChangeOK DEF Several!Revoke, Accounted
  <1>2. CASE Several!Dispossessed(w)
    BY <1>1, <1>2, DispossessedKeeps
  <1>3. CASE ~Several!Dispossessed(w)
    <2> DEFINE n == [q EXCEPT !.started = TRUE, !.at = "revoked"]
               c == Several!ThisDevice(w)
    <2>1. /\ n \in Changes /\ n.at = "revoked" /\ n.todo = q.todo /\ n.outcome = q.outcome
          /\ n.started /\ n.kind = q.kind /\ n.skip = q.skip /\ n.template = q.template
          /\ n.verdict = q.verdict
          /\ n.devices = q.devices /\ n.mismatch = q.mismatch
      BY DEF Changes, Several!Stages
    <2>2. /\ Several!Goes(w, n) /\ UNCHANGED Several!store
          /\ touched' \in {touched, [touched EXCEPT ![w] = @ \cup {Several!Turn(w)}]}
          /\ revoked' \in {revoked, revoked \cup {c}}
          /\ UNCHANGED <<online, profile, disabled>>
      BY <1>1, <1>3, Zenon DEF Several!Revoke, Several!Change, Several!router, Several!Untouched
    <2> HIDE DEF n
    <2>3. c \in Several!Certs
      BY <1>1, DeviceOK DEF Changes, Sees
    <2>4. Sees(w, n)'
      BY <1>1, <2>1, <2>2 DEF Sees, Several!store
    <2>5. QED
      BY <1>1, <2>1, <2>2, <2>3, <2>4, SendingKeeps DEF BulkInv, BulkTyped
  <1>4. QED
    BY <1>2, <1>3

LEMMA RevokedKeepsBulk ==
  ASSUME Several!BulkAssumption, BulkInv, NEW w \in Workers, Several!Revoked(w)
  PROVE  BulkInv'
  <1>1. PICK q \in Changes : q = req[w] /\ Accounted(w, q) /\ Sees(w, q) /\ q.at = "revoked"
                             /\ q.todo # {} /\ Several!Turn(w) \in Accounts
                             /\ Several!Turn(w) = Least(q.todo)
    BY ChangeOK DEF Several!Revoked, Accounted
  <1>2. PICK c \in q.devices : c = Several!ThisDevice(w) /\ c \in Several!Certs
    BY <1>1, DeviceOK DEF Changes, Sees
  <1>3. CASE Several!Dispossessed(w)
    BY <1>1, <1>3, DispossessedKeeps
  <1>4. CASE UNCHANGED <<closed, assigned>> /\ Several!Crashes(w)
    BY <1>1, <1>4, CrashKeeps DEF BulkInv, BulkTyped
  <1>5. CASE UNCHANGED <<Several!router, Several!store, touched>> /\ Several!Outcome(w, "unknown")
    BY <1>1, <1>5, ReadOutcome, StatusesOK
  <1>6. ASSUME NEW mismatch \in BOOLEAN,
               closed' \in {closed, closed \cup {c}}, c \in closed' \/ mismatch,
               closed' \subseteq revoked, UNCHANGED <<Several!router, assigned, touched>>,
               \/ \E status \in {"partial", "verified"} : Several!Outcome(w, status)
               \/ Several!Goes(w, [q EXCEPT !.devices = @ \ {c}, !.mismatch = mismatch,
                                            !.at = "revoke"])
                  /\ q.devices # {c} /\ (q.mismatch => mismatch)
        PROVE  BulkInv'
    <2>1. UNCHANGED <<disabled, online, profile, revoked, holder>>
      BY <1>6 DEF Several!router, Several!Outcome, Several!Goes
    <2>2. BulkTyped' /\ Careful(w, Several!Turn(w))
      BY <1>6, <2>1 DEF BulkInv, BulkTyped, Careful
    <2>3. CASE \E status \in {"partial", "verified"} : Several!Outcome(w, status)
      BY <1>1, <1>6, <2>2, <2>3, OutcomeKeeps, StatusesOK
    <2>4. CASE /\ Several!Goes(w, [q EXCEPT !.devices = @ \ {c}, !.mismatch = mismatch,
                                            !.at = "revoke"])
               /\ q.devices # {c} /\ (q.mismatch => mismatch)
      <3> DEFINE n == [q EXCEPT !.devices = q.devices \ {c}, !.mismatch = mismatch,
                                !.at = "revoke"]
      <3>1. /\ n \in Changes /\ n.at = "revoke" /\ n.todo = q.todo /\ n.outcome = q.outcome
            /\ n.started = q.started /\ n.kind = q.kind /\ n.skip = q.skip /\ n.verdict = q.verdict
            /\ n.template = q.template /\ n.devices = q.devices \ {c} /\ n.mismatch = mismatch
        BY DEF Changes, Several!Stages
      <3>2. Several!Goes(w, n)
        BY <2>4
      <3> HIDE DEF n
      <3>3. touched' = touched /\ closed \subseteq closed' /\ (c \in closed' \/ mismatch)
            /\ (q.mismatch => mismatch)
        BY <1>6, <2>4
      <3>4. n.devices # {}
        BY <1>2, <2>4, <3>1
      <3>5. Accounted(w, n)'
        BY <1>1, <3>1, <3>3 DEF Accounted
      <3>6. Sees(w, n)'
        <4>1. \A d \in Several!Certs : d[1] = Least(n.todo) => d \in n.devices \cup closed' \/ n.mismatch
          BY <1>1, <3>1, <3>3 DEF Sees
        <4>2. n.kind = "revoke"
          BY <1>1, <3>1 DEF Sees
        <4>3. QED
          BY <3>1, <3>4, <4>1, <4>2 DEF Sees
      <3>7. QED
        BY <2>2, <3>1, <3>2, <3>5, <3>6, GoesKeeps
    <2>5. QED
      BY <1>6, <2>3, <2>4
  <1>7. CASE /\ c \in revoked /\ closed' = closed \cup {c}
             /\ UNCHANGED <<Several!router, assigned, touched>>
             /\ IF q.devices = {c} THEN \E status \in {"partial", "verified"} : Several!Outcome(w, status)
                ELSE Several!Goes(w, [q EXCEPT !.devices = @ \ {c}, !.mismatch = q.mismatch,
                                               !.at = "revoke"])
    <2>1. q.mismatch \in BOOLEAN /\ closed' \subseteq revoked
      BY <1>7 DEF Changes, BulkInv, BulkTyped
    <2>2. QED
      BY <1>6, <1>7, <2>1
  <1>8. CASE /\ closed' = closed
             /\ UNCHANGED <<Several!router, assigned, touched>>
             /\ IF q.devices = {c} THEN \E status \in {"partial", "verified"} : Several!Outcome(w, status)
                ELSE Several!Goes(w, [q EXCEPT !.devices = @ \ {c}, !.mismatch = TRUE,
                                               !.at = "revoke"])
    <2>1. closed' \subseteq revoked
      BY <1>8 DEF BulkInv, BulkTyped
    <2>2. QED
      BY <1>6, <1>8, <2>1
  <1>9. QED
    BY <1>1, <1>2, <1>3, <1>4, <1>5, <1>7, <1>8 DEF Several!Revoked, Several!Untouched, Several!store

LEMMA RateKeeps ==
  ASSUME Several!BulkAssumption, BulkInv, NEW w \in Workers, Several!Rate(w)
  PROVE  BulkInv'
  <1>1. PICK q \in Changes : q = req[w] /\ Accounted(w, q) /\ Sees(w, q) /\ q.at = "rate"
                             /\ q.todo # {}
    BY ChangeOK DEF Several!Rate, Accounted
  <1>2. CASE Several!Dispossessed(w)
    BY <1>1, <1>2, DispossessedKeeps
  <1>3. CASE UNCHANGED <<Several!router, Several!store, touched>> /\ Several!Outcome(w, "failed")
    BY <1>1, <1>3, ReadOutcome, StatusesOK
  <1>4. CASE UNCHANGED <<Several!router, Several!store, touched>> /\ Several!To(w, "assign")
    <2> DEFINE n == [q EXCEPT !.at = "assign"]
    <2>1. /\ n \in Changes /\ n.at = "assign" /\ n.todo = q.todo /\ n.outcome = q.outcome
          /\ n.started = q.started /\ n.kind = q.kind /\ n.skip = q.skip /\ n.template = q.template
          /\ n.verdict = q.verdict
      BY DEF Changes, Several!Stages
    <2>2. Several!Goes(w, n)
      BY <1>1, <1>4 DEF Several!To
    <2> HIDE DEF n
    <2>3. BulkTyped' /\ Careful(w, Several!Turn(w))
      BY <1>4, <2>2, ReadingIsCareful DEF Several!Goes
    <2>4. Accounted(w, n)'
      BY <1>1, <1>4, <2>1 DEF Accounted
    <2>5. assigned' = assigned /\ holder' = holder
      BY <1>4, <2>2 DEF Several!store, Several!Goes
    <2>6. Sees(w, n)'
      BY <1>1, <2>1, <2>5 DEF Sees
    <2>7. QED
      BY <2>1, <2>2, <2>3, <2>4, <2>6, GoesKeeps
  <1>5. QED
    BY <1>2, <1>3, <1>4 DEF Several!Rate

LEMMA AssignKeeps ==
  ASSUME Several!BulkAssumption, BulkInv, NEW w \in Workers, Several!Assign(w)
  PROVE  BulkInv'
  <1>1. PICK q \in Changes : q = req[w] /\ Accounted(w, q) /\ Sees(w, q) /\ q.at = "assign"
                             /\ q.todo # {} /\ Several!Turn(w) \in Accounts
    BY ChangeOK DEF Several!Assign, Accounted
  <1>2. CASE Several!Dispossessed(w)
    BY <1>1, <1>2, DispossessedKeeps
  <1>3. CASE ~Several!Dispossessed(w)
    <2> DEFINE n == [q EXCEPT !.at = "readProfile"]
    <2>1. /\ n \in Changes /\ n.at = "readProfile" /\ n.todo = q.todo /\ n.outcome = q.outcome
          /\ n.started = q.started /\ n.kind = q.kind /\ n.skip = q.skip /\ n.template = q.template
          /\ n.verdict = q.verdict
      BY DEF Changes, Several!Stages
    <2>2. /\ Several!Goes(w, n) /\ UNCHANGED Several!store
          /\ touched' \in {touched, [touched EXCEPT ![w] = @ \cup {Several!Turn(w)}]}
          /\ profile' \in {profile, [profile EXCEPT ![Several!Turn(w)] = q.template]}
          /\ UNCHANGED <<disabled, online, revoked>>
      BY <1>1, <1>3, Zenon DEF Several!Assign, Several!Change, Several!router, Several!Untouched
    <2> HIDE DEF n
    <2>3. profile' \in [Accounts -> Templates]
      BY <2>2 DEF BulkInv, BulkTyped, Changes
    <2>4. assigned' = assigned /\ holder' = holder
      BY <2>2 DEF Several!store, Several!Goes
    <2>5. Sees(w, n)'
      BY <1>1, <2>1, <2>4 DEF Sees
    <2>6. n.started
      BY <1>1, <2>1 DEF Accounted
    <2>7. QED
      BY <1>1, <2>1, <2>2, <2>3, <2>5, <2>6, SendingKeeps DEF BulkInv, BulkTyped
  <1>4. QED
    BY <1>2, <1>3

LEMMA ReadProfileKeeps ==
  ASSUME Several!BulkAssumption, BulkInv, NEW w \in Workers, Several!ReadProfile(w)
  PROVE  BulkInv'
  <1>1. PICK q \in Changes : q = req[w] /\ Accounted(w, q) /\ Sees(w, q) /\ q.at = "readProfile"
                             /\ q.todo # {} /\ Several!Turn(w) \in Accounts
    BY ChangeOK DEF Several!ReadProfile, Accounted
  <1>2. CASE Several!Dispossessed(w)
    BY <1>1, <1>2, DispossessedKeeps
  <1>3. CASE /\ UNCHANGED <<Several!router, closed, assigned, touched>>
             /\ \E status \in {"failed", "unknown"} : Several!Outcome(w, status)
    BY <1>1, <1>3, ReadOutcome, StatusesOK DEF Several!store
  <1>4. CASE /\ Several!Owned(w) /\ closed' = closed
             /\ assigned' \in {assigned, [assigned EXCEPT ![Several!Turn(w)] = q.template]}
             /\ Several!Crashes(w)
    <2>1. /\ assigned' \in [Accounts -> Templates]
          /\ \A a \in Accounts : assigned'[a] # assigned[a] =>
               a = Several!Turn(w) /\ holder[a] = w
      BY <1>1, <1>4 DEF BulkInv, BulkTyped, Changes, Several!Owned
    <2>2. QED
      BY <1>4, <2>1, CrashKeeps
  <1>5. CASE /\ Several!Owned(w) /\ UNCHANGED <<Several!router, closed, touched>>
             /\ assigned' = [assigned EXCEPT ![Several!Turn(w)] = q.template]
             /\ Several!Outcome(w, "verified")
    <2>1. /\ assigned' \in [Accounts -> Templates]
          /\ \A a \in Accounts : assigned'[a] # assigned[a] =>
               a = Several!Turn(w) /\ holder[a] = w
      BY <1>1, <1>5 DEF BulkInv, BulkTyped, Changes, Several!Owned
    <2>2. UNCHANGED <<disabled, online, profile, revoked, holder>>
      BY <1>5 DEF Several!router, Several!Outcome, Several!Goes
    <2>3. BulkTyped' /\ Careful(w, Several!Turn(w))
      BY <1>5, <2>1, <2>2 DEF BulkInv, BulkTyped, Careful
    <2>4. QED
      BY <1>1, <1>5, <2>3, OutcomeKeeps, StatusesOK
  <1>6. QED
    BY <1>1, <1>2, <1>3, <1>4, <1>5
       DEF Several!ReadProfile, Several!Untouched

\* The next account is passed over, or its turn begins.
LEMMA NextAccountKeeps ==
  ASSUME Several!BulkAssumption, BulkInv, NEW w \in Workers, Several!NextAccount(w)
  PROVE  BulkInv'
  <1>1. PICK q \in Changes : q = req[w] /\ Accounted(w, q) /\ Sees(w, q) /\ q.at = "turn"
                             /\ q.todo # {} /\ ~q.started
                             /\ Several!Turn(w) = Least(q.todo)
                             /\ Least(q.todo) \in Accounts
    BY ChangeOK DEF Several!NextAccount, Accounted
  <1>2. /\ UNCHANGED <<disabled, online, profile, revoked, closed, touched>>
        /\ holder[Least(q.todo)] = w
    BY <1>1 DEF Several!NextAccount, Several!router, Several!Untouched, Several!Owned
  <1>3. CASE /\ \E status \in {"skipped", "unchanged"} : Several!Outcome(w, status)
             /\ assigned' \in {assigned, [assigned EXCEPT ![Several!Turn(w)] = q.template]}
    <2>1. /\ assigned' \in [Accounts -> Templates] /\ holder' = holder
          /\ \A a \in Accounts : assigned'[a] # assigned[a] =>
               a = Several!Turn(w) /\ holder[a] = w
      BY <1>1, <1>2, <1>3 DEF BulkInv, BulkTyped, Changes, Several!Outcome, Several!Goes
    <2>2. BulkTyped' /\ Careful(w, Several!Turn(w))
      BY <1>2, <2>1 DEF BulkInv, BulkTyped, Careful
    <2>3. {"skipped", "unchanged"} \subseteq Several!Outcomes
      BY DEF Several!Outcomes
    <2>4. QED
      BY <1>1, <1>2, <1>3, <2>2, <2>3, OutcomeKeeps
  <1>4. CASE /\ assigned' = assigned
             /\ \/ q.kind = "suspend" /\ Several!To(w, "patch")
                \/ /\ q.kind = "revoke" /\ Several!Open(Several!Turn(w)) # {}
                   /\ Several!Goes(w, [q EXCEPT !.devices = Several!Open(Several!Turn(w)),
                                                !.at = "revoke"])
                \/ q.kind = "template" /\ Several!Goes(w, [q EXCEPT !.started = TRUE, !.at = "rate"])
    <2>1. PICK stage \in {"patch", "revoke", "rate"}, d \in SUBSET Several!Certs, b \in BOOLEAN :
            /\ Several!Goes(w, [q EXCEPT !.devices = d, !.started = b, !.at = stage])
            /\ stage = "patch" => q.kind = "suspend"
            /\ stage = "revoke" => q.kind = "revoke" /\ d = Several!Open(Several!Turn(w)) /\ d # {}
            /\ stage = "rate" => b /\ q.kind = "template"
      <3>1. /\ [q EXCEPT !.at = "patch"] =
                 [q EXCEPT !.devices = q.devices, !.started = q.started, !.at = "patch"]
            /\ [q EXCEPT !.started = TRUE, !.at = "rate"] =
                 [q EXCEPT !.devices = q.devices, !.started = TRUE, !.at = "rate"]
            /\ \A d : [q EXCEPT !.devices = d, !.at = "revoke"] =
                        [q EXCEPT !.devices = d, !.started = q.started, !.at = "revoke"]
        BY DEF Changes
      <3>2. q.devices \in SUBSET Several!Certs /\ q.started \in BOOLEAN
            /\ Several!Open(Several!Turn(w)) \in SUBSET Several!Certs
        BY DEF Changes, Several!Open
      <3>3. CASE q.kind = "suspend" /\ Several!To(w, "patch")
        <4>1. Several!Goes(w, [q EXCEPT !.devices = q.devices, !.started = q.started, !.at = "patch"])
          BY <1>1, <3>1, <3>3, Zenon DEF Several!To
        <4>2. QED
          BY <3>2, <3>3, <4>1
      <3>4. CASE /\ q.kind = "revoke" /\ Several!Open(Several!Turn(w)) # {}
                 /\ Several!Goes(w, [q EXCEPT !.devices = Several!Open(Several!Turn(w)),
                                              !.at = "revoke"])
        <4>1. Several!Goes(w, [q EXCEPT !.devices = Several!Open(Several!Turn(w)),
                                        !.started = q.started, !.at = "revoke"])
          BY <3>1, <3>4, Zenon
        <4>2. QED
          BY <3>2, <3>4, <4>1
      <3>5. CASE /\ q.kind = "template"
                 /\ Several!Goes(w, [q EXCEPT !.started = TRUE, !.at = "rate"])
        <4>1. Several!Goes(w, [q EXCEPT !.devices = q.devices, !.started = TRUE, !.at = "rate"])
          BY <3>1, <3>5, Zenon
        <4>2. QED
          BY <3>2, <3>5, <4>1
      <3>6. QED
        BY <1>4, <3>3, <3>4, <3>5
    <2> DEFINE n == [q EXCEPT !.devices = d, !.started = b, !.at = stage]
    <2>2. /\ n \in Changes /\ n.at = stage /\ n.todo = q.todo /\ n.outcome = q.outcome
          /\ n.started = b /\ n.kind = q.kind /\ n.skip = q.skip /\ n.template = q.template
          /\ n.verdict = q.verdict
          /\ n.devices = d
      BY DEF Changes, Several!Stages
    <2>3. Several!Goes(w, n) /\ holder' = holder
      BY <2>1 DEF Several!Goes
    <2> HIDE DEF n
    <2>4. BulkTyped' /\ Careful(w, Several!Turn(w))
      BY <1>2, <1>4, <2>3 DEF BulkInv, BulkTyped, Careful
    <2>5. Accounted(w, n)'
      BY <1>1, <1>2, <2>1, <2>2 DEF Accounted
    <2>6. Sees(w, n)'
      BY <1>1, <1>2, <1>4, <2>1, <2>2, <2>3 DEF Sees, Several!Open
    <2>7. QED
      BY <2>2, <2>3, <2>4, <2>5, <2>6, GoesKeeps
  <1>5. QED
    BY <1>1, <1>3, <1>4 DEF Several!NextAccount

LEMMA AnswersKeepBulk ==
  ASSUME Several!BulkAssumption, BulkInv, NEW w \in Workers, Several!TurnLost(w) \/ Several!AllDone(w)
  PROVE  BulkInv'
  <1>1. CASE Several!TurnLost(w)
    BY <1>1, DispossessedKeeps DEF Several!TurnLost
  <1>2. CASE Several!AllDone(w)
    <2>1. PICK q \in Changes : q = req[w] /\ Accounted(w, q) /\ q.at = "turn" /\ q.todo = {}
      BY <1>2, ChangeOK DEF Several!AllDone
    <2>2. PICK o \in [Accounts -> Several!Outcomes] : o = q.outcome
      BY DEF Changes
    <2>3. Several!LeavesWith(w, o, "done")
          /\ UNCHANGED <<disabled, online, profile, revoked, touched, closed, assigned>>
      BY <1>2, <2>1, <2>2 DEF Several!AllDone, Several!router, Several!store
    <2>4. \A a \in touched[w] : o[a] \notin Untold
      BY <2>1, <2>2 DEF Accounted
    <2>5. "done" \in Several!Verdicts
      BY DEF Several!Verdicts
    <2>6. QED
      BY <2>3, <2>4, <2>5, LeavesKeeps DEF BulkInv, BulkTyped
  <1>3. QED
    BY <1>1, <1>2

\* A request begins with nothing touched; it passes over what has the template.
LEMMA ReviewKeepsBulk ==
  ASSUME Several!BulkAssumption, BulkInv, NEW w \in Workers, NEW S \in SUBSET Accounts, S # {},
         Several!ReviewSuspend(w, S) \/ Several!ReviewRevoke(w, S) \/ Several!ReviewTemplate(w, S)
  PROVE  BulkInv'
  <1>1. PICK n \in Changes :
          /\ req' = [req EXCEPT ![w] = n] /\ n.at = "turn" /\ ~n.started /\ n.verdict = "none"
          /\ n.kind = "template" => n.skip \subseteq Several!Has(S, n.template)
          /\ holder' = [a \in Accounts |-> IF a \in S THEN w ELSE holder[a]]
          /\ touched' = [touched EXCEPT ![w] = {}]
          /\ UNCHANGED <<Several!router, Several!store>>
          /\ \A a \in S : holder[a] = Nobody
    <2>1. /\ Several!Idle \in Changes /\ ~Several!Idle.started /\ Several!Idle.verdict = "none"
      BY DEF Several!Idle, Changes, Several!SomeTemplate, Several!BulkAssumption, Several!Stages,
             Several!Outcomes, Several!Verdicts
    <2>2. PICK k \in BulkKinds, t \in Templates, sk \in SUBSET Accounts, li \in SUBSET Accounts :
            /\ Several!Review(w, k, S, [Several!Idle EXCEPT !.template = t, !.skip = sk,
                                                            !.listed = li])
            /\ k = "template" => sk \subseteq Several!Has(S, t)
      <3>1. CASE Several!ReviewSuspend(w, S)
        <4>1. PICK sk \in SUBSET Accounts, li \in SUBSET Accounts, t \in Templates :
                sk = disabled \cap S /\ li = online \cap S /\ t = Several!Idle.template
          BY <2>1 DEF Changes
        <4>2. [Several!Idle EXCEPT !.skip = sk, !.listed = li] =
                [Several!Idle EXCEPT !.template = t, !.skip = sk, !.listed = li]
          BY <2>1, <4>1 DEF Changes
        <4>3. QED
          <5>1. Several!Review(w, "suspend", S,
                               [Several!Idle EXCEPT !.template = t, !.skip = sk, !.listed = li])
            BY <3>1, <4>1, <4>2, Zenon DEF Several!ReviewSuspend
          <5>2. "suspend" \in BulkKinds
            BY <5>1 DEF Several!Review
          <5>3. QED
            BY <5>1, <5>2
      <3>2. CASE Several!ReviewRevoke(w, S)
        <4>1. PICK sk \in SUBSET Accounts, li \in SUBSET Accounts, t \in Templates :
                sk = Several!Idle.skip /\ li = Several!Idle.listed /\ t = Several!Idle.template
          BY <2>1 DEF Changes
        <4>2. Several!Idle =
                [Several!Idle EXCEPT !.template = t, !.skip = sk, !.listed = li]
          BY <2>1, <4>1 DEF Changes
        <4>3. QED
          <5>1. Several!Review(w, "revoke", S,
                               [Several!Idle EXCEPT !.template = t, !.skip = sk, !.listed = li])
            BY <3>2, <4>2, Zenon DEF Several!ReviewRevoke
          <5>2. "revoke" \in BulkKinds
            BY <5>1 DEF Several!Review
          <5>3. QED
            BY <5>1, <5>2
      <3>3. CASE Several!ReviewTemplate(w, S)
        <4>1. PICK t \in Templates :
                Several!Review(w, "template", S, [Several!Idle EXCEPT !.template = t,
                                                                     !.skip = Several!Has(S, t)])
          BY <3>3 DEF Several!ReviewTemplate
        <4>2. PICK sk \in SUBSET Accounts, li \in SUBSET Accounts :
                sk = Several!Has(S, t) /\ li = Several!Idle.listed
          BY <2>1 DEF Changes, Several!Has
        <4>3. [Several!Idle EXCEPT !.template = t, !.skip = sk] =
                [Several!Idle EXCEPT !.template = t, !.skip = sk, !.listed = li]
          BY <2>1, <4>2 DEF Changes
        <4>4. QED
          BY <4>1, <4>2, <4>3 DEF Several!Review
      <3>4. QED
        BY <3>1, <3>2, <3>3
    <2> DEFINE n == [Several!Idle EXCEPT !.template = t, !.skip = sk, !.listed = li,
                     !.kind = k, !.at = "turn", !.todo = S, !.selected = S]
    <2>3. /\ n \in Changes /\ n.at = "turn" /\ ~n.started /\ n.kind = k /\ n.verdict = "none"
          /\ n.skip = sk /\ n.template = t
      BY <2>1 DEF Changes, Several!Stages
    <2>4. req' = [req EXCEPT ![w] = n]
      BY <2>2 DEF Several!Review
    <2>5. /\ holder' = [a \in Accounts |-> IF a \in S THEN w ELSE holder[a]]
          /\ touched' = [touched EXCEPT ![w] = {}]
          /\ UNCHANGED <<Several!router, Several!store>>
          /\ \A a \in S : holder[a] = Nobody
      BY <2>2 DEF Several!Review
    <2> HIDE DEF n
    <2>6. QED
      BY <2>2, <2>3, <2>4, <2>5
  <1>2. UNCHANGED <<disabled, online, profile, revoked, closed, assigned>>
    BY <1>1 DEF Several!router, Several!store
  <1>3. BulkTyped' /\ req' \in [Workers -> Changes]
    BY <1>1, <1>2 DEF BulkInv, BulkTyped
  <1>4. touched'[w] = {} /\ req'[w] = n
    BY <1>1 DEF BulkInv, BulkTyped
  <1>5. Accounted(w, n)' /\ Sees(w, n)'
    BY <1>1, <1>2, <1>4 DEF Accounted, Sees, Several!Has
  <1>6. ASSUME NEW v \in Workers \ {w} PROVE Accounted(v, req[v])' /\ Sees(v, req[v])'
    <2>1. PICK p \in Changes : p = req[v] /\ Accounted(v, p) /\ Sees(v, p)
      BY DEF BulkInv
    <2>2. Undisturbed(v)
      BY <1>1, <1>2 DEF Undisturbed, BulkInv, BulkTyped
    <2>3. Accounted(v, p)' /\ Sees(v, p)'
      BY <2>1, <2>2, OthersRely
    <2>4. req'[v] = p
      BY <1>1, <2>1 DEF BulkInv
    <2>5. QED
      BY <2>3, <2>4 DEF Accounted, Sees
  <1>7. Accounted(w, req[w])' /\ Sees(w, req[w])'
    BY <1>4, <1>5 DEF Accounted, Sees
  <1>8. QED
    BY <1>3, <1>6, <1>7 DEF BulkInv

\* Locks are lost, accounts restored by others, tunnels come and go.
LEMMA BulkWorldKeeps ==
  ASSUME Several!BulkAssumption, BulkInv, NEW a \in Accounts,
         \/ Several!LoseLock(a) \/ Several!Restore(a) \/ Several!Connect(a) \/ Several!Disconnect(a)
  PROVE  BulkInv'
  <1>1. req' = req /\ BulkTyped'
    BY DEF BulkInv, BulkTyped, Several!LoseLock, Several!Restore, Several!Connect,
           Several!Disconnect, Several!router, Several!store
  <1>2. ASSUME NEW v \in Workers PROVE Undisturbed(v)
    BY DEF Undisturbed, BulkInv, BulkTyped, Several!BulkAssumption, Several!LoseLock, Several!Restore,
           Several!Connect, Several!Disconnect, Several!router, Several!store
  <1>3. ASSUME NEW v \in Workers PROVE Accounted(v, req[v])' /\ Sees(v, req[v])'
    <2>1. PICK p \in Changes : p = req[v] /\ Accounted(v, p) /\ Sees(v, p)
      BY DEF BulkInv
    <2>2. Accounted(v, p)' /\ Sees(v, p)'
      BY <1>2, <2>1, OthersRely
    <2>3. QED
      BY <1>1, <2>1, <2>2 DEF Accounted, Sees
  <1>4. QED
    BY <1>1, <1>3 DEF BulkInv

LEMMA BulkInit == ASSUME Several!BulkAssumption, Several!Init PROVE BulkInv
  <1>1. /\ Several!Idle \in Changes /\ Several!Idle.at = "idle" /\ Several!Idle.verdict = "none"
    BY DEF Several!Idle, Changes, Several!SomeTemplate, Several!BulkAssumption, Several!Stages,
           Several!Outcomes, Several!Verdicts
  <1>2. BulkTyped /\ req \in [Workers -> Changes] /\ \A w \in Workers : req[w] = Several!Idle
    BY <1>1 DEF Several!Init, BulkTyped, Several!BulkAssumption, Several!SomeTemplate
  <1>3. \A w \in Workers : Accounted(w, Several!Idle) /\ Sees(w, Several!Idle)
    BY <1>1 DEF Accounted, Sees
  <1>4. QED
    BY <1>2, <1>3 DEF BulkInv

LEMMA BulkStep ==
  ASSUME Several!BulkAssumption PROVE BulkInv /\ [Several!Next]_Several!vars => BulkInv'
  <1> SUFFICES ASSUME BulkInv, [Several!Next]_Several!vars PROVE BulkInv'
    OBVIOUS
  <1>1. CASE UNCHANGED Several!vars
    BY <1>1 DEF Several!vars, Several!router, Several!store, BulkInv, BulkTyped, Accounted, Sees
  <1>2. ASSUME NEW w \in Workers, NEW S \in SUBSET Accounts, S # {},
               Several!ReviewSuspend(w, S) \/ Several!ReviewRevoke(w, S)
                 \/ Several!ReviewTemplate(w, S)
        PROVE  BulkInv'
    BY <1>2, ReviewKeepsBulk
  <1>3. ASSUME NEW w \in Workers,
               \/ Several!NextAccount(w) \/ Several!TurnLost(w) \/ Several!AllDone(w)
               \/ Several!Patch(w) \/ Several!ReadBack(w) \/ Several!Cut(w) \/ Several!Count(w)
               \/ Several!Settle(w) \/ Several!Revoke(w) \/ Several!Revoked(w)
               \/ Several!Rate(w) \/ Several!Assign(w) \/ Several!ReadProfile(w)
        PROVE  BulkInv'
    BY <1>3, NextAccountKeeps, AnswersKeepBulk, PatchKeepsBulk, ReadBackKeepsBulk, CutKeepsBulk,
       CountKeepsBulk, SettleKeeps, RevokeKeepsBulk, RevokedKeepsBulk, RateKeeps, AssignKeeps,
       ReadProfileKeeps
  <1>4. ASSUME NEW a \in Accounts,
               \/ Several!LoseLock(a) \/ Several!Restore(a) \/ Several!Connect(a)
               \/ Several!Disconnect(a)
        PROVE  BulkInv'
    BY <1>4, BulkWorldKeeps
  <1>5. CASE Several!Next
    BY <1>2, <1>3, <1>4, <1>5 DEF Several!Next
  <1>6. QED
    BY <1>1, <1>5

LEMMA BulkInvariant == ASSUME Several!BulkAssumption PROVE Several!Spec => []BulkInv
  <1>1. Several!Init => BulkInv
    BY BulkInit
  <1>2. BulkInv /\ [Several!Next]_Several!vars => BulkInv'
    BY BulkStep
  <1>3. QED
    BY <1>1, <1>2, PTL DEF Several!Spec

\* What a step does to the requests that began and the failures there were.
BulkCounts ==
  /\ begun' = begun \/ (begun < MaxBulkRequests /\ begun' = begun + 1)
  /\ mishaps' = mishaps \/ (mishaps < MaxBulkMishaps /\ mishaps' = mishaps + 1)

LEMMA StepsCount == ASSUME Several!Next PROVE BulkCounts
  <1> USE DEF Several!Smooth, Several!Mishap
  <1>1. \A w, r : Several!Goes(w, r) => begun' = begun
    BY DEF Several!Goes
  <1>2. \A w, stage : Several!To(w, stage) => begun' = begun
    BY <1>1, Zenon DEF Several!To
  <1>3. \A w, status : Several!Outcome(w, status) => begun' = begun
    BY <1>1, Zenon DEF Several!Outcome
  <1>4. \A w, outcome, verdict : Several!LeavesWith(w, outcome, verdict) => begun' = begun
    BY Zenon DEF Several!LeavesWith
  <1>5. \A w : Several!Dispossessed(w) \/ Several!Crashes(w) => BulkCounts
    BY <1>4 DEF Several!Dispossessed, Several!Crashes, BulkCounts
  <1>6. ASSUME NEW w, NEW S, Several!ReviewSuspend(w, S) \/ Several!ReviewRevoke(w, S)
                               \/ Several!ReviewTemplate(w, S)
        PROVE  BulkCounts
    <2>1. \A kind, r : Several!Review(w, kind, S, r) => BulkCounts
      BY DEF Several!Review, BulkCounts
    <2>2. QED
      BY <1>6, <2>1, Zenon
         DEF Several!ReviewSuspend, Several!ReviewRevoke, Several!ReviewTemplate
  <1>7. ASSUME NEW w, Several!NextAccount(w) \/ Several!TurnLost(w) \/ Several!AllDone(w)
        PROVE  BulkCounts
    BY <1>1, <1>2, <1>3, <1>4, <1>5, <1>7
       DEF Several!NextAccount, Several!TurnLost, Several!AllDone, BulkCounts
  <1>8. ASSUME NEW w, Several!Patch(w) \/ Several!Cut(w) \/ Several!Revoke(w) \/ Several!Assign(w)
        PROVE  BulkCounts
    BY <1>1, <1>5, <1>8
       DEF Several!Patch, Several!Cut, Several!Revoke, Several!Assign, Several!Change, BulkCounts
  <1>9. ASSUME NEW w, Several!ReadBack(w) \/ Several!Count(w) PROVE BulkCounts
    BY <1>1, <1>2, <1>3, <1>9
       DEF Several!ReadBack, Several!Count, Several!Reads, BulkCounts
  <1>10. ASSUME NEW w, \/ Several!Settle(w) \/ Several!Revoked(w) \/ Several!Rate(w)
                       \/ Several!ReadProfile(w)
         PROVE  BulkCounts
    BY <1>1, <1>2, <1>3, <1>5, <1>10
       DEF Several!Settle, Several!Revoked, Several!Rate, Several!ReadProfile, BulkCounts
  <1>11. ASSUME NEW a, \/ Several!LoseLock(a) \/ Several!Restore(a) \/ Several!Connect(a)
                       \/ Several!Disconnect(a)
         PROVE  BulkCounts
    BY <1>11
       DEF Several!LoseLock, Several!Restore, Several!Connect, Several!Disconnect, BulkCounts
  <1>12. QED
    BY <1>6, <1>7, <1>8, <1>9, <1>10, <1>11, Zenon DEF Several!Next

\* Accounts, requests and their outcomes keep their types.
THEOREM BulkHasTypes ==
  ASSUME Several!BulkAssumption, MaxBulkRequests \in Nat, MaxBulkMishaps \in Nat
  PROVE  Several!Spec => []Several!TypeOK
  <1> DEFINE Counted == begun \in 0..MaxBulkRequests /\ mishaps \in 0..MaxBulkMishaps
  <1>1. Several!Init => Counted
    BY DEF Several!Init
  <1>2. Counted /\ [Several!Next]_Several!vars => Counted'
    <2>1. Counted /\ BulkCounts => Counted'
      BY DEF BulkCounts
    <2>2. Several!Next => BulkCounts
      BY StepsCount
    <2>3. QED
      BY <2>1, <2>2 DEF Several!vars
  <1>3. BulkInv /\ Counted => Several!TypeOK
    BY DEF BulkInv, BulkTyped, Changes, Several!TypeOK
  <1>4. QED
    BY <1>1, <1>2, <1>3, BulkInvariant, PTL DEF Several!Spec

\* Everything a request of several accounts changed on the router is in the outcomes
\* it answers, also when a lost lock ended it, and what it reports as skipped or
\* unchanged it did not touch (app.py:6798-6806, 7133-7140).
THEOREM OutcomesTellAll ==
  ASSUME Several!BulkAssumption PROVE Several!Spec => []Several!ChangesAreReported
  <1>1. BulkInv => Several!ChangesAreReported
    <2> SUFFICES ASSUME BulkInv, NEW w \in Workers, req[w].verdict \in {"done", "coordination"}
                 PROVE  \A a \in touched[w] : req[w].outcome[a] \notin Untold
      BY DEF Several!ChangesAreReported, Untold
    <2>1. QED
      BY DEF BulkInv, Accounted
  <1>2. QED
    BY <1>1, BulkInvariant, PTL

\* What the outcomes of a request become in a step.
OutcomesStay(w) ==
  \A a \in Accounts : req[w].outcome[a] = "none" => req'[w].outcome[a] # "verified"

LEMMA OtherOutcomes ==
  ASSUME BulkInv, NEW w \in Workers, NEW v \in Workers, v # w, NEW r,
         req' = [req EXCEPT ![v] = r]
  PROVE  OutcomesStay(w)
  BY DEF OutcomesStay, BulkInv

LEMMA GoesTellsNothing ==
  ASSUME BulkInv, NEW v \in Workers, NEW w \in Workers, NEW r, Several!Goes(v, r),
         r.outcome = req[v].outcome
  PROVE  OutcomesStay(w)
  BY DEF OutcomesStay, BulkInv, Several!Goes

LEMMA LeavingTellsNothing ==
  ASSUME BulkInv, NEW v \in Workers, NEW w \in Workers, NEW o, NEW verdict,
         Several!LeavesWith(v, o, verdict),
         \A a \in Accounts : o[a] \in {req[v].outcome[a], "unknown"}
  PROVE  OutcomesStay(w)
  <1> DEFINE n == [Several!Idle EXCEPT !.kind = req[v].kind, !.outcome = o, !.verdict = verdict]
  <1>1. n.outcome = o
    BY DEF Several!Idle
  <1>2. req' = [req EXCEPT ![v] = n]
    BY DEF Several!LeavesWith
  <1> HIDE DEF n
  <1>3. QED
    BY <1>1, <1>2 DEF OutcomesStay, BulkInv

LEMMA DispossessedTellsNothing ==
  ASSUME BulkInv, NEW v \in Workers, NEW w \in Workers,
         Several!Dispossessed(v) \/ Several!Crashes(v)
  PROVE  OutcomesStay(w)
  <1>1. req[v].outcome \in [Accounts -> Several!Outcomes]
    BY DEF BulkInv, Changes
  <1>2. CASE Several!Dispossessed(v)
    <2>1. \A a \in Accounts : Several!Unfinished(v)[a] \in {req[v].outcome[a], "unknown"}
      BY <1>1 DEF Several!Unfinished
    <2>2. QED
      BY <1>2, <2>1, LeavingTellsNothing DEF Several!Dispossessed
  <1>3. CASE Several!Crashes(v)
    BY <1>3, LeavingTellsNothing DEF Several!Crashes
  <1>4. QED
    BY <1>2, <1>3

\* One account gets an outcome.
LEMMA OutcomeTells ==
  ASSUME Several!BulkAssumption, BulkInv, NEW v \in Workers, NEW w \in Workers,
         NEW status \in Several!Outcomes, Several!Outcome(v, status), req[v].todo # {}
  PROVE  \A a \in Accounts :
           req[w].outcome[a] = "none" /\ req'[w].outcome[a] = "verified" =>
             status = "verified" /\ w = v /\ a = Several!Turn(v)
  <1>1. PICK q \in Changes : q = req[v] /\ Several!Turn(v) = Least(q.todo) /\ q.todo # {}
    BY ChangeOK
  <1> DEFINE o == Told(q, status)
  <1>2. req' = [req EXCEPT ![v] = o]
    BY <1>1 DEF Several!Outcome, Several!Goes, Told
  <1>3. /\ \A a \in Accounts : a # Least(q.todo) => o.outcome[a] = q.outcome[a]
        /\ o.outcome[Least(q.todo)] = status
    BY <1>1, ToldOK
  <1> HIDE DEF o
  <1>4. QED
    BY <1>1, <1>2, <1>3 DEF BulkInv

\* Only after the last reading of an account is it reported as verified.
Verifies(v) == Several!Settle(v) \/ Several!Revoked(v) \/ Several!ReadProfile(v)
Speaks(v) ==
  \/ Several!Dispossessed(v) \/ Several!Crashes(v)
  \/ \E r : Several!Goes(v, r) /\ r.outcome = req[v].outcome
  \/ \E status \in Several!Outcomes :
       Several!Outcome(v, status) /\ req[v].todo # {} /\ (status = "verified" => Verifies(v))

LEMMA ToSpeaks ==
  ASSUME BulkInv, NEW v \in Workers, NEW stage, Several!To(v, stage)
  PROVE  Speaks(v)
  <1>1. [req[v] EXCEPT !.at = stage].outcome = req[v].outcome
    BY DEF BulkInv, Changes
  <1>2. Several!Goes(v, [req[v] EXCEPT !.at = stage])
    BY DEF Several!To
  <1>3. QED
    BY <1>1, <1>2, Zenon DEF Speaks

LEMMA HandlersSpeak ==
  ASSUME Several!BulkAssumption, BulkInv, NEW v \in Workers,
         \/ Several!NextAccount(v) \/ Several!TurnLost(v)
         \/ Several!Patch(v) \/ Several!ReadBack(v) \/ Several!Cut(v) \/ Several!Count(v)
         \/ Several!Settle(v) \/ Several!Revoke(v) \/ Several!Revoked(v)
         \/ Several!Rate(v) \/ Several!Assign(v) \/ Several!ReadProfile(v)
  PROVE  Speaks(v)
  <1>1. req[v] \in Changes /\ (req[v].at \notin {"idle", "turn"} => req[v].todo # {})
    BY ChangeOK DEF Accounted
  <1>2. \A d, b, stage :
          /\ [req[v] EXCEPT !.devices = d, !.at = stage].outcome = req[v].outcome
          /\ [req[v] EXCEPT !.started = b, !.at = stage].outcome = req[v].outcome
          /\ [req[v] EXCEPT !.left = b, !.at = stage].outcome = req[v].outcome
          /\ [req[v] EXCEPT !.devices = d, !.mismatch = b, !.at = stage].outcome = req[v].outcome
          /\ [req[v] EXCEPT !.at = stage].outcome = req[v].outcome
    BY <1>1 DEF Changes
  <1>3. \A r : Several!Goes(v, r) /\ r.outcome = req[v].outcome => Speaks(v)
    BY DEF Speaks
  <1>4. \A status \in Several!Outcomes :
          Several!Outcome(v, status) /\ req[v].todo # {} /\ (status = "verified" => Verifies(v))
            => Speaks(v)
    BY DEF Speaks
  <1>5. Several!Dispossessed(v) => Speaks(v)
    BY DEF Speaks
  <1>6. CASE Several!TurnLost(v)
    BY <1>5, <1>6 DEF Several!TurnLost
  <1>7. CASE Several!NextAccount(v)
    <2>1. \A status \in {"skipped", "unchanged"} :
            Several!Outcome(v, status) /\ req[v].todo # {} => Speaks(v)
      BY <1>4 DEF Several!Outcomes
    <2>2. req[v].todo # {}
      BY <1>7 DEF Several!NextAccount
    <2>3. \/ Several!Outcome(v, "skipped") \/ Several!Outcome(v, "unchanged")
          \/ Several!To(v, "patch")
          \/ \E d : Several!Goes(v, [req[v] EXCEPT !.devices = d, !.at = "revoke"])
          \/ Several!Goes(v, [req[v] EXCEPT !.started = TRUE, !.at = "rate"])
      BY <1>7, Zenon DEF Several!NextAccount
    <2>4. QED
      BY <1>2, <1>3, <2>1, <2>2, <2>3, ToSpeaks, Zenon
  <1>8. CASE Several!Patch(v) \/ Several!Cut(v) \/ Several!Revoke(v) \/ Several!Assign(v)
    BY <1>2, <1>3, <1>5, <1>8, Zenon
       DEF Several!Patch, Several!Cut, Several!Revoke, Several!Assign, Several!Change
  <1>9. CASE Several!ReadBack(v)
    BY <1>1, <1>4, <1>9, ToSpeaks, StatusesOK DEF Several!ReadBack, Several!Reads
  <1>10. CASE Several!Count(v)
    BY <1>2, <1>3, <1>10, Zenon DEF Several!Count, Several!Reads
  <1>11. CASE Several!Rate(v)
    BY <1>1, <1>4, <1>5, <1>11, ToSpeaks, StatusesOK DEF Several!Rate
  <1>12. CASE Several!Settle(v)
    <2>1. CASE \E status \in {"partial", "verified"} : Several!Outcome(v, status)
      BY <1>1, <1>4, <1>12, <2>1, StatusesOK DEF Verifies, Several!Settle
    <2>2. CASE Several!Dispossessed(v) \/ Several!Crashes(v)
      BY <2>2 DEF Speaks
    <2>3. QED
      BY <1>12, <2>1, <2>2 DEF Several!Settle
  <1>13. CASE Several!Revoked(v)
    <2>1. CASE \E status \in {"partial", "verified", "unknown"} : Several!Outcome(v, status)
      BY <1>1, <1>4, <1>13, <2>1, StatusesOK DEF Verifies, Several!Revoked
    <2>2. CASE Several!Dispossessed(v) \/ Several!Crashes(v)
      BY <2>2 DEF Speaks
    <2>3. CASE \E d, b : Several!Goes(v, [req[v] EXCEPT !.devices = d, !.mismatch = b,
                                                        !.at = "revoke"])
      <3>1. PICK d, b : Several!Goes(v, [req[v] EXCEPT !.devices = d, !.mismatch = b,
                                                        !.at = "revoke"])
        BY <2>3
      <3>2. [req[v] EXCEPT !.devices = d, !.mismatch = b, !.at = "revoke"].outcome = req[v].outcome
        BY <1>2
      <3>3. QED
        BY <1>3, <3>1, <3>2, Zenon
    <2>4. QED
      BY <1>13, <2>1, <2>2, <2>3, Zenon DEF Several!Revoked
  <1>14. CASE Several!ReadProfile(v)
    <2>1. CASE \E status \in {"failed", "verified", "unknown"} : Several!Outcome(v, status)
      BY <1>1, <1>4, <1>14, <2>1, StatusesOK DEF Verifies, Several!ReadProfile
    <2>2. CASE Several!Dispossessed(v) \/ Several!Crashes(v)
      BY <2>2 DEF Speaks
    <2>3. QED
      BY <1>14, <2>1, <2>2 DEF Several!ReadProfile
  <1>15. QED
    BY <1>6, <1>7, <1>8, <1>9, <1>10, <1>11, <1>12, <1>13, <1>14

LEMMA ReviewsTellNothing ==
  ASSUME BulkInv, NEW v \in Workers, NEW w \in Workers, NEW k, NEW S, NEW r,
         Several!Review(v, k, S, r), r.outcome = Several!Idle.outcome
  PROVE  OutcomesStay(w)
  <1> DEFINE n == [r EXCEPT !.kind = k, !.at = "turn", !.todo = S, !.selected = S]
  <1>1. n.outcome = r.outcome \/ n.outcome = r["outcome"]
    OBVIOUS
  <1>2. Several!Idle.outcome = [a \in Accounts |-> "none"]
    BY DEF Several!Idle
  <1>3. req' = [req EXCEPT ![v] = n]
    BY DEF Several!Review
  <1> HIDE DEF n
  <1>4. \A a \in Accounts : n.outcome[a] = "none"
    BY <1>1, <1>2
  <1>5. QED
    BY <1>3, <1>4 DEF OutcomesStay, BulkInv

LEMMA WhoVerifies ==
  ASSUME Several!BulkAssumption, BulkInv, Several!Next, NEW w \in Workers, NEW a \in Accounts,
         req[w].outcome[a] = "none", req'[w].outcome[a] = "verified"
  PROVE  Verifies(w) /\ Several!Outcome(w, "verified") /\ a = Several!Turn(w)
                     /\ req[w].todo # {}
  <1>1. ~OutcomesStay(w)
    BY DEF OutcomesStay
  <1>2. ASSUME NEW v \in Workers, Speaks(v)
        PROVE  Verifies(w) /\ Several!Outcome(w, "verified") /\ a = Several!Turn(w)
                           /\ req[w].todo # {}
    <2>1. ~(Several!Dispossessed(v) \/ Several!Crashes(v))
      BY <1>1, DispossessedTellsNothing
    <2>2. ~\E r : Several!Goes(v, r) /\ r.outcome = req[v].outcome
      BY <1>1, GoesTellsNothing
    <2>3. PICK status \in Several!Outcomes :
            Several!Outcome(v, status) /\ req[v].todo # {} /\ (status = "verified" => Verifies(v))
      BY <1>2, <2>1, <2>2 DEF Speaks
    <2>4. status = "verified" /\ w = v /\ a = Several!Turn(v)
      BY <2>3, OutcomeTells
    <2>5. QED
      BY <2>3, <2>4
  <1>3. ASSUME NEW v \in Workers, NEW S \in SUBSET Accounts,
               Several!ReviewSuspend(v, S) \/ Several!ReviewRevoke(v, S)
                 \/ Several!ReviewTemplate(v, S)
        PROVE  FALSE
    <2>1. PICK k, r : Several!Review(v, k, S, r) /\ r.outcome = Several!Idle.outcome
      <3>1. \A t, sk, li :
              /\ [Several!Idle EXCEPT !.skip = sk, !.listed = li].outcome = Several!Idle.outcome
              /\ [Several!Idle EXCEPT !.template = t, !.skip = sk].outcome = Several!Idle.outcome
        BY DEF Several!Idle
      <3>2. CASE Several!ReviewSuspend(v, S)
        <4>1. Several!Review(v, "suspend", S, [Several!Idle EXCEPT !.skip = disabled \cap S,
                                                                  !.listed = online \cap S])
          BY <3>2 DEF Several!ReviewSuspend
        <4>2. [Several!Idle EXCEPT !.skip = disabled \cap S, !.listed = online \cap S].outcome
                = Several!Idle.outcome
          BY <3>1
        <4>3. QED
          BY <4>1, <4>2, Zenon
      <3>3. CASE Several!ReviewRevoke(v, S)
        BY <3>3, Zenon DEF Several!ReviewRevoke
      <3>4. CASE Several!ReviewTemplate(v, S)
        <4>1. PICK t \in Templates :
                Several!Review(v, "template", S, [Several!Idle EXCEPT !.template = t,
                                                        !.skip = Several!Has(S, t)])
          BY <3>4 DEF Several!ReviewTemplate
        <4>2. [Several!Idle EXCEPT !.template = t, !.skip = Several!Has(S, t)].outcome
                = Several!Idle.outcome
          BY <3>1
        <4>3. QED
          BY <4>1, <4>2, Zenon
      <3>5. QED
        BY <1>3, <3>2, <3>3, <3>4
    <2>2. QED
      BY <1>1, <2>1, ReviewsTellNothing
  <1>4. ASSUME NEW v \in Workers, Several!AllDone(v)
        PROVE  FALSE
    BY <1>1, <1>4, LeavingTellsNothing DEF Several!AllDone
  <1>5. ASSUME NEW b \in Accounts,
               \/ Several!LoseLock(b) \/ Several!Restore(b) \/ Several!Connect(b)
               \/ Several!Disconnect(b)
        PROVE  FALSE
    BY <1>5 DEF Several!LoseLock, Several!Restore, Several!Connect, Several!Disconnect
  <1>6. QED
    BY <1>2, <1>3, <1>4, <1>5, HandlersSpeak DEF Several!Next

\* An account is reported as verified only in a state that is what was asked for,
\* although its lock may have gone to another request in between.
THEOREM VerifiedIsSo ==
  ASSUME Several!BulkAssumption PROVE Several!Spec => Several!VerifiedWhenSaid
  <1>1. BulkInv /\ [Several!Next]_Several!vars => [Several!VerifiedWhenSaidStep]_Several!vars
    <2> SUFFICES ASSUME BulkInv, Several!Next, NEW w \in Workers, NEW a \in Accounts,
                        req[w].outcome[a] = "none", req'[w].outcome[a] = "verified"
                 PROVE  CASE req[w].kind = "suspend" -> a \in disabled /\ a \notin online
                          [] req[w].kind = "revoke" ->
                               \A c \in Several!Certs : c[1] = a => c \in revoked \cap closed'
                          [] OTHER -> profile[a] = req[w].template
      BY DEF Several!VerifiedWhenSaidStep
    <2>1. /\ Verifies(w) /\ Several!Outcome(w, "verified") /\ a = Several!Turn(w)
          /\ req[w].todo # {}
      BY WhoVerifies
    <2>2. PICK q \in Changes : q = req[w] /\ Sees(w, q) /\ Several!Turn(w) = Least(q.todo)
      BY ChangeOK
    <2>3. ~Several!Dispossessed(w) /\ ~Several!Crashes(w)
      BY DispossessedTellsNothing DEF OutcomesStay
    <2>4. \A status \in Several!Outcomes : Several!Outcome(w, status) => status = "verified"
      BY <2>1, OutcomeTells
    <2>5. \A r : Several!Goes(w, r) => r.outcome # q.outcome
      BY <2>2, GoesTellsNothing DEF OutcomesStay
    <2>6. CASE Several!Settle(w)
      <3>1. ~Several!Outcome(w, "partial")
        BY <2>4 DEF Several!Outcomes
      <3>2. q.at = "settle" /\ Several!Owned(w) /\ ~q.left
        BY <2>2, <2>3, <2>6, <3>1 DEF Several!Settle, Several!StillOwned
      <3>3. QED
        BY <2>1, <2>2, <3>2 DEF Sees, Several!Owned
    <2>7. CASE Several!Revoked(w)
      <3>1. ~Several!Outcome(w, "partial") /\ ~Several!Outcome(w, "unknown")
        BY <2>4 DEF Several!Outcomes
      <3>2. \A d, b : [q EXCEPT !.devices = d, !.mismatch = b, !.at = "revoke"].outcome = q.outcome
        BY DEF Changes
      <3>3. \A d, b : ~Several!Goes(w, [q EXCEPT !.devices = d, !.mismatch = b, !.at = "revoke"])
        BY <2>5, <3>2, Zenon
      <3>4. PICK c : /\ c \in revoked /\ closed' = closed \cup {c} /\ UNCHANGED Several!router
                     /\ q.devices = {c} /\ ~q.mismatch
        BY <2>2, <2>3, <2>7, <3>1, <3>3, Zenon DEF Several!Revoked
      <3>5. q.kind = "revoke" /\ \A d \in Several!Certs : d[1] = a => d \in {c} \cup closed
        BY <2>1, <2>2, <2>7, <3>4 DEF Sees, Several!Revoked
      <3>6. QED
        BY <2>2, <3>4, <3>5 DEF BulkInv, BulkTyped
    <2>8. CASE Several!ReadProfile(w)
      <3>1. ~Several!Outcome(w, "failed") /\ ~Several!Outcome(w, "unknown")
        BY <2>4 DEF Several!Outcomes
      <3>2. Several!Confirmed(w) /\ q.at = "readProfile"
        BY <2>2, <2>3, <2>8, <3>1 DEF Several!ReadProfile
      <3>3. QED
        BY <2>1, <2>2, <3>2 DEF Sees, Several!Confirmed
    <2>9. QED
      BY <2>1, <2>6, <2>7, <2>8 DEF Verifies
  <1>2. QED
    BY <1>1, BulkInvariant, PTL DEF Several!Spec, Several!VerifiedWhenSaid

\* Steps that leave the dashboard's rows of accounts and devices alone.
LEMMA StoreLeft ==
  ASSUME NEW w, NEW S, NEW b,
         \/ Several!ReviewSuspend(w, S) \/ Several!ReviewRevoke(w, S)
         \/ Several!ReviewTemplate(w, S)
         \/ Several!TurnLost(w) \/ Several!AllDone(w)
         \/ Several!Patch(w) \/ Several!ReadBack(w) \/ Several!Cut(w) \/ Several!Count(w)
         \/ Several!Settle(w) \/ Several!Revoke(w) \/ Several!Rate(w) \/ Several!Assign(w)
         \/ Several!LoseLock(b) \/ Several!Restore(b) \/ Several!Connect(b)
         \/ Several!Disconnect(b)
  PROVE  closed' = closed /\ assigned' = assigned
  <1>1. UNCHANGED Several!store => closed' = closed /\ assigned' = assigned
    BY DEF Several!store
  <1>2. Several!Dispossessed(w) => UNCHANGED Several!store
    BY DEF Several!Dispossessed
  <1>3. \A k, r : Several!Review(w, k, S, r) => UNCHANGED Several!store
    BY DEF Several!Review
  <1>4. \A E, n, m : Several!Change(w, E, n, m) => UNCHANGED Several!store
    BY <1>2, Zenon DEF Several!Change
  <1>5. CASE \/ Several!ReviewSuspend(w, S) \/ Several!ReviewRevoke(w, S)
             \/ Several!ReviewTemplate(w, S)
    <2>1. CASE Several!ReviewSuspend(w, S)
      <3>1. Several!Review(w, "suspend", S, [Several!Idle EXCEPT !.skip = disabled \cap S,
                                                                !.listed = online \cap S])
        BY <2>1 DEF Several!ReviewSuspend
      <3>2. QED
        BY <1>1, <1>3, <3>1, Zenon
    <2>2. CASE Several!ReviewRevoke(w, S)
      BY <1>1, <1>3, <2>2, Zenon DEF Several!ReviewRevoke
    <2>3. CASE Several!ReviewTemplate(w, S)
      <3>1. PICK t \in Templates :
              Several!Review(w, "template", S, [Several!Idle EXCEPT !.template = t,
                                                      !.skip = Several!Has(S, t)])
        BY <2>3 DEF Several!ReviewTemplate
      <3>2. QED
        BY <1>1, <1>3, <3>1, Zenon
    <2>4. QED
      BY <1>5, <2>1, <2>2, <2>3
  <1>6. CASE Several!TurnLost(w) \/ Several!AllDone(w)
    BY <1>1, <1>2, <1>6 DEF Several!TurnLost, Several!AllDone
  <1>7. CASE Several!Patch(w)
    BY <1>1, <1>2, <1>7, Zenon DEF Several!Patch, Several!Change
  <1>8. CASE Several!ReadBack(w) \/ Several!Count(w)
    BY <1>1, <1>8, Zenon DEF Several!ReadBack, Several!Count, Several!Reads
  <1>9. CASE Several!Cut(w)
    BY <1>1, <1>2, <1>9, Zenon DEF Several!Cut, Several!Change, Several!store
  <1>10. CASE Several!Settle(w)
    BY <1>1, <1>10 DEF Several!Settle
  <1>11. CASE Several!Revoke(w)
    BY <1>1, <1>2, <1>11, Zenon DEF Several!Revoke, Several!Change
  <1>12. CASE Several!Rate(w)
    BY <1>1, <1>2, <1>12, Zenon DEF Several!Rate, Several!store
  <1>13. CASE Several!Assign(w)
    BY <1>1, <1>2, <1>13, Zenon DEF Several!Assign, Several!Change
  <1>14. CASE \/ Several!LoseLock(b) \/ Several!Restore(b) \/ Several!Connect(b)
              \/ Several!Disconnect(b)
    BY <1>1, <1>14 DEF Several!LoseLock, Several!Restore, Several!Connect, Several!Disconnect
  <1>15. QED
    BY <1>5, <1>6, <1>7, <1>8, <1>9, <1>10, <1>11, <1>12, <1>13, <1>14

\* The dashboard takes over an assignment, or closes a device, only as the router
\* has it (app.py:6760-6781, 7078-7108).
THEOREM StoreIsBehind ==
  ASSUME Several!BulkAssumption PROVE Several!Spec => Several!StoreFollowsRouter
  <1>1. BulkInv /\ [Several!Next]_Several!vars => [Several!StoreFollowsRouterStep]_Several!vars
    <2> SUFFICES ASSUME BulkInv, Several!Next
                 PROVE  Several!StoreFollowsRouterStep
      OBVIOUS
    <2>1. (closed' = closed /\ assigned' = assigned) => Several!StoreFollowsRouterStep
      BY DEF Several!StoreFollowsRouterStep
    <2>2. ASSUME NEW w \in Workers, Several!NextAccount(w)
          PROVE  Several!StoreFollowsRouterStep
      <3>1. PICK q \in Changes : q = req[w] /\ Sees(w, q) /\ Several!Turn(w) = Least(q.todo)
                                 /\ (q.todo # {} => Least(q.todo) \in q.todo)
        BY ChangeOK
      <3>2. closed' = closed /\ q.at = "turn" /\ q.todo # {} /\ holder[Least(q.todo)] = w
        BY <2>2, <3>1 DEF Several!NextAccount, Several!Owned
      <3>3. \/ assigned' = assigned
            \/ /\ q.kind = "template" /\ Least(q.todo) \in q.skip
               /\ assigned' = [assigned EXCEPT ![Least(q.todo)] = q.template]
        BY <2>2, <3>1, Zenon DEF Several!NextAccount
      <3>4. CASE /\ q.kind = "template" /\ Least(q.todo) \in q.skip
                 /\ assigned' = [assigned EXCEPT ![Least(q.todo)] = q.template]
        <4>1. assigned[Least(q.todo)] = q.template
          BY <3>1, <3>2, <3>4 DEF Sees
        <4>2. assigned' = assigned
          BY <3>4, <4>1 DEF BulkInv, BulkTyped
        <4>3. QED
          BY <2>1, <3>2, <4>2
      <3>5. QED
        BY <2>1, <3>2, <3>3, <3>4
    <2>3. ASSUME NEW w \in Workers, Several!Revoked(w)
          PROVE  Several!StoreFollowsRouterStep
      <3>1. assigned' = assigned
        BY <2>3 DEF Several!Revoked
      <3>2. closed' = closed \/ \E c \in revoked : closed' = closed \cup {c}
        BY <2>3, Zenon DEF Several!Revoked, Several!Dispossessed, Several!store
      <3>3. closed \subseteq revoked
        BY DEF BulkInv, BulkTyped
      <3>4. QED
        BY <3>1, <3>2, <3>3 DEF Several!StoreFollowsRouterStep
    <2>4. ASSUME NEW w \in Workers, Several!ReadProfile(w)
          PROVE  Several!StoreFollowsRouterStep
      <3>1. closed' = closed
        BY <2>4 DEF Several!ReadProfile
      <3>2. \/ assigned' = assigned
            \/ /\ Several!Confirmed(w)
               /\ assigned' = [assigned EXCEPT ![Several!Turn(w)] = req[w].template]
        BY <2>4, Zenon DEF Several!ReadProfile, Several!Dispossessed, Several!store
      <3>3. QED
        BY <3>1, <3>2 DEF Several!Confirmed, Several!StoreFollowsRouterStep, BulkInv, BulkTyped
    <2>5. QED
      BY <2>1, <2>2, <2>3, <2>4, StoreLeft DEF Several!Next
  <1>2. QED
    BY <1>1, BulkInvariant, PTL DEF Several!Spec, Several!StoreFollowsRouter

-----------------------------------------------------------------------------
(* Provisioning *)

Calls ==
  [at : Prov!Stages, knows : BOOLEAN, named : BOOLEAN, taken : SUBSET Nat, left : SUBSET Nat,
   target : Nat, since : SUBSET Nat, found : BOOLEAN, profile : Prov!File,
   unsafe : BOOLEAN, error : {"none", "router", "coordination"}, result : Prov!Results]

\* Ids are not used again, the shared CA export is nobody's, and there is one at most.
FilesOK ==
  /\ files \subseteq Prov!File /\ nextFile \in Nat \ {0}
  /\ \A f \in files : 0 < f.id /\ f.id < nextFile /\ (f.kind = "ca" <=> f.owner = Nobody)
  /\ \A f, g \in files : f.id = g.id => f = g
  /\ \A f, g \in Prov!CaExports : f = g

OwnFiles(p) == Prov!Own(p, {"crt", "key", "ovpn"})
Exports(p) == Prov!Own(p, {"crt", "key"})
Profiles(p) == Prov!Own(p, {"ovpn"})

\* What the ids a call has noted stand for, whatever other calls do.
CallKnows(p, j) ==
  /\ \A id \in j.taken \cup j.left \cup j.since : id < nextFile
  /\ j.since = Prov!NoBaseline \/ 0 \notin j.since
  /\ \A f \in files : f.id \in j.taken \cup j.left => f.owner = p
  /\ \A f \in Profiles(p) : f.id \notin j.since /\ f.ca = "current"
  /\ j.at \in {"dropCa", "goneCa"} =>
       j.target < nextFile /\ \A f \in files : f.id = j.target => f.kind = "ca"
  /\ j.at \in {"baseline", "profile"} => \A f \in Prov!CaExports : f.ca = "current"
  /\ j.at = "goneFile" => j.target \in j.left

\* The files a call may have made, by where it stands: those with an id it noted, and
\* those its cleanup will look for.
Nothing == {"create", "locate", "sign", "trust", "export"}
Exporting == {"inventory", "findCa", "dropCa", "goneCa", "exportCa", "readCa", "baseline"}
Making == {"profile", "identify", "verify"}
CallMade(p, j) ==
  /\ j.at \in Nothing => ~j.named
  /\ j.at \in Nothing \cup Exporting => j.since = Prov!NoBaseline
  /\ j.at \in Making => j.since # Prov!NoBaseline
  /\ j.at \in Nothing \cup Exporting \cup {"profile"} => Profiles(p) = {}
  /\ j.at \in Nothing \cup Exporting \cup Making => ~j.unsafe /\ j.error = "none" /\ j.left = {}
  /\ j.at \in Nothing \cup Exporting \cup (Making \ {"verify"}) => ~j.found
  /\ j.at = "inventory" => j.named
  /\ j.at # "done" /\ ~j.named => Exports(p) = {}
  /\ j.at # "done" /\ j.since = Prov!NoBaseline => Profiles(p) = {}
  /\ j.at \in (Exporting \ {"inventory"}) \cup Making => Prov!Ids(Exports(p)) \subseteq j.taken
  /\ j.at = "inventoryLeft" => ~j.unsafe /\ j.left = {}
  /\ j.at \in {"verify", "inventoryLeft"} /\ j.found => Prov!Ids(Profiles(p)) \subseteq j.taken
  /\ j.at = "verify" => j.found
  /\ j.at = "inventoryLeft" /\ j.error = "none" => Prov!Ids(Exports(p)) \subseteq j.taken

\* What it still has to remove, and what its answer says.
Removing == {"dropFile", "goneFile"}
Dropping == {"findCert", "dropCert", "goneCert"}
CallLeaves(p, j) ==
  /\ j.at \in Removing /\ ~j.unsafe => Prov!Ids(OwnFiles(p)) \subseteq j.left
  /\ j.at \in Dropping /\ ~j.unsafe => OwnFiles(p) = {}
  /\ j.found => j.profile.owner = p /\ j.profile.ca = "current"
  /\ j.at \in Removing \cup {"inventoryLeft"} /\ j.error = "none" =>
       j.found /\ cert[p] = "trusted"
  /\ j.at # "done" => j.result = "pending"
  /\ j.result = "profile" =>
       j.profile.owner = p /\ j.profile.ca = "current" /\ cert[p] = "trusted"
  /\ j.result \in {"failed", "filesRemain"} => cert[p] = "none"
  /\ j.result \in {"failed", "profile"} => OwnFiles(p) = {}

CallOK(p, j) == CallKnows(p, j) /\ CallMade(p, j) /\ CallLeaves(p, j)

ProvInv ==
  /\ FilesOK /\ job \in [Provisioners -> Calls]
  /\ cert \in [Provisioners -> {"none", "created", "signed", "trusted"}]
  /\ \A p \in Provisioners : CallOK(p, job[p])

\* Steps in which no file of call q is made.
QuietFor(q) ==
  /\ nextFile =< nextFile'
  /\ \A f \in files' :
       \/ f \in files
       \/ f.id >= nextFile /\ f.owner # q
       \/ f.owner = Nobody /\ \E g \in Prov!CaExports : g.id = f.id
  /\ \A f \in Prov!CaExports' : f \in files \/ f.ca = "current"

LEMMA QuietForKeeps ==
  ASSUME Nobody \notin Provisioners, FilesOK, FilesOK', NEW q \in Provisioners, NEW j \in Calls,
         QuietFor(q), CallOK(q, j)
  PROVE  /\ CallKnows(q, j)' /\ CallMade(q, j)'
         /\ cert'[q] = cert[q] => CallLeaves(q, j)'
  <1>1. \A f \in files' : f.owner = q => f \in files
    BY DEF QuietFor
  <1>2. /\ OwnFiles(q)' \subseteq OwnFiles(q) /\ Exports(q)' \subseteq Exports(q)
        /\ Profiles(q)' \subseteq Profiles(q)
    BY <1>1 DEF OwnFiles, Exports, Profiles, Prov!Own
  <1>3. /\ Prov!Ids(OwnFiles(q))' \subseteq Prov!Ids(OwnFiles(q))
        /\ Prov!Ids(Exports(q))' \subseteq Prov!Ids(Exports(q))
        /\ Prov!Ids(Profiles(q))' \subseteq Prov!Ids(Profiles(q))
    BY <1>2 DEF Prov!Ids
  <1>4. CallKnows(q, j)'
    <2>1. \A id \in j.taken \cup j.left \cup j.since : id < nextFile'
      BY DEF Calls, FilesOK, QuietFor, CallOK, CallKnows
    <2>2. ASSUME NEW f \in files', f.id \in j.taken \cup j.left PROVE f.owner = q
      <3>1. f.id < nextFile /\ f.id \in Nat /\ nextFile \in Nat
        BY <2>2 DEF CallOK, CallKnows, FilesOK, Prov!File
      <3>2. f \in files \/ \E g \in Prov!CaExports : g.id = f.id
        BY <3>1 DEF QuietFor
      <3>3. ASSUME NEW g \in Prov!CaExports, g.id = f.id PROVE FALSE
        <4>1. g \in files /\ g.owner = Nobody
          BY DEF Prov!CaExports, FilesOK
        <4>2. g.owner = q
          BY <2>2, <3>3, <4>1 DEF CallOK, CallKnows
        <4>3. QED
          BY <4>1, <4>2
      <3>4. QED
        BY <2>2, <3>2, <3>3 DEF CallOK, CallKnows
    <2>3. ASSUME j.at \in {"dropCa", "goneCa"}
          PROVE  j.target < nextFile' /\ \A f \in files' : f.id = j.target => f.kind = "ca"
      <3>1. j.target < nextFile /\ j.target \in Nat /\ nextFile \in Nat /\ nextFile' \in Nat
        BY <2>3 DEF CallOK, CallKnows, Calls, FilesOK
      <3>2. ASSUME NEW f \in files', f.id = j.target PROVE f.kind = "ca"
        <4>1. f \in files \/ f.owner = Nobody
          BY <3>1, <3>2 DEF QuietFor
        <4>2. QED
          BY <2>3, <3>2, <4>1 DEF CallOK, CallKnows, FilesOK
      <3>3. QED
        BY <3>1, <3>2 DEF QuietFor
    <2>4. j.at \in {"baseline", "profile"} => \A f \in Prov!CaExports' : f.ca = "current"
      BY DEF QuietFor, CallOK, CallKnows, Prov!CaExports
    <2>5. \A f \in Profiles(q)' : f.id \notin j.since /\ f.ca = "current"
      BY <1>2 DEF CallOK, CallKnows
    <2>6. QED
      BY <2>1, <2>2, <2>3, <2>4, <2>5 DEF CallOK, CallKnows, Prov!NoBaseline
  <1>5. CallMade(q, j)'
    BY <1>2, <1>3 DEF CallOK, CallMade, Prov!NoBaseline
  <1>6. cert'[q] = cert[q] => CallLeaves(q, j)'
    BY <1>2, <1>3 DEF CallOK, CallLeaves
  <1>7. QED
    BY <1>4, <1>5, <1>6

\* A step of call p.
LEMMA CallStep ==
  ASSUME Nobody \notin Provisioners, ProvInv, NEW p \in Provisioners, NEW n \in Calls,
         Prov!Becomes(p, n), FilesOK', CallOK(p, n)',
         \A q \in Provisioners \ {p} : QuietFor(q) /\ cert'[q] = cert[q],
         cert' \in [Provisioners -> {"none", "created", "signed", "trusted"}]
  PROVE  ProvInv'
  <1>1. job' = [job EXCEPT ![p] = n] /\ job' \in [Provisioners -> Calls]
    BY DEF Prov!Becomes, ProvInv
  <1>2. ASSUME NEW q \in Provisioners \ {p} PROVE CallOK(q, job[q])'
    <2>1. PICK j \in Calls : j = job[q] /\ CallOK(q, j)
      BY DEF ProvInv
    <2>2. CallOK(q, j)'
      BY <2>1, QuietForKeeps DEF ProvInv, CallOK
    <2>3. job'[q] = j
      BY <1>1, <2>1 DEF ProvInv
    <2>4. QED
      BY <2>2, <2>3 DEF CallOK, CallKnows, CallMade, CallLeaves
  <1>3. CallOK(p, job[p])'
    <2>1. job'[p] = n
      BY <1>1 DEF ProvInv
    <2>2. QED
      BY <2>1 DEF CallOK, CallKnows, CallMade, CallLeaves
  <1>4. QED
    BY <1>1, <1>2, <1>3 DEF ProvInv

LEMMA StillKeeps ==
  ASSUME Nobody \notin Provisioners, ProvInv, NEW p \in Provisioners, NEW n \in Calls,
         Prov!Becomes(p, n), UNCHANGED Prov!router, CallOK(p, n)
  PROVE  ProvInv'
  <1>1. files' = files /\ nextFile' = nextFile /\ cert' = cert
    BY DEF Prov!router
  <1>2. FilesOK' /\ \A q \in Provisioners : QuietFor(q)
    BY <1>1 DEF ProvInv, FilesOK, QuietFor, Prov!CaExports
  <1>3. CallOK(p, n)'
    BY <1>1, <1>2, QuietForKeeps DEF ProvInv, CallOK
  <1>4. QED
    BY <1>1, <1>2, <1>3, CallStep DEF ProvInv

LEMMA RemovedKeeps ==
  ASSUME Nobody \notin Provisioners, ProvInv, NEW p \in Provisioners, NEW n \in Calls, NEW id,
         Prov!Becomes(p, n), Prov!Removed(id), CallOK(p, n)
  PROVE  ProvInv'
  <1>1. files' \subseteq files /\ nextFile' = nextFile /\ cert' = cert
    BY DEF Prov!Removed
  <1>2. FilesOK' /\ \A q \in Provisioners : QuietFor(q)
    BY <1>1 DEF ProvInv, FilesOK, QuietFor, Prov!CaExports
  <1>3. CallOK(p, n)'
    BY <1>1, <1>2, QuietForKeeps DEF ProvInv, CallOK
  <1>4. QED
    BY <1>1, <1>2, <1>3, CallStep DEF ProvInv

LEMMA CertKeeps ==
  ASSUME Nobody \notin Provisioners, ProvInv, NEW p \in Provisioners, NEW n \in Calls,
         NEW state \in {"none", "created", "signed", "trusted"},
         Prov!Becomes(p, n), Prov!CertBecomes(p, state), CallOK(p, n),
         n.at \in Dropping \cup Nothing \cup {"inventoryLeft"},
         n.at = "inventoryLeft" => n.error # "none"
  PROVE  ProvInv'
  <1>1. files' = files /\ nextFile' = nextFile /\ cert' = [cert EXCEPT ![p] = state]
    BY DEF Prov!CertBecomes
  <1>2. FilesOK' /\ \A q \in Provisioners : QuietFor(q)
    BY <1>1 DEF ProvInv, FilesOK, QuietFor, Prov!CaExports
  <1>3. CallKnows(p, n)' /\ CallMade(p, n)'
    BY <1>2, QuietForKeeps DEF ProvInv
  <1>4. n.result = "pending" /\ OwnFiles(p)' = OwnFiles(p)
    BY <1>1 DEF CallOK, CallLeaves, Dropping, Nothing, OwnFiles, Prov!Own
  <1>5. CallLeaves(p, n)'
    BY <1>4 DEF CallOK, CallLeaves, Dropping, Nothing, Removing
  <1>6. QED
    BY <1>1, <1>2, <1>3, <1>5, CallStep DEF ProvInv, CallOK

\* A failure in the body.
LEMMA FailedOK ==
  ASSUME NEW p, NEW j \in Calls, CallOK(p, j), NEW e \in {"router", "coordination"},
         j.at \in Nothing \cup Exporting \cup Making
  PROVE  LET n == Prov!Failed(j, e) IN
         n \in Calls /\ CallOK(p, n) /\ n.at = "inventoryLeft" /\ n.error # "none"
  <1> DEFINE n == Prov!Failed(j, e)
  <1>1. n \in Calls
    BY DEF Calls, Prov!Failed, Prov!Stages
  <1>2. /\ n.at = "inventoryLeft" /\ n.error = e /\ n.named = j.named /\ n.taken = j.taken
        /\ n.left = j.left /\ n.since = j.since /\ n.found = j.found /\ n.profile = j.profile
        /\ n.unsafe = j.unsafe /\ n.result = j.result
    BY DEF Calls, Prov!Failed
  <1> HIDE DEF n
  <1>3. CallKnows(p, n)
    BY <1>2 DEF CallOK, CallKnows
  <1>4. CallMade(p, n)
    BY <1>2 DEF CallOK, CallMade, Nothing, Exporting, Making
  <1>5. CallLeaves(p, n)
    BY <1>2 DEF CallOK, CallLeaves, Nothing, Exporting, Making, Removing, Dropping
  <1>6. QED
    BY <1>1, <1>2, <1>3, <1>4, <1>5 DEF n, CallOK

LEMMA FailedKeeps ==
  ASSUME Nobody \notin Provisioners, ProvInv, NEW p \in Provisioners, NEW j \in Calls,
         CallOK(p, j), j.at \in Nothing \cup Exporting \cup Making,
         NEW e \in {"router", "coordination"},
         Prov!Becomes(p, Prov!Failed(j, e)), UNCHANGED Prov!router
  PROVE  ProvInv'
  <1>1. PICK n \in Calls : n = Prov!Failed(j, e) /\ CallOK(p, n)
    BY FailedOK
  <1>2. QED
    BY <1>1, StillKeeps

\* Requests about the call's certificate.
LEMMA MakeCertKeeps ==
  ASSUME Nobody \notin Provisioners, ProvInv, NEW p \in Provisioners,
         NEW n \in Calls, CallOK(p, n), n.at \in Nothing, job[p].at \in Nothing,
         NEW state \in {"created", "signed", "trusted"},
         Prov!SendOrFail(p, Prov!CertBecomes(p, state), n)
  PROVE  ProvInv'
  <1>1. PICK j \in Calls : j = job[p] /\ CallOK(p, j)
    BY DEF ProvInv
  <1>2. PICK f \in Calls : /\ f = Prov!Failed(j, "router") /\ CallOK(p, f)
                           /\ f.at = "inventoryLeft" /\ f.error # "none"
    BY <1>1, FailedOK
  <1>3. \/ Prov!CertBecomes(p, state) /\ Prov!Becomes(p, n)
        \/ (Prov!CertBecomes(p, state) \/ UNCHANGED Prov!router) /\ Prov!Becomes(p, f)
        \/ UNCHANGED Prov!router /\ Prov!Becomes(p, Prov!Failed(j, "coordination"))
    BY <1>1, <1>2, Zenon DEF Prov!SendOrFail, Prov!Send
  <1>4. CASE Prov!CertBecomes(p, state) /\ Prov!Becomes(p, n)
    <2>1. n.at # "inventoryLeft" /\ state \in {"none", "created", "signed", "trusted"}
      BY DEF Nothing
    <2>2. QED
      BY <1>4, <2>1, CertKeeps
  <1>5. CASE Prov!CertBecomes(p, state) /\ Prov!Becomes(p, f)
    BY <1>2, <1>5, CertKeeps
  <1>6. CASE UNCHANGED Prov!router /\ Prov!Becomes(p, f)
    BY <1>2, <1>6, StillKeeps
  <1>7. CASE UNCHANGED Prov!router /\ Prov!Becomes(p, Prov!Failed(j, "coordination"))
    BY <1>1, <1>7, FailedKeeps
  <1>8. QED
    BY <1>3, <1>4, <1>5, <1>6, <1>7

\* A call that has made no file yet.
LEMMA NothingOK ==
  ASSUME NEW p, NEW j \in Calls, CallOK(p, j), j.at \in Nothing, NEW stage \in Nothing,
         NEW k \in BOOLEAN
  PROVE  LET n == [j EXCEPT !.knows = k, !.at = stage] IN
         n \in Calls /\ CallOK(p, n) /\ n.at \in Nothing
  <1> DEFINE n == [j EXCEPT !.knows = k, !.at = stage]
  <1>1. n \in Calls
    BY DEF Calls, Nothing, Prov!Stages
  <1>2. /\ n.at = stage /\ n.error = j.error /\ n.named = j.named /\ n.taken = j.taken
        /\ n.left = j.left /\ n.since = j.since /\ n.found = j.found /\ n.profile = j.profile
        /\ n.unsafe = j.unsafe /\ n.result = j.result
    BY DEF Calls
  <1> HIDE DEF n
  <1>3. CallKnows(p, n)
    BY <1>2 DEF CallOK, CallKnows, Nothing
  <1>4. CallMade(p, n)
    BY <1>2 DEF CallOK, CallMade, Nothing, Exporting, Making
  <1>5. CallLeaves(p, n)
    BY <1>2 DEF CallOK, CallLeaves, Nothing, Removing, Dropping
  <1>6. QED
    BY <1>1, <1>2, <1>3, <1>4, <1>5 DEF n, CallOK

LEMMA CreateKeeps ==
  ASSUME Nobody \notin Provisioners, ProvInv, NEW p \in Provisioners,
         Prov!Create(p) \/ Prov!Sign(p) \/ Prov!Trust(p)
  PROVE  ProvInv'
  <1>1. PICK j \in Calls : j = job[p] /\ CallOK(p, j) /\ j.at \in Nothing
    BY DEF ProvInv, Prov!Create, Prov!Sign, Prov!Trust, Nothing
  <1>2. CASE Prov!Create(p)
    <2>1. PICK id \in BOOLEAN : Prov!SendOrFail(p, Prov!CertBecomes(p, "created"),
            [j EXCEPT !.knows = id, !.at = IF id THEN "sign" ELSE "locate"])
      BY <1>1, <1>2 DEF Prov!Create
    <2>2. (IF id THEN "sign" ELSE "locate") \in Nothing
      BY DEF Nothing
    <2>3. QED
      BY <1>1, <2>1, <2>2, NothingOK, MakeCertKeeps
  <1>3. CASE Prov!Sign(p)
    <2>1. [j EXCEPT !.at = "trust"] = [j EXCEPT !.knows = j.knows, !.at = "trust"]
          /\ j.knows \in BOOLEAN /\ "trust" \in Nothing
      BY DEF Calls, Nothing
    <2>2. Prov!SendOrFail(p, Prov!CertBecomes(p, "signed"), [j EXCEPT !.at = "trust"])
      BY <1>1, <1>3 DEF Prov!Sign
    <2>3. QED
      BY <1>1, <2>1, <2>2, NothingOK, MakeCertKeeps
  <1>4. CASE Prov!Trust(p)
    <2>1. [j EXCEPT !.at = "export"] = [j EXCEPT !.knows = j.knows, !.at = "export"]
          /\ j.knows \in BOOLEAN /\ "export" \in Nothing
      BY DEF Calls, Nothing
    <2>2. Prov!SendOrFail(p, Prov!CertBecomes(p, "trusted"), [j EXCEPT !.at = "export"])
      BY <1>1, <1>4 DEF Prov!Trust
    <2>3. QED
      BY <1>1, <2>1, <2>2, NothingOK, MakeCertKeeps
  <1>5. QED
    BY <1>2, <1>3, <1>4

LEMMA LocateKeeps ==
  ASSUME Nobody \notin Provisioners, ProvInv, NEW p \in Provisioners, Prov!Locate(p)
  PROVE  ProvInv'
  <1>1. PICK j \in Calls : j = job[p] /\ CallOK(p, j) /\ j.at \in Nothing
    BY DEF ProvInv, Prov!Locate, Nothing
  <1>2. /\ UNCHANGED Prov!router
        /\ \/ Prov!Becomes(p, [j EXCEPT !.knows = TRUE, !.at = "sign"])
           \/ Prov!Becomes(p, Prov!Failed(j, "router"))
    BY <1>1, Zenon DEF Prov!Locate, Prov!Read
  <1>3. "sign" \in Nothing
    BY DEF Nothing
  <1>4. CASE Prov!Becomes(p, [j EXCEPT !.knows = TRUE, !.at = "sign"])
    BY <1>1, <1>2, <1>3, <1>4, NothingOK, StillKeeps
  <1>5. CASE Prov!Becomes(p, Prov!Failed(j, "router"))
    BY <1>1, <1>2, <1>5, FailedKeeps
  <1>6. QED
    BY <1>2, <1>4, <1>5

LEMMA ReadKeeps ==
  ASSUME Nobody \notin Provisioners, ProvInv, NEW p \in Provisioners,
         NEW n \in Calls, NEW m \in Calls, CallOK(p, n), CallOK(p, m), Prov!Read(p, n, m)
  PROVE  ProvInv'
  BY StillKeeps DEF Prov!Read

\* Files made by a call.
LEMMA WrittenKeeps ==
  ASSUME Nobody \notin Provisioners, ProvInv, NEW p \in Provisioners, NEW n \in Calls,
         Prov!Becomes(p, n), cert' = cert, FilesOK', nextFile =< nextFile',
         \A f \in files' :
           f \in files \/ (f.owner = p /\ f.id >= nextFile /\ f.kind # "ca"),
         CallOK(p, n)'
  PROVE  ProvInv'
  <1>1. ASSUME NEW q \in Provisioners \ {p} PROVE QuietFor(q)
    BY DEF QuietFor, Prov!CaExports
  <1>2. QED
    BY <1>1, CallStep DEF ProvInv

LEMMA ExportKeeps ==
  ASSUME Nobody \notin Provisioners, ProvInv, NEW p \in Provisioners, Prov!Export(p)
  PROVE  ProvInv'
  <1>1. PICK j \in Calls : j = job[p] /\ CallOK(p, j) /\ j.at = "export"
    BY DEF ProvInv, Prov!Export
  <1> DEFINE k == [j EXCEPT !.named = TRUE]
  <1>2. /\ k \in Calls /\ k.at = "export" /\ k.named = TRUE /\ k.taken = j.taken
        /\ k.left = j.left /\ k.since = j.since /\ k.found = j.found /\ k.unsafe = j.unsafe
        /\ k.error = j.error /\ k.result = j.result
    BY <1>1 DEF Calls
  <1> HIDE DEF k
  <1> DEFINE n == [k EXCEPT !.at = "inventory"]
  <1>3. /\ n \in Calls /\ n.at = "inventory" /\ n.named = TRUE /\ n.taken = k.taken
        /\ n.left = k.left /\ n.since = k.since /\ n.found = k.found
        /\ n.unsafe = k.unsafe /\ n.error = k.error /\ n.result = k.result
    BY <1>2 DEF Calls, Prov!Stages
  <1> HIDE DEF n
  <1>4. /\ j.since = Prov!NoBaseline /\ Profiles(p) = {} /\ ~j.unsafe /\ j.error = "none"
        /\ j.left = {} /\ ~j.found /\ j.result = "pending"
    BY <1>1 DEF CallOK, CallMade, CallLeaves, Nothing
  <1>5. ASSUME NEW m \in Calls, m = n \/ \E e \in {"router", "coordination"} : m = Prov!Failed(k, e)
        PROVE  /\ m.at \in {"inventory", "inventoryLeft"} /\ m.named = TRUE /\ m.taken = j.taken
               /\ m.left = j.left /\ m.since = j.since /\ m.found = j.found
               /\ m.unsafe = j.unsafe /\ m.result = j.result
               /\ (m.at = "inventory" => m.error = "none")
               /\ (m.at = "inventoryLeft" => m.error # "none")
    <2>1. CASE m = n
      BY <1>2, <1>3, <1>4, <2>1
    <2>2. ASSUME NEW e \in {"router", "coordination"}, m = Prov!Failed(k, e)
          PROVE  /\ m.at = "inventoryLeft" /\ m.named = k.named /\ m.taken = k.taken
                 /\ m.left = k.left /\ m.since = k.since /\ m.found = k.found
                 /\ m.unsafe = k.unsafe /\ m.result = k.result /\ m.error = e
      BY <1>2, <2>2 DEF Prov!Failed, Calls
    <2>3. QED
      BY <1>2, <1>5, <2>1, <2>2
  <1>6. ASSUME NEW m \in Calls, m = n \/ \E e \in {"router", "coordination"} : m = Prov!Failed(k, e),
               Profiles(p)' = {}, \A f \in files' : f.id \in j.taken => f.owner = p,
               nextFile =< nextFile', nextFile' \in Nat, nextFile \in Nat
        PROVE  CallOK(p, m)'
    <2>1. /\ m.at \in {"inventory", "inventoryLeft"} /\ m.named = TRUE /\ m.taken = j.taken
          /\ m.left = j.left /\ m.since = j.since /\ m.found = j.found
          /\ m.unsafe = j.unsafe /\ m.result = j.result
          /\ (m.at = "inventory" => m.error = "none")
          /\ (m.at = "inventoryLeft" => m.error # "none")
      BY <1>5, <1>6
    <2>2. \A id \in j.taken \cup j.left \cup j.since : id < nextFile'
      BY <1>1, <1>6 DEF CallOK, CallKnows, Calls
    <2>3. CallKnows(p, m)'
      BY <1>1, <1>4, <1>6, <2>1, <2>2 DEF CallKnows
    <2>4. CallMade(p, m)'
      BY <1>4, <1>6, <2>1 DEF CallMade, Nothing, Exporting, Making, Prov!NoBaseline
    <2>5. CallLeaves(p, m)'
      BY <1>4, <1>6, <2>1 DEF CallLeaves, Removing, Dropping
    <2>6. QED
      BY <2>3, <2>4, <2>5 DEF CallOK
  <1>7. ASSUME NEW e \in {"router", "coordination"}
        PROVE  Prov!Failed(k, e) \in Calls
    <2> DEFINE b == [k EXCEPT !.error = e]
    <2>1. Prov!Failed(k, e) = [b EXCEPT !.at = "inventoryLeft"]
      BY DEF Prov!Failed
    <2>2. b \in Calls
      BY <1>2 DEF Calls
    <2> HIDE DEF b
    <2>3. [b EXCEPT !.at = "inventoryLeft"] \in Calls
      BY <2>2 DEF Calls, Prov!Stages
    <2>4. QED
      BY <2>1, <2>3
  <1>8. \/ UNCHANGED Prov!router /\ Prov!Becomes(p, Prov!Failed(j, "router"))
        \/ \E m \in Calls : /\ m = n \/ \E e \in {"router", "coordination"} : m = Prov!Failed(k, e)
                            /\ Prov!Becomes(p, m)
                            /\ UNCHANGED Prov!router \/ Prov!Written(p, <<"crt", "key">>)
    <2>1. \/ UNCHANGED Prov!router /\ Prov!Becomes(p, Prov!Failed(j, "router"))
          \/ Prov!Send(p, Prov!Written(p, <<"crt", "key">>), n, Prov!Failed(k, "router"),
                       Prov!Failed(k, "coordination"))
      BY <1>1, Zenon DEF Prov!Export, k, n
    <2>2. "router" \in {"router", "coordination"} /\ "coordination" \in {"router", "coordination"}
      OBVIOUS
    <2>3. QED
      BY <1>3, <1>7, <2>1, <2>2, Zenon DEF Prov!Send
  <1>9. CASE UNCHANGED Prov!router /\ Prov!Becomes(p, Prov!Failed(j, "router"))
    BY <1>1, <1>9, FailedKeeps DEF Nothing
  <1>10. ASSUME NEW m \in Calls, m = n \/ \E e \in {"router", "coordination"} : m = Prov!Failed(k, e),
                Prov!Becomes(p, m), UNCHANGED Prov!router
         PROVE  ProvInv'
    <2>1. files' = files /\ nextFile' = nextFile /\ cert' = cert
      BY <1>10 DEF Prov!router
    <2>2. FilesOK'
      BY <2>1 DEF ProvInv, FilesOK, Prov!CaExports
    <2>3. Profiles(p)' = {} /\ \A f \in files' : f.id \in j.taken => f.owner = p
      BY <1>1, <1>4, <2>1 DEF Profiles, Prov!Own, CallOK, CallKnows
    <2>4. CallOK(p, m)'
      BY <1>6, <1>10, <2>1, <2>3 DEF ProvInv, FilesOK
    <2>5. QED
      BY <1>10, <2>1, <2>2, <2>4, WrittenKeeps DEF ProvInv, FilesOK
  <1>11. ASSUME NEW m \in Calls, m = n \/ \E e \in {"router", "coordination"} : m = Prov!Failed(k, e),
                Prov!Becomes(p, m), Prov!Written(p, <<"crt", "key">>)
         PROVE  ProvInv'
    <2>1. DOMAIN <<"crt", "key">> = 1..2 /\ Cardinality(1..2) = 2
      <3>1. 1 \in Int /\ 2 \in Int /\ ~(1 > 2) /\ 2 - 1 + 1 = 2
        OBVIOUS
      <3>2. Cardinality(1..2) = IF 1 > 2 THEN 0 ELSE 2 - 1 + 1
        BY <3>1, FS_Interval, Zenon
      <3>3. DOMAIN <<"crt", "key">> = 1..2
        OBVIOUS
      <3>4. QED
        BY <3>1, <3>2, <3>3
    <2>12. Prov!Cardinality(1..2) = Cardinality(1..2)
      BY DEF Prov!Cardinality, Cardinality
    <2>2. /\ files' = files \cup {[id |-> nextFile + i - 1, kind |-> <<"crt", "key">>[i],
                                   owner |-> p, ca |-> "current"] : i \in 1..2}
          /\ nextFile' = nextFile + 2 /\ cert' = cert
      BY <1>11, <2>1, <2>12, Zenon DEF Prov!Written
    <2>3. nextFile \in Nat /\ files \subseteq Prov!File
      BY DEF ProvInv, FilesOK
    <2>4. files' = files \cup {[id |-> nextFile, kind |-> "crt", owner |-> p, ca |-> "current"],
                               [id |-> nextFile + 1, kind |-> "key", owner |-> p, ca |-> "current"]}
      <3>1. 1..2 = {1, 2} /\ nextFile + 1 - 1 = nextFile /\ nextFile + 2 - 1 = nextFile + 1
        BY <2>3
      <3>2. <<"crt", "key">>[1] = "crt" /\ <<"crt", "key">>[2] = "key"
        OBVIOUS
      <3>3. QED
        BY <2>2, <3>1, <3>2
    <2>5. nextFile \in Nat \ {0}
      BY DEF ProvInv, FilesOK
    <2>6. FilesOK'
      <3>1. files' \subseteq Prov!File /\ nextFile' \in Nat \ {0}
        BY <2>2, <2>3, <2>4 DEF Prov!File
      <3>2. \A f \in files' : 0 < f.id /\ f.id < nextFile' /\ (f.kind = "ca" <=> f.owner = Nobody)
        BY <2>2, <2>3, <2>4, <2>5 DEF ProvInv, FilesOK, Prov!File
      <3>3. \A f, g \in files' : f.id = g.id => f = g
        BY <2>3, <2>4 DEF ProvInv, FilesOK, Prov!File
      <3>4. Prov!CaExports' = Prov!CaExports
        BY <2>4 DEF Prov!CaExports
      <3>5. QED
        BY <3>1, <3>2, <3>3, <3>4 DEF ProvInv, FilesOK
    <2>7. Profiles(p)' = {} /\ \A f \in files' : f.id \in j.taken => f.owner = p
      BY <1>1, <1>4, <2>4 DEF Profiles, Prov!Own, CallOK, CallKnows
    <2>8. CallOK(p, m)'
      BY <1>6, <1>11, <2>2, <2>3, <2>7
    <2>9. \A f \in files' : f \in files \/ (f.owner = p /\ f.id >= nextFile /\ f.kind # "ca")
      BY <2>3, <2>4
    <2>10. QED
      BY <1>11, <2>2, <2>3, <2>6, <2>8, <2>9, WrittenKeeps
  <1>12. QED
    BY <1>8, <1>9, <1>10, <1>11

\* The ids of the files there are.
LEMMA IdsOK ==
  ASSUME ProvInv, NEW S \in SUBSET files
  PROVE  /\ Prov!Ids(S) \in SUBSET Nat /\ 0 \notin Prov!Ids(S)
         /\ \A id \in Prov!Ids(S) : id < nextFile
         /\ \A f \in files : f.id \in Prov!Ids(S) => f \in S
  BY DEF ProvInv, FilesOK, Prov!Ids, Prov!File

LEMMA TakesOK ==
  ASSUME ProvInv, NEW p, NEW j \in Calls, CallOK(p, j), NEW S \in SUBSET files,
         \A f \in S : f.owner = p, j.at \in {"inventory", "identify"}
  PROVE  LET k == [j EXCEPT !.taken = @ \cup Prov!Ids(S)] IN
         /\ k \in Calls /\ CallOK(p, k) /\ k.at = j.at /\ k.taken = j.taken \cup Prov!Ids(S)
         /\ k.named = j.named /\ k.since = j.since /\ k.left = j.left /\ k.found = j.found
         /\ k.unsafe = j.unsafe /\ k.error = j.error /\ k.result = j.result
  <1>1. PICK T \in SUBSET Nat : T = j.taken \cup Prov!Ids(S)
    BY IdsOK DEF Calls
  <1> DEFINE k == [j EXCEPT !.taken = T]
  <1>2. [j EXCEPT !.taken = @ \cup Prov!Ids(S)] = k
    BY <1>1 DEF Calls
  <1>3. /\ k \in Calls /\ k.taken = T /\ k.at = j.at /\ k.named = j.named /\ k.since = j.since
        /\ k.left = j.left /\ k.found = j.found /\ k.unsafe = j.unsafe /\ k.error = j.error
        /\ k.result = j.result /\ k.target = j.target /\ k.profile = j.profile
    BY DEF Calls
  <1> HIDE DEF k
  <1>4. CallKnows(p, k)
    BY <1>1, <1>3, IdsOK DEF CallOK, CallKnows
  <1>5. CallMade(p, k)
    BY <1>1, <1>3 DEF CallOK, CallMade
  <1>6. CallLeaves(p, k)
    BY <1>3 DEF CallOK, CallLeaves
  <1>7. QED
    BY <1>1, <1>2, <1>3, <1>4, <1>5, <1>6 DEF CallOK

LEMMA InventoryKeeps ==
  ASSUME Nobody \notin Provisioners, ProvInv, NEW p \in Provisioners, Prov!Inventory(p)
  PROVE  ProvInv'
  <1>1. PICK j \in Calls : j = job[p] /\ CallOK(p, j) /\ j.at = "inventory"
    BY DEF ProvInv, Prov!Inventory
  <1> DEFINE k == [j EXCEPT !.taken = Prov!Ids(Exports(p))]
  <1>2. PICK T \in SUBSET Nat : T = Prov!Ids(Exports(p))
    BY IdsOK DEF Exports, Prov!Own
  <1>3. /\ k \in Calls /\ k.taken = T /\ k.at = "inventory" /\ k.named = j.named
        /\ k.since = j.since /\ k.left = j.left /\ k.found = j.found /\ k.unsafe = j.unsafe
        /\ k.error = j.error /\ k.result = j.result
    BY <1>1, <1>2 DEF Calls
  <1>4. CallOK(p, k)
    <2>1. /\ \A id \in T : id < nextFile
          /\ \A f \in files : f.id \in T => f.owner = p
      BY <1>2, IdsOK DEF Exports, Prov!Own
    <2> HIDE DEF k
    <2>2. CallKnows(p, k)
      BY <1>1, <1>3, <2>1 DEF CallOK, CallKnows
    <2>3. CallMade(p, k)
      BY <1>1, <1>3 DEF CallOK, CallMade, Exporting, Nothing, Making
    <2>4. CallLeaves(p, k)
      BY <1>1, <1>3 DEF CallOK, CallLeaves, Exporting, Removing, Dropping, CallMade
    <2>5. QED
      BY <2>2, <2>3, <2>4 DEF CallOK
  <1>5. [k EXCEPT !.at = "findCa"] \in Calls /\ CallOK(p, [k EXCEPT !.at = "findCa"])
    <2> DEFINE n == [k EXCEPT !.at = "findCa"]
    <2> HIDE DEF k
    <2>1. /\ n \in Calls /\ n.taken = T /\ n.at = "findCa" /\ n.named = k.named
          /\ n.since = k.since /\ n.left = k.left /\ n.found = k.found /\ n.unsafe = k.unsafe
          /\ n.error = k.error /\ n.result = k.result
      BY <1>3 DEF Calls, Prov!Stages
    <2> HIDE DEF n
    <2>2. CallKnows(p, n)
      BY <1>3, <1>4, <2>1 DEF CallOK, CallKnows
    <2>3. CallMade(p, n)
      BY <1>2, <1>3, <1>4, <2>1 DEF CallOK, CallMade, Exporting, Nothing, Making
    <2>4. CallLeaves(p, n)
      BY <1>3, <1>4, <2>1 DEF CallOK, CallLeaves, CallMade, Exporting, Removing, Dropping
    <2>5. QED
      BY <2>1, <2>2, <2>3, <2>4 DEF CallOK, n
  <1>6. /\ UNCHANGED Prov!router
        /\ \/ Prov!Becomes(p, [k EXCEPT !.at = "findCa"])
           \/ Prov!Becomes(p, Prov!Failed(j, "router"))
           \/ Prov!Becomes(p, Prov!Failed(k, "router"))
    BY <1>1, Zenon DEF Prov!Inventory, Prov!Read, Exports
  <1>7. CASE Prov!Becomes(p, [k EXCEPT !.at = "findCa"])
    BY <1>5, <1>6, <1>7, StillKeeps
  <1>8. CASE Prov!Becomes(p, Prov!Failed(j, "router"))
    BY <1>1, <1>6, <1>8, FailedKeeps DEF Exporting
  <1>9. CASE Prov!Becomes(p, Prov!Failed(k, "router"))
    BY <1>3, <1>4, <1>6, <1>9, FailedKeeps DEF Exporting
  <1>10. QED
    BY <1>6, <1>7, <1>8, <1>9

\* A call on its way through the body that has both its exports noted.
LEMMA OnwardOK ==
  ASSUME NEW p, NEW j \in Calls, CallOK(p, j), j.at \in Exporting \ {"inventory"},
         NEW stage \in Exporting \ {"inventory"}, NEW t \in Nat,
         stage \in {"dropCa", "goneCa"} =>
           t < nextFile /\ \A f \in files : f.id = t => f.kind = "ca",
         stage = "baseline" => \A f \in Prov!CaExports : f.ca = "current"
  PROVE  LET n == [j EXCEPT !.target = t, !.at = stage] IN n \in Calls /\ CallOK(p, n)
  <1> DEFINE n == [j EXCEPT !.target = t, !.at = stage]
  <1>1. /\ n \in Calls /\ n.taken = j.taken /\ n.at = stage /\ n.named = j.named
        /\ n.since = j.since /\ n.left = j.left /\ n.found = j.found /\ n.unsafe = j.unsafe
        /\ n.error = j.error /\ n.result = j.result /\ n.target = t
    BY DEF Calls, Prov!Stages, Exporting
  <1> HIDE DEF n
  <1>2. CallKnows(p, n)
    BY <1>1 DEF CallOK, CallKnows, Exporting
  <1>3. CallMade(p, n)
    BY <1>1 DEF CallOK, CallMade, Exporting, Nothing, Making
  <1>4. CallLeaves(p, n)
    BY <1>1 DEF CallOK, CallLeaves, CallMade, Exporting, Removing, Dropping
  <1>5. QED
    BY <1>1, <1>2, <1>3, <1>4 DEF CallOK, n

LEMMA StageOK ==
  ASSUME NEW p, NEW j \in Calls, CallOK(p, j), j.at \in Exporting \ {"inventory"},
         NEW stage \in Exporting \ {"inventory"},
         stage \in {"dropCa", "goneCa"} => j.at \in {"dropCa", "goneCa"},
         stage = "baseline" => \A f \in Prov!CaExports : f.ca = "current"
  PROVE  [j EXCEPT !.at = stage] \in Calls /\ CallOK(p, [j EXCEPT !.at = stage])
  <1>1. PICK t \in Nat : t = j.target
    BY DEF Calls
  <1>2. [j EXCEPT !.at = stage] = [j EXCEPT !.target = t, !.at = stage]
    BY <1>1 DEF Calls
  <1>3. stage \in {"dropCa", "goneCa"} => t < nextFile /\ \A f \in files : f.id = t => f.kind = "ca"
    BY <1>1 DEF CallOK, CallKnows
  <1>4. /\ [j EXCEPT !.target = t, !.at = stage] \in Calls
        /\ CallOK(p, [j EXCEPT !.target = t, !.at = stage])
    BY <1>3, OnwardOK
  <1>5. QED
    BY <1>2, <1>4, Zenon

LEMMA FindCaKeeps ==
  ASSUME Nobody \notin Provisioners, ProvInv, NEW p \in Provisioners, Prov!FindCa(p)
  PROVE  ProvInv'
  <1>1. PICK j \in Calls : j = job[p] /\ CallOK(p, j) /\ j.at = "findCa"
    BY DEF ProvInv, Prov!FindCa
  <1>2. /\ UNCHANGED Prov!router
        /\ \/ Prov!Becomes(p, Prov!Failed(j, "router"))
           \/ Prov!Becomes(p, [j EXCEPT !.at = "exportCa"])
           \/ \E f \in Prov!CaExports : Prov!Becomes(p, [j EXCEPT !.target = f.id, !.at = "dropCa"])
    BY <1>1, Zenon DEF Prov!FindCa, Prov!Read
  <1>3. CASE Prov!Becomes(p, Prov!Failed(j, "router"))
    BY <1>1, <1>2, <1>3, FailedKeeps DEF Exporting
  <1>4. CASE Prov!Becomes(p, [j EXCEPT !.at = "exportCa"])
    <2>1. [j EXCEPT !.at = "exportCa"] \in Calls /\ CallOK(p, [j EXCEPT !.at = "exportCa"])
      BY <1>1, StageOK DEF Exporting
    <2>2. QED
      BY <1>2, <1>4, <2>1, StillKeeps
  <1>5. ASSUME NEW f \in Prov!CaExports, Prov!Becomes(p, [j EXCEPT !.target = f.id, !.at = "dropCa"])
        PROVE  ProvInv'
    <2>1. f.id \in Nat /\ f.id < nextFile /\ \A g \in files : g.id = f.id => g.kind = "ca"
      BY DEF ProvInv, FilesOK, Prov!CaExports, Prov!File
    <2>2. /\ [j EXCEPT !.target = f.id, !.at = "dropCa"] \in Calls
          /\ CallOK(p, [j EXCEPT !.target = f.id, !.at = "dropCa"])
      BY <1>1, <2>1, OnwardOK DEF Exporting
    <2>3. QED
      BY <1>2, <1>5, <2>2, StillKeeps
  <1>6. QED
    BY <1>2, <1>3, <1>4, <1>5

LEMMA DropCaKeeps ==
  ASSUME Nobody \notin Provisioners, ProvInv, NEW p \in Provisioners,
         Prov!DropCa(p) \/ Prov!GoneCa(p)
  PROVE  ProvInv'
  <1>1. PICK j \in Calls : j = job[p] /\ CallOK(p, j) /\ j.at \in {"dropCa", "goneCa"}
    BY DEF ProvInv, Prov!DropCa, Prov!GoneCa
  <1>2. /\ [j EXCEPT !.at = "goneCa"] \in Calls /\ CallOK(p, [j EXCEPT !.at = "goneCa"])
        /\ [j EXCEPT !.at = "exportCa"] \in Calls /\ CallOK(p, [j EXCEPT !.at = "exportCa"])
    <2>2. j.at \in Exporting \ {"inventory"}
      BY <1>1 DEF Exporting
    <2>3. /\ "goneCa" \in Exporting \ {"inventory"} /\ "exportCa" \in Exporting \ {"inventory"}
      BY DEF Exporting
    <2>4. QED
      BY <1>1, <2>2, <2>3, StageOK
  <1>3. \/ Prov!Removed(j.target) /\ Prov!Becomes(p, [j EXCEPT !.at = "goneCa"])
        \/ UNCHANGED Prov!router /\ Prov!Becomes(p, [j EXCEPT !.at = "goneCa"])
        \/ UNCHANGED Prov!router /\ Prov!Becomes(p, [j EXCEPT !.at = "exportCa"])
        \/ \E e \in {"router", "coordination"} :
              UNCHANGED Prov!router /\ Prov!Becomes(p, Prov!Failed(j, e))
    <2>1. "router" \in {"router", "coordination"} /\ "coordination" \in {"router", "coordination"}
      OBVIOUS
    <2>2. QED
      BY <1>1, <2>1, Zenon DEF Prov!DropCa, Prov!GoneCa, Prov!Send, Prov!Read
  <1>4. CASE Prov!Removed(j.target) /\ Prov!Becomes(p, [j EXCEPT !.at = "goneCa"])
    BY <1>2, <1>4, RemovedKeeps
  <1>5. CASE UNCHANGED Prov!router /\ Prov!Becomes(p, [j EXCEPT !.at = "goneCa"])
    BY <1>2, <1>5, StillKeeps
  <1>6. CASE UNCHANGED Prov!router /\ Prov!Becomes(p, [j EXCEPT !.at = "exportCa"])
    BY <1>2, <1>6, StillKeeps
  <1>7. ASSUME NEW e \in {"router", "coordination"},
               UNCHANGED Prov!router, Prov!Becomes(p, Prov!Failed(j, e))
        PROVE  ProvInv'
    BY <1>1, <1>7, FailedKeeps DEF Exporting
  <1>8. QED
    BY <1>3, <1>4, <1>5, <1>6, <1>7

\* The shared CA export, made or written over.
LEMMA FilledKeeps ==
  ASSUME Nobody \notin Provisioners, ProvInv, NEW p \in Provisioners, NEW n \in Calls,
         Prov!Becomes(p, n), CallOK(p, n), cert' = cert,
         \/ /\ Prov!CaExports = {} /\ nextFile' = nextFile + 1
            /\ files' = files \cup {[id |-> nextFile, kind |-> "ca", owner |-> Nobody,
                                     ca |-> "current"]}
         \/ /\ nextFile' = nextFile
            /\ files' = (files \ Prov!CaExports)
                          \cup {[f EXCEPT !.ca = "current"] : f \in Prov!CaExports}
  PROVE  ProvInv'
  <1>1. nextFile \in Nat \ {0} /\ files \subseteq Prov!File /\ nextFile' \in Nat \ {0}
        /\ nextFile =< nextFile'
    BY DEF ProvInv, FilesOK
  <1>2. ASSUME NEW f \in files', f \notin files
        PROVE  /\ f \in Prov!File /\ f.kind = "ca" /\ f.ca = "current" /\ f.owner = Nobody
               /\ \/ f.id = nextFile /\ nextFile < nextFile' /\ Prov!CaExports = {}
                  \/ \E g \in Prov!CaExports : /\ g.id = f.id /\ f = [g EXCEPT !.ca = "current"]
                                               /\ Prov!CaExports \cap files' \subseteq {f}
    <2>1. CASE f = [id |-> nextFile, kind |-> "ca", owner |-> Nobody, ca |-> "current"]
               /\ nextFile' = nextFile + 1 /\ Prov!CaExports = {}
      BY <1>1, <2>1 DEF Prov!File
    <2>2. ASSUME NEW g \in Prov!CaExports, f = [g EXCEPT !.ca = "current"],
                 files' = (files \ Prov!CaExports)
                            \cup {[h EXCEPT !.ca = "current"] : h \in Prov!CaExports}
          PROVE  /\ f \in Prov!File /\ f.kind = "ca" /\ f.ca = "current" /\ f.owner = Nobody
                 /\ g.id = f.id /\ Prov!CaExports \cap files' \subseteq {f}
      <3>1. g \in Prov!File /\ g \in files /\ g.kind = "ca" /\ g.owner = Nobody
        BY DEF ProvInv, FilesOK, Prov!CaExports
      <3>2. /\ f \in Prov!File /\ f.kind = "ca" /\ f.ca = "current" /\ f.owner = Nobody
            /\ g.id = f.id
        BY <2>2, <3>1 DEF Prov!File
      <3>3. \A h \in Prov!CaExports : h = g
        BY DEF ProvInv, FilesOK
      <3>4. QED
        BY <2>2, <3>2, <3>3
    <2>3. QED
      BY <1>2, <2>1, <2>2
  <1>3. FilesOK'
    <2>1. files' \subseteq Prov!File
      BY <1>1, <1>2
    <2>2. \A f \in files' : 0 < f.id /\ f.id < nextFile' /\ (f.kind = "ca" <=> f.owner = Nobody)
      <3> TAKE f \in files'
      <3>1. CASE f \in files
        BY <1>1, <3>1 DEF ProvInv, FilesOK, Prov!File
      <3>2. CASE f \notin files
        BY <1>1, <1>2, <3>2 DEF ProvInv, FilesOK, Prov!File, Prov!CaExports
      <3>3. QED
        BY <3>1, <3>2
    <2>3. \A f, g \in Prov!CaExports' : f = g
      <3> TAKE f, g \in Prov!CaExports'
      <3>1. f \in files' /\ g \in files' /\ f.kind = "ca" /\ g.kind = "ca"
        BY DEF Prov!CaExports
      <3>2. CASE f \in files /\ g \in files
        BY <3>1, <3>2 DEF ProvInv, FilesOK, Prov!CaExports
      <3>3. CASE f \notin files
        <4>1. CASE g \in files
          BY <1>2, <3>1, <3>3, <4>1 DEF Prov!CaExports
        <4>2. CASE g \notin files
          BY <1>1, <1>2, <3>1, <3>3, <4>2 DEF ProvInv, FilesOK, Prov!CaExports
        <4>3. QED
          BY <4>1, <4>2
      <3>4. CASE f \in files /\ g \notin files
        BY <1>2, <3>1, <3>4 DEF Prov!CaExports
      <3>5. QED
        BY <3>2, <3>3, <3>4
    <2>4. ASSUME NEW f \in files', NEW g \in files', f.id = g.id PROVE f = g
      <3>1. CASE f \in files /\ g \in files
        BY <2>4, <3>1 DEF ProvInv, FilesOK
      <3>2. CASE f \notin files /\ g \notin files
        BY <1>2, <2>3, <3>2 DEF Prov!CaExports
      <3>3. ASSUME NEW a \in files' \ files, NEW b \in files' \cap files, a.id = b.id PROVE a = b
        <4>1. b.id # nextFile /\ (\A c \in Prov!CaExports : c.id = b.id => c = b)
          BY <1>1 DEF ProvInv, FilesOK, Prov!File, Prov!CaExports
        <4>2. QED
          BY <1>2, <3>3, <4>1
      <3>4. QED
        BY <2>4, <3>1, <3>2, <3>3
    <2>5. QED
      BY <1>1, <2>1, <2>2, <2>3, <2>4 DEF FilesOK
  <1>4. ASSUME NEW q \in Provisioners PROVE QuietFor(q)
    <2>1. ASSUME NEW f \in files'
          PROVE  \/ f \in files
                 \/ f.id >= nextFile /\ f.owner # q
                 \/ f.owner = Nobody /\ \E g \in Prov!CaExports : g.id = f.id
      BY <1>1, <1>2
    <2>2. \A f \in Prov!CaExports' : f \in files \/ f.ca = "current"
      BY <1>2 DEF Prov!CaExports
    <2>3. QED
      BY <1>1, <2>1, <2>2 DEF QuietFor
  <1>5. CallOK(p, n)'
    BY <1>3, <1>4, QuietForKeeps DEF ProvInv, CallOK
  <1>6. QED
    BY <1>3, <1>4, <1>5, CallStep DEF ProvInv

LEMMA ExportCaKeeps ==
  ASSUME Nobody \notin Provisioners, ProvInv, NEW p \in Provisioners, Prov!ExportCa(p)
  PROVE  ProvInv'
  <1>1. PICK j \in Calls : j = job[p] /\ CallOK(p, j) /\ j.at = "exportCa"
    BY DEF ProvInv, Prov!ExportCa
  <1>2. PICK n \in Calls : n = [j EXCEPT !.at = "readCa"] /\ CallOK(p, n)
    BY <1>1, StageOK DEF Exporting
  <1>3. "router" \in {"router", "coordination"} /\ "coordination" \in {"router", "coordination"}
    OBVIOUS
  <1>4. PICK f \in Calls : f = Prov!Failed(j, "router") /\ CallOK(p, f)
    BY <1>1, <1>3, FailedOK DEF Exporting
  <1> DEFINE Made ==
        /\ cert' = cert
        /\ \/ /\ Prov!CaExports = {} /\ nextFile' = nextFile + 1
              /\ files' = files \cup {[id |-> nextFile, kind |-> "ca", owner |-> Nobody,
                                       ca |-> "current"]}
           \/ /\ nextFile' = nextFile
              /\ files' = (files \ Prov!CaExports)
                            \cup {[g EXCEPT !.ca = "current"] : g \in Prov!CaExports}
  <1>5. \/ Made /\ Prov!Becomes(p, n)
        \/ Made /\ Prov!Becomes(p, f)
        \/ UNCHANGED Prov!router /\ Prov!Becomes(p, f)
        \/ UNCHANGED Prov!router /\ Prov!Becomes(p, Prov!Failed(j, "coordination"))
    BY <1>1, <1>2, <1>4, Zenon DEF Prov!ExportCa, Prov!SendOrFail, Prov!Send
  <1>6. CASE Made /\ Prov!Becomes(p, n)
    BY <1>2, <1>6, FilledKeeps
  <1>7. CASE Made /\ Prov!Becomes(p, f)
    BY <1>4, <1>7, FilledKeeps
  <1>8. CASE UNCHANGED Prov!router /\ Prov!Becomes(p, f)
    BY <1>4, <1>8, StillKeeps
  <1>9. CASE UNCHANGED Prov!router /\ Prov!Becomes(p, Prov!Failed(j, "coordination"))
    BY <1>1, <1>3, <1>9, FailedKeeps DEF Exporting
  <1>10. QED
    BY <1>5, <1>6, <1>7, <1>8, <1>9

LEMMA ReadCaKeeps ==
  ASSUME Nobody \notin Provisioners, ProvInv, NEW p \in Provisioners, Prov!ReadCa(p)
  PROVE  ProvInv'
  <1>1. PICK j \in Calls : j = job[p] /\ CallOK(p, j) /\ j.at = "readCa"
    BY DEF ProvInv, Prov!ReadCa
  <1>2. /\ UNCHANGED Prov!router
        /\ \/ Prov!Becomes(p, Prov!Failed(j, "router"))
           \/ /\ \E f \in Prov!CaExports : f.ca = "current"
              /\ Prov!Becomes(p, [j EXCEPT !.at = "baseline"])
    BY <1>1, Zenon DEF Prov!ReadCa, Prov!Read
  <1>3. CASE Prov!Becomes(p, Prov!Failed(j, "router"))
    BY <1>1, <1>2, <1>3, FailedKeeps DEF Exporting
  <1>4. CASE /\ \E f \in Prov!CaExports : f.ca = "current"
             /\ Prov!Becomes(p, [j EXCEPT !.at = "baseline"])
    <2>1. \A f \in Prov!CaExports : f.ca = "current"
      BY <1>4 DEF ProvInv, FilesOK
    <2>2. [j EXCEPT !.at = "baseline"] \in Calls /\ CallOK(p, [j EXCEPT !.at = "baseline"])
      BY <1>1, <2>1, StageOK DEF Exporting
    <2>3. QED
      BY <1>2, <1>4, <2>2, StillKeeps
  <1>5. QED
    BY <1>2, <1>3, <1>4

LEMMA BaselineKeeps ==
  ASSUME Nobody \notin Provisioners, ProvInv, NEW p \in Provisioners, Prov!Baseline(p)
  PROVE  ProvInv'
  <1>1. PICK j \in Calls : j = job[p] /\ CallOK(p, j) /\ j.at = "baseline"
    BY DEF ProvInv, Prov!Baseline
  <1>2. PICK S \in SUBSET Nat : /\ S = Prov!Ids({f \in files : f.kind = "ovpn"})
                                /\ 0 \notin S /\ \A id \in S : id < nextFile
    BY IdsOK
  <1> DEFINE n == [j EXCEPT !.since = S, !.at = "profile"]
  <1>3. /\ n \in Calls /\ n.taken = j.taken /\ n.at = "profile" /\ n.named = j.named
        /\ n.since = S /\ n.left = j.left /\ n.found = j.found /\ n.unsafe = j.unsafe
        /\ n.error = j.error /\ n.result = j.result
    BY <1>2 DEF Calls, Prov!Stages
  <1>4. /\ UNCHANGED Prov!router
        /\ Prov!Becomes(p, n) \/ Prov!Becomes(p, Prov!Failed(j, "router"))
    BY <1>1, <1>2, Zenon DEF Prov!Baseline, Prov!Read
  <1> HIDE DEF n
  <1>5. CallOK(p, n)
    <2>1. CallKnows(p, n)
      BY <1>1, <1>2, <1>3 DEF CallOK, CallKnows, CallMade, Exporting
    <2>2. CallMade(p, n)
      BY <1>1, <1>2, <1>3 DEF CallOK, CallMade, Exporting, Nothing, Making, Prov!NoBaseline
    <2>3. CallLeaves(p, n)
      BY <1>1, <1>3 DEF CallOK, CallLeaves, CallMade, Exporting, Removing, Dropping
    <2>4. QED
      BY <2>1, <2>2, <2>3 DEF CallOK
  <1>6. CASE Prov!Becomes(p, n)
    BY <1>3, <1>4, <1>5, <1>6, StillKeeps
  <1>7. CASE Prov!Becomes(p, Prov!Failed(j, "router"))
    BY <1>1, <1>4, <1>7, FailedKeeps DEF Exporting
  <1>8. QED
    BY <1>4, <1>6, <1>7

\* A profile RouterOS has written, once or twice.
LEMMA ProfileWritten ==
  ASSUME Nobody \notin Provisioners, ProvInv, NEW p \in Provisioners, NEW j \in Calls,
         CallOK(p, j), j.at = "profile", NEW m \in Calls,
         /\ m.at \in {"identify", "inventoryLeft"} /\ m.named = j.named /\ m.taken = j.taken
         /\ m.left = j.left /\ m.since = j.since /\ m.found = j.found /\ m.unsafe = j.unsafe
         /\ m.result = j.result
         /\ (m.at = "identify" => m.error = "none")
         /\ (m.at = "inventoryLeft" => m.error # "none"),
         Prov!Becomes(p, m), NEW ca \in Prov!CaExports, NEW n \in {1, 2},
         files' = files \cup {[id |-> nextFile + i, kind |-> "ovpn", owner |-> p, ca |-> ca.ca] :
                              i \in 0..(n - 1)},
         nextFile' = nextFile + n, cert' = cert
  PROVE  ProvInv'
  <1>1. /\ nextFile \in Nat \ {0} /\ files \subseteq Prov!File /\ nextFile' \in Nat \ {0}
        /\ nextFile =< nextFile'
    BY DEF ProvInv, FilesOK
  <1>2. ca.ca = "current"
    BY DEF CallOK, CallKnows
  <1>3. ASSUME NEW f \in files'
        PROVE  \/ f \in files
               \/ /\ f \in Prov!File /\ f.owner = p /\ f.kind = "ovpn" /\ f.ca = "current"
                  /\ nextFile =< f.id /\ f.id < nextFile'
                  /\ f = [id |-> f.id, kind |-> "ovpn", owner |-> p, ca |-> "current"]
    <2>1. SUFFICES ASSUME NEW i \in 0..(n - 1),
                          f = [id |-> nextFile + i, kind |-> "ovpn", owner |-> p, ca |-> "current"]
                   PROVE  /\ f \in Prov!File /\ f.owner = p /\ f.kind = "ovpn" /\ f.ca = "current"
                          /\ nextFile =< f.id /\ f.id < nextFile'
                          /\ f = [id |-> f.id, kind |-> "ovpn", owner |-> p, ca |-> "current"]
      BY <1>2
    <2>2. i \in Nat /\ i < n
      OBVIOUS
    <2>3. QED
      BY <1>1, <2>1, <2>2 DEF Prov!File
  <1>4. FilesOK'
    <2>1. files' \subseteq Prov!File
      BY <1>1, <1>3
    <2>2. \A f \in files' : 0 < f.id /\ f.id < nextFile' /\ (f.kind = "ca" <=> f.owner = Nobody)
      BY <1>1, <1>3 DEF ProvInv, FilesOK, Prov!File
    <2>3. \A f, g \in Prov!CaExports' : f = g
      BY <1>3 DEF ProvInv, FilesOK, Prov!CaExports
    <2>4. ASSUME NEW f \in files', NEW g \in files', f.id = g.id PROVE f = g
      BY <1>1, <1>3, <2>4 DEF ProvInv, FilesOK, Prov!File
    <2>5. QED
      BY <1>1, <2>1, <2>2, <2>3, <2>4 DEF FilesOK
  <1>5. /\ Exports(p)' = Exports(p)
        /\ \A f \in Profiles(p)' : f.ca = "current" /\ f.id \notin j.since
    <2>1. Exports(p)' \subseteq Exports(p) /\ Exports(p) \subseteq Exports(p)'
      BY <1>3 DEF Exports, Prov!Own
    <2>2. Profiles(p) = {} /\ \A id \in j.since : id < nextFile
      BY DEF CallOK, CallMade, CallKnows
    <2>3. ASSUME NEW f \in Profiles(p)'
          PROVE  f.ca = "current" /\ f.id \notin j.since
      <3>1. f \in files' /\ f \notin files
        BY <2>2 DEF Profiles, Prov!Own
      <3>2. f.ca = "current" /\ nextFile =< f.id /\ f \in Prov!File
        BY <1>3, <3>1
      <3>3. \A id \in j.since : id < nextFile /\ id \in Nat
        BY <2>2 DEF Calls
      <3>4. QED
        BY <1>1, <3>2, <3>3 DEF Prov!File
    <2>4. QED
      BY <2>1, <2>3
  <1>6. CallKnows(p, m)'
    <2>1. \A id \in j.taken \cup j.left \cup j.since : id < nextFile'
      BY <1>1 DEF CallOK, CallKnows, Calls
    <2>2. \A f \in files' : f.id \in j.taken \cup j.left => f.owner = p
      BY <1>3 DEF CallOK, CallKnows
    <2>3. QED
      BY <1>5, <2>1, <2>2 DEF CallOK, CallKnows
  <1>7. CallMade(p, m)'
    <2>1. Prov!Ids(Exports(p))' = Prov!Ids(Exports(p))
      BY <1>5 DEF Prov!Ids
    <2>2. QED
      BY <1>5, <2>1 DEF CallOK, CallMade, Nothing, Exporting, Making, Prov!NoBaseline
  <1>8. CallLeaves(p, m)'
    BY DEF CallOK, CallMade, CallLeaves, Making, Removing, Dropping
  <1>9. \A f \in files' : f \in files \/ (f.owner = p /\ f.id >= nextFile /\ f.kind # "ca")
    BY <1>1, <1>3 DEF Prov!File
  <1>10. QED
    BY <1>1, <1>4, <1>6, <1>7, <1>8, <1>9, WrittenKeeps DEF CallOK

LEMMA ExportProfileKeeps ==
  ASSUME Nobody \notin Provisioners, ProvInv, NEW p \in Provisioners, Prov!ExportProfile(p)
  PROVE  ProvInv'
  <1>1. PICK j \in Calls : j = job[p] /\ CallOK(p, j) /\ j.at = "profile"
    BY DEF ProvInv, Prov!ExportProfile
  <1> DEFINE Fit(m) ==
        /\ m.at \in {"identify", "inventoryLeft"} /\ m.named = j.named /\ m.taken = j.taken
        /\ m.left = j.left /\ m.since = j.since /\ m.found = j.found /\ m.unsafe = j.unsafe
        /\ m.result = j.result
        /\ (m.at = "identify" => m.error = "none")
        /\ (m.at = "inventoryLeft" => m.error # "none")
  <1>2. PICK n \in Calls : n = [j EXCEPT !.at = "identify"] /\ Fit(n) /\ CallOK(p, n)
    <2> DEFINE n == [j EXCEPT !.at = "identify"]
    <2>1. /\ n \in Calls /\ n.at = "identify" /\ n.named = j.named /\ n.taken = j.taken
          /\ n.left = j.left /\ n.since = j.since /\ n.found = j.found /\ n.unsafe = j.unsafe
          /\ n.result = j.result /\ n.error = j.error
      BY DEF Calls, Prov!Stages
    <2> HIDE DEF n
    <2>2. Fit(n)
      BY <1>1, <2>1 DEF CallOK, CallMade, Making
    <2>3. CallKnows(p, n)
      BY <1>1, <2>1 DEF CallOK, CallKnows
    <2>4. CallMade(p, n)
      BY <1>1, <2>1 DEF CallOK, CallMade, Nothing, Exporting, Making
    <2>5. CallLeaves(p, n)
      BY <1>1, <2>1 DEF CallOK, CallMade, CallLeaves, Making, Removing, Dropping
    <2>6. QED
      BY <2>1, <2>2, <2>3, <2>4, <2>5 DEF CallOK, n
  <1>3. ASSUME NEW e \in {"router", "coordination"}
        PROVE  /\ Prov!Failed(j, e) \in Calls /\ Fit(Prov!Failed(j, e))
               /\ CallOK(p, Prov!Failed(j, e))
    <2>1. Prov!Failed(j, e) \in Calls /\ CallOK(p, Prov!Failed(j, e))
      BY <1>1, FailedOK DEF Making
    <2>2. Fit(Prov!Failed(j, e))
      BY DEF Prov!Failed, Calls
    <2>3. QED
      BY <2>1, <2>2
  <1> HIDE DEF Fit
  <1>4. \E m \in Calls :
          /\ m = n \/ \E e \in {"router", "coordination"} : m = Prov!Failed(j, e)
          /\ Prov!Becomes(p, m)
          /\ \/ UNCHANGED Prov!router
             \/ \E ca \in Prov!CaExports, k \in {1, 2} :
                  /\ files' = files \cup {[id |-> nextFile + i, kind |-> "ovpn", owner |-> p,
                                           ca |-> ca.ca] : i \in 0..(k - 1)}
                  /\ nextFile' = nextFile + k /\ cert' = cert
    <2>1. /\ "router" \in {"router", "coordination"} /\ "coordination" \in {"router", "coordination"}
          /\ 1 \in {1, 2} /\ 2 \in {1, 2}
      OBVIOUS
    <2>2. Prov!Failed(j, "router") \in Calls /\ Prov!Failed(j, "coordination") \in Calls
      BY <1>3, <2>1
    <2> DEFINE Write(k) ==
          \E ca \in Prov!CaExports :
             /\ files' = files \cup {[id |-> nextFile + i, kind |-> "ovpn", owner |-> p,
                                      ca |-> ca.ca] : i \in 0..(k - 1)}
             /\ nextFile' = nextFile + k /\ cert' = cert
    <2>3. \/ UNCHANGED Prov!router /\ Prov!Becomes(p, Prov!Failed(j, "router"))
          \/ Write(1) /\ Prov!Becomes(p, n)
          \/ (Write(1) \/ UNCHANGED Prov!router) /\ Prov!Becomes(p, Prov!Failed(j, "router"))
          \/ UNCHANGED Prov!router /\ Prov!Becomes(p, Prov!Failed(j, "coordination"))
          \/ Write(2) /\ Prov!Becomes(p, n)
      BY <1>1, <1>2, Zenon DEF Prov!ExportProfile, Prov!SendOrFail, Prov!Send
    <2>4. ASSUME NEW k \in {1, 2}, Write(k)
          PROVE  \E ca \in Prov!CaExports, h \in {1, 2} :
                   /\ files' = files \cup {[id |-> nextFile + i, kind |-> "ovpn", owner |-> p,
                                            ca |-> ca.ca] : i \in 0..(h - 1)}
                   /\ nextFile' = nextFile + h /\ cert' = cert
      BY <2>4, Zenon
    <2> HIDE DEF Write
    <2>5. QED
      BY <2>1, <2>2, <2>3, <2>4, Zenon
  <1>5. PICK m \in Calls :
          /\ m = n \/ \E e \in {"router", "coordination"} : m = Prov!Failed(j, e)
          /\ Prov!Becomes(p, m)
          /\ \/ UNCHANGED Prov!router
             \/ \E ca \in Prov!CaExports, k \in {1, 2} :
                  /\ files' = files \cup {[id |-> nextFile + i, kind |-> "ovpn", owner |-> p,
                                           ca |-> ca.ca] : i \in 0..(k - 1)}
                  /\ nextFile' = nextFile + k /\ cert' = cert
    BY <1>4, Zenon
  <1>6. Fit(m) /\ CallOK(p, m)
    BY <1>2, <1>3, <1>5
  <1>7. CASE UNCHANGED Prov!router
    BY <1>5, <1>6, <1>7, StillKeeps
  <1>8. ASSUME NEW ca \in Prov!CaExports, NEW k \in {1, 2},
               files' = files \cup {[id |-> nextFile + i, kind |-> "ovpn", owner |-> p,
                                     ca |-> ca.ca] : i \in 0..(k - 1)},
               nextFile' = nextFile + k, cert' = cert
        PROVE  ProvInv'
    BY <1>1, <1>5, <1>6, <1>8, ProfileWritten DEF Fit
  <1>9. QED
    BY <1>5, <1>7, <1>8

LEMMA IdentifyKeeps ==
  ASSUME Nobody \notin Provisioners, ProvInv, NEW p \in Provisioners, Prov!Identify(p)
  PROVE  ProvInv'
  <1>1. PICK j \in Calls : j = job[p] /\ CallOK(p, j) /\ j.at = "identify"
    BY DEF ProvInv, Prov!Identify
  <1>2. PICK S \in SUBSET files : S = Prov!Matching(p) /\ S = Profiles(p)
    BY <1>1 DEF Prov!Matching, Profiles, Prov!Own, CallOK, CallKnows
  <1> DEFINE k == [j EXCEPT !.taken = @ \cup Prov!Ids(S)]
  <1>3. /\ k \in Calls /\ CallOK(p, k) /\ k.at = j.at /\ k.taken = j.taken \cup Prov!Ids(S)
        /\ k.named = j.named /\ k.since = j.since /\ k.left = j.left /\ k.found = j.found
        /\ k.unsafe = j.unsafe /\ k.error = j.error /\ k.result = j.result
    <2>1. \A f \in S : f.owner = p
      BY <1>2 DEF Profiles, Prov!Own
    <2>2. QED
      BY <1>1, <2>1, TakesOK
  <1>4. /\ UNCHANGED Prov!router
        /\ \/ Prov!Becomes(p, Prov!Failed(j, "router"))
           \/ Prov!Becomes(p, Prov!Failed(k, "router"))
           \/ \E f \in S : /\ S = {f}
                           /\ Prov!Becomes(p, [k EXCEPT !.found = TRUE, !.profile = f, !.at = "verify"])
    BY <1>1, <1>2, Zenon DEF Prov!Identify, Prov!Read
  <1> HIDE DEF k
  <1>5. CASE Prov!Becomes(p, Prov!Failed(j, "router"))
    BY <1>1, <1>4, <1>5, FailedKeeps DEF Making
  <1>6. CASE Prov!Becomes(p, Prov!Failed(k, "router"))
    BY <1>1, <1>3, <1>4, <1>6, FailedKeeps DEF Making
  <1>7. ASSUME NEW f \in S, S = {f},
               Prov!Becomes(p, [k EXCEPT !.found = TRUE, !.profile = f, !.at = "verify"])
        PROVE  ProvInv'
    <2> DEFINE n == [k EXCEPT !.found = TRUE, !.profile = f, !.at = "verify"]
    <2>1. f \in Prov!File /\ f.owner = p /\ f.ca = "current"
      BY <1>1, <1>2 DEF ProvInv, FilesOK, CallOK, CallKnows, Profiles, Prov!Own
    <2>2. /\ n \in Calls /\ n.at = "verify" /\ n.taken = k.taken /\ n.named = k.named
          /\ n.since = k.since /\ n.left = k.left /\ n.found = TRUE /\ n.profile = f
          /\ n.unsafe = k.unsafe /\ n.error = k.error /\ n.result = k.result
      BY <1>3, <2>1 DEF Calls, Prov!Stages
    <2> HIDE DEF n
    <2>3. CallKnows(p, n)
      BY <1>1, <1>3, <2>2 DEF CallOK, CallKnows
    <2>4. CallMade(p, n)
      BY <1>1, <1>2, <1>3, <2>2 DEF CallOK, CallMade, Nothing, Exporting, Making
    <2>5. CallLeaves(p, n)
      BY <1>1, <1>3, <2>1, <2>2 DEF CallOK, CallMade, CallLeaves, Making, Removing, Dropping
    <2>6. QED
      BY <1>4, <1>7, <2>2, <2>3, <2>4, <2>5, StillKeeps DEF CallOK, n
  <1>8. QED
    BY <1>4, <1>5, <1>6, <1>7

LEMMA VerifyKeeps ==
  ASSUME Nobody \notin Provisioners, ProvInv, NEW p \in Provisioners, Prov!Verify(p)
  PROVE  ProvInv'
  <1>1. PICK j \in Calls : j = job[p] /\ CallOK(p, j) /\ j.at = "verify"
    BY DEF ProvInv, Prov!Verify
  <1> DEFINE n == [j EXCEPT !.at = "inventoryLeft"]
  <1>2. /\ UNCHANGED Prov!router
        /\ \/ Prov!Becomes(p, Prov!Failed(j, "router"))
           \/ cert[p] = "trusted" /\ Prov!Becomes(p, n)
    BY <1>1, Zenon DEF Prov!Verify, Prov!Read
  <1>3. CASE Prov!Becomes(p, Prov!Failed(j, "router"))
    BY <1>1, <1>2, <1>3, FailedKeeps DEF Making
  <1>4. CASE cert[p] = "trusted" /\ Prov!Becomes(p, n)
    <2>1. /\ n \in Calls /\ n.at = "inventoryLeft" /\ n.taken = j.taken /\ n.named = j.named
          /\ n.since = j.since /\ n.left = j.left /\ n.found = j.found /\ n.profile = j.profile
          /\ n.unsafe = j.unsafe /\ n.error = j.error /\ n.result = j.result
      BY DEF Calls, Prov!Stages
    <2> HIDE DEF n
    <2>2. CallKnows(p, n)
      BY <1>1, <2>1 DEF CallOK, CallKnows
    <2>3. CallMade(p, n)
      BY <1>1, <2>1 DEF CallOK, CallMade, Nothing, Exporting, Making
    <2>4. CallLeaves(p, n)
      BY <1>1, <1>4, <2>1 DEF CallOK, CallMade, CallLeaves, Making, Removing, Dropping
    <2>5. QED
      BY <1>2, <1>4, <2>1, <2>2, <2>3, <2>4, StillKeeps DEF CallOK
  <1>5. QED
    BY <1>2, <1>3, <1>4

LEMMA InventoryLeftKeeps ==
  ASSUME Nobody \notin Provisioners, ProvInv, NEW p \in Provisioners, Prov!InventoryLeft(p)
  PROVE  ProvInv'
  <1>1. PICK j \in Calls : j = job[p] /\ CallOK(p, j) /\ j.at = "inventoryLeft"
    BY DEF ProvInv, Prov!InventoryLeft
  <1>2. PICK L \in SUBSET Nat : L = j.left \cup j.taken
    BY DEF Calls
  <1> DEFINE n(u) == [j EXCEPT !.unsafe = u, !.left = L, !.at = "dropFile"]
  <1>3. \A u : [j EXCEPT !.unsafe = u, !.left = @ \cup j.taken, !.at = "dropFile"] = n(u)
    BY <1>2 DEF Calls
  <1>4. ASSUME NEW u \in BOOLEAN
        PROVE  /\ n(u) \in Calls /\ n(u).at = "dropFile" /\ n(u).taken = j.taken
               /\ n(u).named = j.named /\ n(u).since = j.since /\ n(u).left = L
               /\ n(u).found = j.found /\ n(u).profile = j.profile /\ n(u).unsafe = u
               /\ n(u).error = j.error /\ n(u).result = j.result
    BY DEF Calls, Prov!Stages
  <1>5. /\ UNCHANGED Prov!router
        /\ \/ Prov!Becomes(p, n(TRUE))
           \/ Prov!Becomes(p, n(Prov!Unidentified(p)))
           \/ /\ ~j.named /\ j.since = Prov!NoBaseline
              /\ Prov!Becomes(p, n(FALSE))
    <2>1. /\ UNCHANGED Prov!router
          /\ \/ Prov!Becomes(p, [j EXCEPT !.unsafe = TRUE, !.left = @ \cup j.taken, !.at = "dropFile"])
             \/ Prov!Becomes(p, [j EXCEPT !.unsafe = Prov!Unidentified(p), !.left = @ \cup j.taken,
                                          !.at = "dropFile"])
             \/ /\ ~(j.named \/ j.since # Prov!NoBaseline)
                /\ Prov!Becomes(p, [j EXCEPT !.unsafe = FALSE, !.left = @ \cup j.taken,
                                             !.at = "dropFile"])
      BY <1>1, Zenon DEF Prov!InventoryLeft, Prov!Read
    <2> HIDE DEF n
    <2>2. QED
      BY <1>3, <2>1, Zenon
  <1> HIDE DEF n
  <1>6. ASSUME ~Prov!Unidentified(p) \/ (~j.named /\ j.since = Prov!NoBaseline)
        PROVE  Prov!Ids(OwnFiles(p)) \subseteq L
    <2>1. OwnFiles(p) = Exports(p) \cup Profiles(p)
      BY DEF OwnFiles, Exports, Profiles, Prov!Own
    <2>2. ASSUME NEW f \in Exports(p) PROVE f.id \in L
      <3>1. j.named
        BY <1>1 DEF CallOK, CallMade
      <3>2. Prov!Ids(Prov!Own(p, {"crt", "key"})) \subseteq j.taken
        BY <1>1, <1>6, <3>1 DEF Prov!Unidentified
      <3>3. QED
        BY <1>2, <3>2 DEF Exports, Prov!Ids
    <2>3. ASSUME NEW f \in Profiles(p) PROVE f.id \in L
      <3>1. j.since # Prov!NoBaseline
        BY <1>1 DEF CallOK, CallMade
      <3>2. f \in files /\ f.kind = "ovpn" /\ f.id \notin j.since
        BY <1>1 DEF CallOK, CallKnows, Profiles, Prov!Own
      <3>3. CASE j.found
        BY <1>1, <1>2, <3>3 DEF CallOK, CallMade, Prov!Ids
      <3>4. CASE ~j.found
        BY <1>1, <1>2, <1>6, <3>1, <3>2, <3>4 DEF Prov!Unidentified
      <3>5. QED
        BY <3>3, <3>4 DEF Calls
    <2>4. QED
      BY <2>1, <2>2, <2>3 DEF Prov!Ids
  <1>7. ASSUME NEW u \in BOOLEAN, ~u => Prov!Ids(OwnFiles(p)) \subseteq L
        PROVE  n(u) \in Calls /\ CallOK(p, n(u))
    <2>1. CallKnows(p, n(u))
      BY <1>1, <1>2, <1>4, <1>7 DEF CallOK, CallKnows
    <2>2. CallMade(p, n(u))
      BY <1>1, <1>4, <1>7 DEF CallOK, CallMade, Nothing, Exporting, Making
    <2>3. CallLeaves(p, n(u))
      BY <1>1, <1>4, <1>7 DEF CallOK, CallLeaves, Removing, Dropping
    <2>4. QED
      BY <1>4, <1>7, <2>1, <2>2, <2>3 DEF CallOK
  <1>8. PICK u \in BOOLEAN : Prov!Becomes(p, n(u)) /\ (~u => Prov!Ids(OwnFiles(p)) \subseteq L)
    <2>1. Prov!Unidentified(p) \in BOOLEAN
      BY DEF Prov!Unidentified
    <2>2. QED
      BY <1>5, <1>6, <2>1
  <1>9. QED
    BY <1>5, <1>7, <1>8, StillKeeps

LEMMA FreshOK ==
  /\ Prov!Fresh \in Calls /\ Prov!Fresh.at = "create" /\ Prov!Fresh.taken = {}
  /\ Prov!Fresh.left = {} /\ Prov!Fresh.since = Prov!NoBaseline /\ Prov!Fresh.found = FALSE
  /\ Prov!Fresh.unsafe = FALSE /\ Prov!Fresh.error = "none" /\ Prov!Fresh.named = FALSE
  /\ Prov!Fresh.result = "pending"
  <1>1. PICK f \in Prov!File : f = Prov!NoProfile
    BY DEF Prov!NoProfile, Prov!File
  <1>2. Prov!NoBaseline \in SUBSET Nat
    <2>1. {0} \subseteq Nat
      OBVIOUS
    <2>2. QED
      BY <2>1 DEF Prov!NoBaseline
  <1>3. QED
    BY <1>1, <1>2 DEF Prov!Fresh, Calls, Prov!Stages, Prov!Results

\* An answer.
LEMMA EndedOK ==
  ASSUME ProvInv, NEW p \in Provisioners, NEW j \in Calls, j = job[p], CallOK(p, j),
         NEW result \in Prov!Results \ {"pending"},
         result = "profile" =>
           j.profile.owner = p /\ j.profile.ca = "current" /\ cert[p] = "trusted",
         result \in {"failed", "filesRemain"} => cert[p] = "none",
         result \in {"failed", "profile"} => OwnFiles(p) = {}
  PROVE  Prov!Ended(p, result) \in Calls /\ CallOK(p, Prov!Ended(p, result))
  <1> DEFINE n == Prov!Ended(p, result)
  <1>1. /\ n \in Calls /\ n.at = "done" /\ n.taken = {} /\ n.left = {}
        /\ n.since = Prov!NoBaseline /\ n.found = FALSE /\ n.profile = j.profile
        /\ n.unsafe = FALSE /\ n.error = "none" /\ n.result = result
    <2>1. PICK f \in Prov!File : f = j.profile
      BY DEF Calls
    <2>2. n = [Prov!Fresh EXCEPT !.profile = f, !.result = result, !.at = "done"]
      BY <2>1 DEF Prov!Ended
    <2> HIDE DEF n
    <2>3. PICK fresh \in Calls : /\ fresh = Prov!Fresh
                                 /\ fresh.taken = {} /\ fresh.left = {} /\ fresh.found = FALSE
                                 /\ fresh.since = Prov!NoBaseline
                                 /\ fresh.unsafe = FALSE /\ fresh.error = "none"
      BY FreshOK
    <2>4. n = [fresh EXCEPT !.profile = f, !.result = result, !.at = "done"]
      BY <2>2, <2>3
    <2>5. n \in Calls
      <3> DEFINE a == [fresh EXCEPT !.profile = f]
                 b == [a EXCEPT !.result = result]
      <3>1. n = [b EXCEPT !.at = "done"]
        BY <2>4
      <3>2. a \in Calls
        BY DEF Calls
      <3> HIDE DEF a
      <3>3. b \in Calls
        BY <3>2 DEF Calls
      <3> HIDE DEF b
      <3>4. [b EXCEPT !.at = "done"] \in Calls
        BY <3>3 DEF Calls, Prov!Stages
      <3>5. QED
        BY <3>1, <3>4
    <2>6. /\ n.at = "done" /\ n.profile = f /\ n.result = result
          /\ n.taken = fresh.taken /\ n.left = fresh.left
      BY <2>4 DEF Calls
    <2>7. /\ n.since = fresh.since /\ n.found = fresh.found /\ n.unsafe = fresh.unsafe
          /\ n.error = fresh.error
      BY <2>4 DEF Calls
    <2>8. QED
      BY <2>1, <2>3, <2>5, <2>6, <2>7
  <1> HIDE DEF n
  <1>2. CallKnows(p, n)
    <2>1. \A f \in Profiles(p) : f.id # 0 /\ f.ca = "current"
      BY DEF ProvInv, FilesOK, CallOK, CallKnows, Profiles, Prov!Own, Prov!File
    <2>2. \A id \in {0} : id < nextFile
      BY DEF ProvInv, FilesOK
    <2>3. QED
      BY <1>1, <2>1, <2>2 DEF CallKnows, Prov!NoBaseline
  <1>3. CallMade(p, n)
    BY <1>1 DEF CallMade, Nothing, Exporting, Making
  <1>4. CallLeaves(p, n)
    BY <1>1 DEF CallLeaves, Removing, Dropping
  <1>5. QED
    BY <1>1, <1>2, <1>3, <1>4 DEF CallOK, n

\* On the way through the finally block.
LEMMA FinallyOK ==
  ASSUME NEW p, NEW j \in Calls, CallOK(p, j), NEW n \in Calls,
         j.at \in Removing \cup Dropping, n.at \in Removing \cup Dropping,
         j.at \in Dropping => n.at \in Dropping,
         n.named = j.named, n.taken = j.taken, n.left \subseteq j.left, n.since = j.since,
         n.found = j.found, n.profile = j.profile, n.error = j.error, n.result = j.result,
         ~n.unsafe => ~j.unsafe,
         n.at = "goneFile" => n.target \in n.left,
         n.at = "dropFile" /\ ~n.unsafe =>
           \A f \in files : f.id \in j.left \ n.left => f.owner # p,
         n.at = "goneFile" => n.left = j.left,
         n.at \in Dropping => j.left = {} \/ j.at \in Dropping
  PROVE  CallOK(p, n)
  <1>1. CallKnows(p, n)
    BY DEF CallOK, CallKnows, Removing, Dropping
  <1>2. CallMade(p, n)
    BY DEF CallOK, CallMade, Nothing, Exporting, Making, Removing, Dropping
  <1>3. CallLeaves(p, n)
    <2>1. n.at \in Removing /\ ~n.unsafe => Prov!Ids(OwnFiles(p)) \subseteq n.left
      BY DEF CallOK, CallLeaves, Removing, Dropping, Prov!Ids, OwnFiles, Prov!Own
    <2>2. n.at \in Dropping /\ ~n.unsafe => OwnFiles(p) = {}
      BY DEF CallOK, CallLeaves, Removing, Dropping, Prov!Ids
    <2>3. QED
      BY <2>1, <2>2 DEF CallOK, CallLeaves, Removing, Dropping
  <1>4. QED
    BY <1>1, <1>2, <1>3 DEF CallOK

LEMMA DropFileKeeps ==
  ASSUME Nobody \notin Provisioners, ProvInv, NEW p \in Provisioners, Prov!DropFile(p)
  PROVE  ProvInv'
  <1>1. PICK j \in Calls : j = job[p] /\ CallOK(p, j) /\ j.at = "dropFile"
    BY DEF ProvInv, Prov!DropFile
  <1>2. ASSUME NEW stage \in Dropping, j.left = {}
        PROVE  [j EXCEPT !.at = stage] \in Calls /\ CallOK(p, [j EXCEPT !.at = stage])
    <2> DEFINE n == [j EXCEPT !.at = stage]
    <2>1. /\ n \in Calls /\ n.at = stage /\ n.named = j.named /\ n.taken = j.taken
          /\ n.left = j.left /\ n.since = j.since /\ n.found = j.found /\ n.profile = j.profile
          /\ n.error = j.error /\ n.result = j.result /\ n.unsafe = j.unsafe
      BY DEF Calls, Prov!Stages, Dropping
    <2> HIDE DEF n
    <2>2. CallOK(p, n)
      BY <1>1, <1>2, <2>1, FinallyOK DEF Removing, Dropping
    <2>3. QED
      BY <2>1, <2>2 DEF n
  <1>3. ASSUME NEW id \in j.left
        PROVE  /\ [j EXCEPT !.target = id, !.at = "goneFile"] \in Calls
               /\ CallOK(p, [j EXCEPT !.target = id, !.at = "goneFile"])
    <2> DEFINE n == [j EXCEPT !.target = id, !.at = "goneFile"]
    <2>1. /\ n \in Calls /\ n.at = "goneFile" /\ n.named = j.named /\ n.taken = j.taken
          /\ n.left = j.left /\ n.since = j.since /\ n.found = j.found /\ n.profile = j.profile
          /\ n.error = j.error /\ n.result = j.result /\ n.unsafe = j.unsafe /\ n.target = id
      BY DEF Calls, Prov!Stages
    <2> HIDE DEF n
    <2>2. CallOK(p, n)
      BY <1>1, <2>1, FinallyOK DEF Removing, Dropping
    <2>3. QED
      BY <2>1, <2>2 DEF n
  <1>4. Prov!Ended(p, "coordination") \in Calls /\ CallOK(p, Prov!Ended(p, "coordination"))
    BY <1>1, EndedOK DEF Prov!Results
  <1>5. \/ \E id \in j.left :
             /\ Prov!Removed(id) \/ UNCHANGED Prov!router
             /\ Prov!Becomes(p, [j EXCEPT !.target = id, !.at = "goneFile"])
        \/ UNCHANGED Prov!router /\ Prov!Becomes(p, Prov!Ended(p, "coordination"))
        \/ /\ j.left = {} /\ UNCHANGED Prov!router
           /\ Prov!Becomes(p, IF j.unsafe \/ j.error # "none"
                              THEN [j EXCEPT !.at = IF j.knows THEN "dropCert" ELSE "findCert"]
                              ELSE Prov!Ended(p, "profile"))
    BY <1>1, Zenon DEF Prov!DropFile, Prov!Send
  <1>6. ASSUME NEW id \in j.left, Prov!Removed(id) \/ UNCHANGED Prov!router,
               Prov!Becomes(p, [j EXCEPT !.target = id, !.at = "goneFile"])
        PROVE  ProvInv'
    BY <1>3, <1>6, StillKeeps, RemovedKeeps
  <1>7. CASE UNCHANGED Prov!router /\ Prov!Becomes(p, Prov!Ended(p, "coordination"))
    BY <1>4, <1>7, StillKeeps
  <1>8. CASE /\ j.left = {} /\ UNCHANGED Prov!router
             /\ Prov!Becomes(p, IF j.unsafe \/ j.error # "none"
                                THEN [j EXCEPT !.at = IF j.knows THEN "dropCert" ELSE "findCert"]
                                ELSE Prov!Ended(p, "profile"))
    <2>1. CASE j.unsafe \/ j.error # "none"
      <3>1. PICK stage \in Dropping : stage = IF j.knows THEN "dropCert" ELSE "findCert"
        BY DEF Dropping
      <3>2. Prov!Becomes(p, [j EXCEPT !.at = stage])
        BY <1>8, <2>1, <3>1
      <3>3. QED
        BY <1>2, <1>8, <3>2, StillKeeps
    <2>2. CASE ~(j.unsafe \/ j.error # "none")
      <3>1. /\ j.profile.owner = p /\ j.profile.ca = "current" /\ cert[p] = "trusted"
            /\ OwnFiles(p) = {}
        BY <1>1, <1>8, <2>2 DEF CallOK, CallLeaves, Removing, Prov!Ids
      <3>2. Prov!Ended(p, "profile") \in Calls /\ CallOK(p, Prov!Ended(p, "profile"))
        BY <1>1, <3>1, EndedOK DEF Prov!Results
      <3>3. Prov!Becomes(p, Prov!Ended(p, "profile"))
        BY <1>8, <2>2
      <3>4. QED
        BY <1>8, <3>2, <3>3, StillKeeps
    <2>3. QED
      BY <2>1, <2>2
  <1>9. QED
    BY <1>5, <1>6, <1>7, <1>8

LEMMA GoneFileKeeps ==
  ASSUME Nobody \notin Provisioners, ProvInv, NEW p \in Provisioners, Prov!GoneFile(p)
  PROVE  ProvInv'
  <1>1. PICK j \in Calls : j = job[p] /\ CallOK(p, j) /\ j.at = "goneFile"
    BY DEF ProvInv, Prov!GoneFile
  <1>2. PICK L \in SUBSET Nat : L = j.left \ {j.target}
    BY DEF Calls
  <1> DEFINE n(u) == [j EXCEPT !.left = L, !.at = "dropFile", !.unsafe = u]
  <1>3. ASSUME NEW u \in BOOLEAN, ~u => ~j.unsafe /\ j.target \notin Prov!Ids(files)
        PROVE  n(u) \in Calls /\ CallOK(p, n(u))
    <2>1. /\ n(u) \in Calls /\ n(u).at = "dropFile" /\ n(u).taken = j.taken
          /\ n(u).named = j.named /\ n(u).since = j.since /\ n(u).left = L
          /\ n(u).found = j.found /\ n(u).profile = j.profile /\ n(u).unsafe = u
          /\ n(u).error = j.error /\ n(u).result = j.result
      BY DEF Calls, Prov!Stages
    <2> HIDE DEF n
    <2>2. ~u => \A f \in files : f.id \in j.left \ L => f.owner # p
      BY <1>2, <1>3 DEF Prov!Ids
    <2>3. CallOK(p, n(u))
      BY <1>1, <1>2, <1>3, <2>1, <2>2, FinallyOK DEF Removing, Dropping
    <2>4. QED
      BY <2>1, <2>3
  <1>4. PICK u \in BOOLEAN : u = (j.unsafe \/ j.target \in Prov!Ids(files))
    BY DEF Prov!Ids
  <1>5. /\ UNCHANGED Prov!router
        /\ Prov!Becomes(p, n(u)) \/ Prov!Becomes(p, n(TRUE))
    <2> DEFINE next == [j EXCEPT !.left = @ \ {j.target}, !.at = "dropFile"]
    <2>1. /\ UNCHANGED Prov!router
          /\ \/ Prov!Becomes(p, [next EXCEPT !.unsafe = @ \/ j.target \in Prov!Ids(files)])
             \/ Prov!Becomes(p, [next EXCEPT !.unsafe = TRUE])
      BY <1>1, Zenon DEF Prov!GoneFile, Prov!Read
    <2>2. /\ [next EXCEPT !.unsafe = @ \/ j.target \in Prov!Ids(files)] = n(u)
          /\ [next EXCEPT !.unsafe = TRUE] = n(TRUE)
      BY <1>2, <1>4 DEF Calls
    <2> HIDE DEF n, next
    <2>3. QED
      BY <2>1, <2>2
  <1> HIDE DEF n
  <1>6. QED
    BY <1>3, <1>4, <1>5, StillKeeps

LEMMA CertGoneKeeps ==
  ASSUME Nobody \notin Provisioners, ProvInv, NEW p \in Provisioners,
         Prov!FindCert(p) \/ Prov!DropCert(p) \/ Prov!GoneCert(p)
  PROVE  ProvInv'
  <1>1. PICK j \in Calls : j = job[p] /\ CallOK(p, j) /\ j.at \in Dropping
    BY DEF ProvInv, Prov!FindCert, Prov!DropCert, Prov!GoneCert, Dropping
  <1>2. ASSUME NEW stage \in Dropping
        PROVE  /\ [j EXCEPT !.at = stage] \in Calls /\ CallOK(p, [j EXCEPT !.at = stage])
               /\ [j EXCEPT !.at = stage].at = stage
    <2> DEFINE n == [j EXCEPT !.at = stage]
    <2>1. /\ n \in Calls /\ n.at = stage /\ n.named = j.named /\ n.taken = j.taken
          /\ n.left = j.left /\ n.since = j.since /\ n.found = j.found /\ n.profile = j.profile
          /\ n.error = j.error /\ n.result = j.result /\ n.unsafe = j.unsafe
      BY DEF Calls, Prov!Stages, Dropping
    <2> HIDE DEF n
    <2>2. CallOK(p, n)
      BY <1>1, <2>1, FinallyOK DEF Removing, Dropping
    <2>3. QED
      BY <2>1, <2>2 DEF n
  <1>3. CASE Prov!FindCert(p)
    <2>1. PICK stage \in Dropping : stage = IF cert[p] = "none" THEN "goneCert" ELSE "dropCert"
      BY DEF Dropping
    <2>2. /\ UNCHANGED Prov!router
          /\ \/ Prov!Becomes(p, [j EXCEPT !.at = stage])
             \/ Prov!Becomes(p, Prov!Ended(p, "certRemains"))
      BY <1>1, <1>3, <2>1, Zenon DEF Prov!FindCert, Prov!Read
    <2>3. Prov!Ended(p, "certRemains") \in Calls /\ CallOK(p, Prov!Ended(p, "certRemains"))
      BY <1>1, EndedOK DEF Prov!Results
    <2>4. QED
      BY <1>2, <2>2, <2>3, StillKeeps
  <1>4. CASE Prov!DropCert(p)
    <2>1. PICK n \in Calls : n = [j EXCEPT !.at = "goneCert"] /\ CallOK(p, n) /\ n.at = "goneCert"
      BY <1>2 DEF Dropping
    <2>2. \/ Prov!CertBecomes(p, "none") /\ Prov!Becomes(p, n)
          \/ UNCHANGED Prov!router /\ Prov!Becomes(p, n)
          \/ UNCHANGED Prov!router /\ Prov!Becomes(p, Prov!Ended(p, "coordination"))
      BY <1>1, <1>4, <2>1, Zenon DEF Prov!DropCert, Prov!Send
    <2>3. Prov!Ended(p, "coordination") \in Calls /\ CallOK(p, Prov!Ended(p, "coordination"))
      BY <1>1, EndedOK DEF Prov!Results
    <2>4. CASE Prov!CertBecomes(p, "none") /\ Prov!Becomes(p, n)
      <3>1. n.at \in Dropping /\ "none" \in {"none", "created", "signed", "trusted"}
            /\ n.at # "inventoryLeft"
        BY <2>1 DEF Dropping
      <3>2. QED
        BY <2>1, <2>4, <3>1, CertKeeps
    <2>5. QED
      BY <2>1, <2>2, <2>3, <2>4, StillKeeps
  <1>5. CASE Prov!GoneCert(p)
    <2>1. PICK result \in Prov!Results :
            /\ Prov!Becomes(p, Prov!Ended(p, result)) /\ UNCHANGED Prov!router
            /\ result = "certRemains"
               \/ result = IF cert[p] # "none" THEN "certRemains"
                           ELSE IF j.unsafe THEN "filesRemain"
                           ELSE IF j.error = "coordination" THEN "coordination"
                           ELSE "failed"
      <3>1. {"certRemains", "filesRemain", "coordination", "failed"} \subseteq Prov!Results
        BY DEF Prov!Results
      <3>2. PICK r \in Prov!Results : r = IF cert[p] # "none" THEN "certRemains"
                                          ELSE IF j.unsafe THEN "filesRemain"
                                          ELSE IF j.error = "coordination" THEN "coordination"
                                          ELSE "failed"
        BY <3>1
      <3>3. /\ UNCHANGED Prov!router
            /\ \/ Prov!Becomes(p, Prov!Ended(p, r))
               \/ Prov!Becomes(p, Prov!Ended(p, "certRemains"))
        BY <1>1, <1>5, <3>2, Zenon DEF Prov!GoneCert, Prov!Read
      <3>4. QED
        BY <3>1, <3>2, <3>3
    <2>2. /\ result \in {"failed", "filesRemain"} => cert[p] = "none"
          /\ result = "failed" => ~j.unsafe
          /\ result # "profile" /\ result # "pending"
      BY <2>1
    <2>3. result = "failed" => OwnFiles(p) = {}
      BY <1>1, <2>2 DEF CallOK, CallLeaves
    <2>4. Prov!Ended(p, result) \in Calls /\ CallOK(p, Prov!Ended(p, result))
      BY <1>1, <2>2, <2>3, EndedOK
    <2>5. QED
      BY <2>1, <2>4, StillKeeps
  <1>6. QED
    BY <1>3, <1>4, <1>5

LEMMA ProvInit ==
  ASSUME Nobody \notin Provisioners, Prov!Init PROVE ProvInv
  <1> DEFINE old == [id |-> 1, kind |-> "ca", owner |-> Nobody, ca |-> "old"]
  <1>1. old \in Prov!File /\ old.id = 1 /\ old.kind = "ca" /\ old.owner = Nobody
    BY DEF Prov!File
  <1>2. files \subseteq {old} /\ nextFile = 2
    BY DEF Prov!Init
  <1> HIDE DEF old
  <1>3. FilesOK
    BY <1>1, <1>2 DEF FilesOK, Prov!CaExports
  <1>4. ASSUME NEW p \in Provisioners PROVE CallOK(p, Prov!Fresh)
    <2>1. OwnFiles(p) = {} /\ Exports(p) = {} /\ Profiles(p) = {}
      BY <1>1, <1>2 DEF OwnFiles, Exports, Profiles, Prov!Own
    <2>2. CallKnows(p, Prov!Fresh)
      BY <1>2, <2>1, FreshOK DEF CallKnows, Prov!NoBaseline
    <2>3. CallMade(p, Prov!Fresh)
      BY <2>1, FreshOK DEF CallMade, Nothing, Exporting, Making
    <2>4. CallLeaves(p, Prov!Fresh)
      BY <2>1, FreshOK DEF CallLeaves, Removing, Dropping
    <2>5. QED
      BY <2>2, <2>3, <2>4 DEF CallOK
  <1>5. QED
    BY <1>3, <1>4, FreshOK DEF Prov!Init, ProvInv

LEMMA ProvStep ==
  ASSUME Nobody \notin Provisioners, ProvInv, Prov!Next PROVE ProvInv'
  <1>1. PICK p \in Provisioners : Prov!Body(p) \/ Prov!Cleanup(p)
    BY DEF Prov!Next
  <1>2. CASE Prov!Body(p)
    BY <1>2, CreateKeeps, LocateKeeps, ExportKeeps, InventoryKeeps, FindCaKeeps, DropCaKeeps,
       ExportCaKeeps, ReadCaKeeps, BaselineKeeps, ExportProfileKeeps, IdentifyKeeps, VerifyKeeps
       DEF Prov!Body
  <1>3. CASE Prov!Cleanup(p)
    BY <1>3, InventoryLeftKeeps, DropFileKeeps, GoneFileKeeps, CertGoneKeeps DEF Prov!Cleanup
  <1>4. QED
    BY <1>1, <1>2, <1>3

LEMMA ProvInvariant == ASSUME Nobody \notin Provisioners PROVE Prov!Spec => []ProvInv
  <1>1. ProvInv /\ UNCHANGED Prov!vars => ProvInv'
    BY DEF Prov!vars, ProvInv, FilesOK, CallOK, CallKnows, CallMade, CallLeaves, OwnFiles,
           Exports, Profiles, Prov!Own, Prov!CaExports, Prov!Ids
  <1>2. QED
    BY <1>1, ProvInit, ProvStep, PTL DEF Prov!Spec

\* A profile that is returned embeds the certificate of its call, which the router
\* trusts, and the CA that is configured now, for any number of calls at once
\* (routeros.py:1290-1312, 1057).
THEOREM ReturnedProfileIsOwn ==
  ASSUME Nobody \notin Provisioners PROVE Prov!Spec => []Prov!ProfileIsOwn
  <1>1. ProvInv => Prov!ProfileIsOwn
    BY DEF ProvInv, CallOK, CallLeaves, Prov!ProfileIsOwn
  <1>2. QED
    BY <1>1, ProvInvariant, PTL

\* What a call leaves behind is what its ending says: a plain failure neither
\* certificate nor file, one that names files no certificate, a success no file
\* (routeros.py:1381-1447).
THEOREM EndingsSayWhatIsLeft ==
  ASSUME Nobody \notin Provisioners PROVE Prov!Spec => []Prov!EndingsAreHonest
  <1>1. ProvInv => Prov!EndingsAreHonest
    BY DEF ProvInv, CallOK, CallLeaves, Prov!EndingsAreHonest, OwnFiles
  <1>2. QED
    BY <1>1, ProvInvariant, PTL

\* What a step removes.
LEMMA WhatIsRemoved ==
  ASSUME NEW p, Prov!Body(p) \/ Prov!Cleanup(p)
  PROVE  \/ files \subseteq files'
         \/ files \ Prov!CaExports \subseteq files'
         \/ job[p].at = "dropCa" /\ Prov!Removed(job[p].target)
         \/ \E id \in job[p].left :
               /\ job[p].at = "dropFile" /\ Prov!Removed(id)
               /\ Prov!Becomes(p, [job[p] EXCEPT !.target = id, !.at = "goneFile"])
  <1>1. UNCHANGED Prov!router => files' = files
    BY DEF Prov!router
  <1>2. \A state : Prov!CertBecomes(p, state) => files' = files
    BY DEF Prov!CertBecomes
  <1>3. \A kinds : Prov!Written(p, kinds) => files \subseteq files'
    BY DEF Prov!Written
  <1>4. \A n, m : Prov!Read(p, n, m) => files' = files
    BY <1>1 DEF Prov!Read
  <1>5. CASE Prov!Create(p) \/ Prov!Sign(p) \/ Prov!Trust(p)
    BY <1>1, <1>2, <1>5, Zenon DEF Prov!Create, Prov!Sign, Prov!Trust, Prov!SendOrFail, Prov!Send
  <1>6. CASE Prov!Export(p)
    <2>1. Prov!Written(p, <<"crt", "key">>) \/ UNCHANGED Prov!router
      BY <1>6, Zenon DEF Prov!Export, Prov!Send
    <2>2. QED
      BY <1>1, <1>3, <2>1
  <1>7. CASE Prov!ExportCa(p)
    <2>1. \/ UNCHANGED Prov!router
          \/ files \subseteq files'
          \/ files' = (files \ Prov!CaExports)
                        \cup {[f EXCEPT !.ca = "current"] : f \in Prov!CaExports}
      <3>1. \A x : files' = files \cup x => files \subseteq files'
        OBVIOUS
      <3>2. QED
        BY <1>7, <3>1, Zenon DEF Prov!ExportCa, Prov!SendOrFail, Prov!Send
    <2>2. QED
      BY <1>1, <2>1
  <1>8. CASE Prov!ExportProfile(p)
    <2>1. \A x : files' = files \cup x => files \subseteq files'
      OBVIOUS
    <2>2. UNCHANGED Prov!router \/ files \subseteq files'
      BY <1>8, <2>1, Zenon DEF Prov!ExportProfile, Prov!SendOrFail, Prov!Send
    <2>3. QED
      BY <1>1, <2>2
  <1>9. CASE Prov!DropCa(p)
    <2>1. job[p].at = "dropCa" /\ (Prov!Removed(job[p].target) \/ UNCHANGED Prov!router)
      BY <1>9, Zenon DEF Prov!DropCa, Prov!Send
    <2>2. QED
      BY <1>1, <2>1
  <1>10. CASE Prov!DropFile(p)
    <2>1. \/ UNCHANGED Prov!router
          \/ \E id \in job[p].left :
               /\ job[p].at = "dropFile" /\ Prov!Removed(id)
               /\ Prov!Becomes(p, [job[p] EXCEPT !.target = id, !.at = "goneFile"])
      BY <1>10, Zenon DEF Prov!DropFile, Prov!Send
    <2>2. QED
      BY <1>1, <2>1
  <1>11. CASE Prov!DropCert(p)
    <2>1. Prov!CertBecomes(p, "none") \/ UNCHANGED Prov!router
      BY <1>11, Zenon DEF Prov!DropCert, Prov!Send
    <2>2. QED
      BY <1>1, <1>2, <2>1
  <1>12. CASE \/ Prov!Locate(p) \/ Prov!Inventory(p) \/ Prov!FindCa(p) \/ Prov!GoneCa(p)
              \/ Prov!ReadCa(p) \/ Prov!Baseline(p) \/ Prov!Identify(p) \/ Prov!Verify(p)
              \/ Prov!GoneFile(p) \/ Prov!FindCert(p) \/ Prov!GoneCert(p)
    <2>1. files' = files
      BY <1>4, <1>12, Zenon
         DEF Prov!Locate, Prov!Inventory, Prov!FindCa, Prov!GoneCa, Prov!ReadCa, Prov!Baseline,
             Prov!Identify, Prov!Verify, Prov!GoneFile, Prov!FindCert, Prov!GoneCert
    <2>2. QED
      BY <2>1
  <1>13. CASE Prov!InventoryLeft(p)
    <2>1. files' = files
      BY <1>1, <1>4, <1>13, Zenon DEF Prov!InventoryLeft
    <2>2. QED
      BY <2>1
  <1>14. QED
    BY <1>5, <1>6, <1>7, <1>8, <1>9, <1>10, <1>11, <1>12, <1>13 DEF Prov!Body, Prov!Cleanup

\* What a step of a call does to the failures there were.
LEMMA ProvMishaps ==
  ASSUME NEW p, Prov!Body(p) \/ Prov!Cleanup(p) PROVE UNCHANGED mishaps \/ Prov!Mishap
  <1>1. CASE Prov!Create(p) \/ Prov!Sign(p) \/ Prov!Trust(p) \/ Prov!Export(p)
    BY <1>1, Zenon
       DEF Prov!Create, Prov!Sign, Prov!Trust, Prov!Export, Prov!SendOrFail, Prov!Send
  <1>2. CASE Prov!DropCa(p) \/ Prov!ExportCa(p) \/ Prov!DropFile(p) \/ Prov!DropCert(p)
    BY <1>2, Zenon
       DEF Prov!DropCa, Prov!ExportCa, Prov!DropFile, Prov!DropCert, Prov!SendOrFail, Prov!Send
  <1>3. CASE Prov!ExportProfile(p)
    BY <1>3, Zenon DEF Prov!ExportProfile, Prov!SendOrFail, Prov!Send
  <1>4. \A n, m : Prov!Read(p, n, m) => UNCHANGED mishaps \/ Prov!Mishap
    BY Zenon DEF Prov!Read
  <1>5. CASE \/ Prov!Locate(p) \/ Prov!Inventory(p) \/ Prov!FindCa(p) \/ Prov!GoneCa(p)
             \/ Prov!ReadCa(p) \/ Prov!Baseline(p) \/ Prov!Identify(p) \/ Prov!Verify(p)
             \/ Prov!GoneFile(p) \/ Prov!FindCert(p) \/ Prov!GoneCert(p)
    BY <1>4, <1>5, Zenon
       DEF Prov!Locate, Prov!Inventory, Prov!FindCa, Prov!GoneCa, Prov!ReadCa, Prov!Baseline,
           Prov!Identify, Prov!Verify, Prov!GoneFile, Prov!FindCert, Prov!GoneCert
  <1>6. CASE Prov!InventoryLeft(p)
    BY <1>4, <1>6, Zenon DEF Prov!InventoryLeft
  <1>7. QED
    BY <1>1, <1>2, <1>3, <1>5, <1>6 DEF Prov!Body, Prov!Cleanup

\* The calls, the certificates and the router's files keep their types.
THEOREM ProvisioningHasTypes ==
  ASSUME Nobody \notin Provisioners, MaxProfileMishaps \in Nat PROVE Prov!Spec => []Prov!TypeOK
  <1> DEFINE Counted == mishaps \in 0..MaxProfileMishaps
  <1>1. Prov!Init => Counted
    BY DEF Prov!Init
  <1>2. Counted /\ [Prov!Next]_Prov!vars => Counted'
    <2>1. ASSUME Counted, UNCHANGED mishaps \/ Prov!Mishap PROVE Counted'
      BY <2>1 DEF Prov!Mishap
    <2>2. QED
      BY <2>1, ProvMishaps DEF Prov!Next, Prov!vars
  <1>3. ProvInv /\ Counted => Prov!TypeOK
    BY DEF ProvInv, FilesOK, Calls, Prov!TypeOK
  <1>4. QED
    BY <1>1, <1>2, <1>3, ProvInvariant, PTL DEF Prov!Spec

\* No call removes a file another one made, but for the shared CA export
\* (routeros.py:1316-1320, 1403-1406).
THEOREM OthersFilesAreLeft ==
  ASSUME Nobody \notin Provisioners PROVE Prov!Spec => Prov!OthersFilesStand
  <1>1. ProvInv /\ [Prov!Next]_Prov!vars => [Prov!OthersFilesStandStep]_Prov!vars
    <2> SUFFICES ASSUME ProvInv, Prov!Next, NEW f \in files, f \notin files'
                 PROVE  f.kind = "ca" \/ job[f.owner] # job'[f.owner]
      BY DEF Prov!OthersFilesStandStep
    <2>1. PICK p \in Provisioners : Prov!Body(p) \/ Prov!Cleanup(p)
      BY DEF Prov!Next
    <2>2. PICK j \in Calls : j = job[p] /\ CallOK(p, j)
      BY <2>1 DEF ProvInv
    <2>3. CASE files \ Prov!CaExports \subseteq files'
      BY <2>3 DEF Prov!CaExports
    <2>4. CASE j.at = "dropCa" /\ Prov!Removed(j.target)
      BY <2>2, <2>4 DEF Prov!Removed, CallOK, CallKnows
    <2>5. ASSUME NEW id \in j.left, j.at = "dropFile", Prov!Removed(id),
                 Prov!Becomes(p, [j EXCEPT !.target = id, !.at = "goneFile"])
          PROVE  job[f.owner] # job'[f.owner]
      <3>1. f.id = id /\ f.owner = p
        BY <2>2, <2>5 DEF Prov!Removed, CallOK, CallKnows
      <3>2. job'[p] = [j EXCEPT !.target = id, !.at = "goneFile"]
        BY <2>5 DEF Prov!Becomes, ProvInv
      <3>3. job'[p].at = "goneFile"
        BY <3>2 DEF Calls
      <3>4. QED
        BY <2>2, <2>5, <3>1, <3>3
    <2>6. QED
      BY <2>1, <2>2, <2>3, <2>4, <2>5, WhatIsRemoved
  <1>2. QED
    BY <1>1, ProvInvariant, PTL DEF Prov!Spec, Prov!OthersFilesStand

-----------------------------------------------------------------------------
(* Creating and deleting an account, its device profiles *)
(* A request relies on what it holds the lock of and on what nothing takes *)
(* back: an id that RouterOS gave is not given again, a revoked certificate *)
(* stays revoked.  Moves(a) is what a step of a may do to that, and FlowInv *)
(* is kept because each step is such a move and leaves the others' part.   *)

Workflows ==
  [kind : AccountKinds \cup {"none"},
   at : {"idle"} \cup Account!CreateStages \cup Account!IssueStages
          \cup Account!DeleteStages \cup Account!RevokeStages,
   keys : SUBSET Account!Keys, id : {0} \cup Account!Ids, cert : {0} \cup Account!Certs,
   todo : SUBSET Account!Certs, listed : SUBSET Tunnels, rate : BOOLEAN,
   rateBefore : BOOLEAN, confirmed : BOOLEAN, lost : BOOLEAN,
   certCleanup : {"verified", "mismatch", "unknown"}, absent : {"yes", "no", "unknown"},
   recovery : Account!Verdicts, verdict : Account!Verdicts]

\* Stages at which a request may still remove an account.
Before == {"rate", "put", "whichId", "store", "profile", "record", "deliver", "undoCert",
           "undoneCert", "undoAccount", "undoFound", "disable", "disabled", "listTunnels",
           "disconnect", "disconnected", "revokeNext", "revokedNext", "deleteAccount"}
MayRemove(r) == r.at \in Before \/ (r.at = "absent" /\ r.id = 0)
Removers == {w \in Workers : MayRemove(req[w])}

\* Each addition to the router follows a removal, and a request removes once.
IdsLeft ==
  /\ IsFiniteSet(Removers)
  /\ nextId + Cardinality(Removers) + (IF account.id = 0 THEN 1 ELSE 0) =< begun + 2

\* What the stage of a request says of its own data.
Closing == {"undoAccount", "absent", "undoFound", "relist", "rateLeft", "forget"}
Storing == {"store", "profile", "record", "deliver"}
WithCert == {"record", "deliver", "undoCert", "undoneCert", "issueRecord", "issueDeliver",
             "issueUndo", "issueUndone", "issueLocal", "revokedNext", "revoke", "revoked"}
FlowShape(r) ==
  /\ r.at = "idle" => r.keys = {}
  /\ r.at # "idle" => r.verdict = "none"
  /\ r.at \in Account!CreateStages => r.kind = "create" /\ r.keys = {Account!Gate, Account!Name}
  /\ r.at \in Account!IssueStages =>
       r.kind = "issue" /\ r.keys = {Account!IdKey(r.id)} /\ r.id # 0
  /\ r.at \in Account!DeleteStages =>
       r.kind = "delete" /\ r.keys = {Account!IdKey(r.id), Account!Name} /\ r.id # 0
  /\ r.at \in Account!RevokeStages => r.kind = "revoke" /\ r.keys = {}
  /\ r.at \in WithCert => r.cert # 0
  /\ r.at \in {"rate", "put", "whichId", "store", "profile"} => r.cert = 0
  /\ r.at \in {"rate", "put", "whichId"} => r.id = 0
  /\ r.at \in Storing \cup {"undoCert", "undoneCert", "undoFound"} => r.id # 0
  /\ r.at = "whichId" => r.confirmed
  /\ r.at \in {"rate", "put"} => ~r.confirmed
  /\ r.at = "rate" => r.rate
  /\ r.at \in Storing \cup {"rate", "put", "whichId"} => ~r.lost
  /\ r.at \in {"deleteAccount", "gone", "clear"} => r.todo = {}

Owns(w, r) == \A k \in r.keys : holder[k] = w
Sure(w, r) == ~r.lost /\ Owns(w, r)

\* What a request knows of the account and the certificate it names.
FlowKnows(w, r) ==
  /\ r.id < nextId
  /\ r.cert # 0 => cert[r.cert] # "none"
  /\ r.at \in {"record", "issueRecord"} => made[r.cert] = r.id
  /\ r.at \in Closing \cup {"issueLocal"} /\ r.certCleanup = "verified" /\ r.cert # 0 =>
       cert[r.cert] = "revoked"

\* What a creation, and its compensation, may rely on.
CreateKnows(w, r) ==
  /\ account.id # 0 /\ account.by = w /\ r.id # 0 => account.id = r.id
  /\ r.at \in {"rateLeft", "forget"} /\ r.absent = "yes" /\ account.id # 0 => account.by # w
  /\ r.at = "forget" /\ r.recovery = "recovered" =>
       r.absent = "yes" /\ r.certCleanup = "verified"
CreateOwns(w, r) ==
  /\ account.id \notin registered
  /\ account.id = r.id /\ r.id # 0 => account.by = w
  /\ r.at \in {"whichId", "undoAccount", "absent"} /\ r.confirmed /\ r.id = 0 =>
       account.id # 0 /\ account.by = w
  /\ r.at \in Storing => account.id = r.id
  /\ r.at \in Storing \ {"store"} => settings = r.id
  /\ r.at = "forget" /\ r.recovery = "recovered" /\ r.rate => rateSet = r.rateBefore

\* No certificate made for the account has a row that is neither closed nor in S.
ClosedBut(id, S) ==
  \A c \in Account!Certs :
    made[c] = id /\ device[c] # "none" => device[c] = "revoked" \/ c \in S

FlowRelies(w, r) ==
  /\ r.at \in Account!CreateStages => CreateKnows(w, r) /\ (Sure(w, r) => CreateOwns(w, r))
  /\ r.at \in Account!IssueStages /\ Owns(w, r) =>
       account.id = r.id /\ holder[Account!Gate] = Nobody
  /\ r.at \in Account!DeleteStages =>
       /\ \A c \in r.todo : cert[c] # "none"
       /\ Owns(w, r) => ClosedBut(r.id, r.todo)
  /\ r.at = "clear" => account.id # r.id /\ (Owns(w, r) => account.id \notin registered)

\* What the answer of a request claims.
FlowSays(w, r) ==
  /\ r.kind = "delete" /\ r.verdict = "success" =>
       r.id # 0 /\ account.id # r.id /\ ClosedBut(r.id, {})
  /\ r.kind = "create" /\ r.verdict = "recovered" =>
       /\ account.id # 0 => account.by # w
       /\ r.cert # 0 => cert[r.cert] = "revoked"

Flow(w, r) == FlowKnows(w, r) /\ FlowRelies(w, r) /\ FlowSays(w, r)

RowsOK ==
  \A c \in Account!Certs : /\ device[c] = "revoked" => cert[c] = "revoked"
                           /\ device[c] # "none" => cert[c] # "none"
NumbersOK ==
  /\ account.id < nextId /\ registered \subseteq 1..(nextId - 1)
  /\ account.id \in registered => settings = account.id

WorldTyped ==
  /\ account \in [id : {0} \cup Account!Ids, disabled : BOOLEAN, by : Workers \cup {Nobody}]
  /\ rateSet \in BOOLEAN
  /\ tunnels \subseteq Tunnels
  /\ cert \in [Account!Certs -> {"none", "active", "revoked"}]
  /\ made \in [Account!Certs -> {0} \cup Account!Ids]
  /\ nextId \in Nat \ {0, 1}
  /\ device \in [Account!Certs -> {"none", "active", "revoked"}]
  /\ settings \in {0} \cup Account!Ids
  /\ registered \subseteq Account!Ids
  /\ holder \in [Account!Keys -> Workers \cup {Nobody}]
  /\ begun \in 0..MaxAccountRequests
  /\ mishaps \in 0..MaxAccountMishaps
World == WorldTyped /\ RowsOK /\ NumbersOK

FlowInv ==
  /\ World /\ IdsLeft
  /\ req \in [Workers -> Workflows]
  /\ \A w \in Workers : FlowShape(req[w]) /\ Flow(w, req[w])

-----------------------------------------------------------------------------
\* What a step of a does to the world, as far as others may notice.
Moves(a) ==
  /\ \A k \in Account!Keys : holder'[k] # holder[k] => holder'[k] \in {a, Nobody}
  /\ holder'[Account!Gate] # Nobody => holder[Account!Gate] # Nobody \/ account.id = 0
  /\ \/ account'.id = account.id /\ account'.by = account.by
     \/ account.id = 0 /\ account'.id = nextId /\ account'.by \in {a, Nobody}
     \/ /\ account'.id = 0 /\ a # Nobody /\ holder[Account!Name] = a
        /\ holder[Account!Gate] = a \/ holder[Account!IdKey(account.id)] = a
  /\ registered' = registered \/ holder[Account!Name] = a
  /\ settings' = settings \/ holder[Account!Name] = a
  /\ rateSet' = rateSet \/ holder[Account!Name] = a
  /\ \A c \in Account!Certs :
       /\ cert[c] # "none" => cert'[c] # "none"
       /\ cert[c] = "revoked" => cert'[c] = "revoked"
       /\ made'[c] = made[c] \/ cert[c] = "none"
       /\ \/ device'[c] = device[c] \/ device'[c] = "revoked"
          \/ /\ account.id = made[c] /\ made'[c] = made[c]
             /\ holder[Account!Name] = a \/ holder[Account!IdKey(made[c])] = a
  /\ nextId =< nextId'

\* Rows of the account whose lock a does not hold are closed and not opened.
LEMMA ClosedStays ==
  ASSUME World, NEW a, Moves(a), NEW id, NEW S \in SUBSET Account!Certs,
         holder[Account!Name] # a \/ account.id # id,
         holder[Account!IdKey(id)] # a \/ account.id # id,
         ClosedBut(id, S)
  PROVE  ClosedBut(id, S)'
  <1> SUFFICES ASSUME NEW c \in Account!Certs, made'[c] = id, device'[c] # "none",
                      device'[c] # "revoked"
               PROVE  c \in S
    BY DEF ClosedBut
  <1>1. device'[c] = device[c]
    BY DEF Moves
  <1>2. cert[c] # "none" /\ made'[c] = made[c]
    BY <1>1 DEF World, RowsOK, Moves
  <1>3. QED
    BY <1>1, <1>2 DEF ClosedBut

LEMMA KeysOK ==
  /\ Account!Gate \in Account!Keys /\ Account!Name \in Account!Keys
  /\ \A id \in Account!Ids : Account!IdKey(id) \in Account!Keys
  BY DEF Account!Keys

\* What another request relies on stays so.
LEMMA OwnsLess ==
  ASSUME World, NEW a, Moves(a), NEW v \in Workers, v # a, v # Nobody,
         NEW r \in Workflows, Owns(v, r)'
  PROVE  Owns(v, r)
  BY DEF Owns, Moves, Workflows

LEMMA KnowsStays ==
  ASSUME World, World', NEW a, Moves(a), NEW v \in Workers, NEW r \in Workflows, FlowShape(r),
         FlowKnows(v, r)
  PROVE  FlowKnows(v, r)'
  <1>1. r.cert \in {0} \cup Account!Certs /\ r.id \in {0} \cup Account!Ids
    BY DEF Workflows
  <1>2. r.cert # 0 => /\ cert'[r.cert] # "none" /\ made'[r.cert] = made[r.cert]
                      /\ cert[r.cert] = "revoked" => cert'[r.cert] = "revoked"
    BY <1>1 DEF Moves, FlowKnows
  <1>3. r.id < nextId'
    BY <1>1 DEF Moves, FlowKnows, World, WorldTyped, Account!Ids
  <1>4. QED
    BY <1>2, <1>3 DEF FlowKnows, FlowShape, WithCert

LEMMA CreateStays ==
  ASSUME World, World', NEW a, Moves(a), NEW v \in Workers, v # a, v # Nobody, NEW r \in Workflows,
         FlowShape(r), r.at \in Account!CreateStages, FlowKnows(v, r), CreateKnows(v, r),
         Sure(v, r) => CreateOwns(v, r)
  PROVE  CreateKnows(v, r)' /\ (Sure(v, r) => CreateOwns(v, r))'
  <1>1. r.id \in {0} \cup Account!Ids /\ r.id < nextId
    BY DEF FlowKnows, Workflows
  <1>2. CreateKnows(v, r)'
    BY <1>1 DEF CreateKnows, Moves, World, WorldTyped, Account!Ids
  <1>3. ASSUME Sure(v, r)' PROVE CreateOwns(v, r)'
    <2>1. Sure(v, r) /\ holder[Account!Name] = v /\ holder[Account!Gate] = v
      BY <1>3, OwnsLess DEF Sure, FlowShape, Owns
    <2>2. /\ \/ account'.id = account.id /\ account'.by = account.by
             \/ account.id = 0 /\ account'.id = nextId /\ account'.by \in {a, Nobody}
          /\ registered' = registered /\ settings' = settings /\ rateSet' = rateSet
      BY <2>1 DEF Moves
    <2>3. nextId \notin registered
      BY DEF World, NumbersOK, WorldTyped
    <2>4. \/ account'.id = account.id /\ account'.by = account.by
          \/ r.id # account'.id /\ r.at \notin Storing /\ account.id = 0
      BY <1>1, <2>1, <2>2 DEF FlowShape, World, WorldTyped, Account!Ids, CreateOwns
    <2>5. QED
      BY <2>1, <2>2, <2>3, <2>4 DEF CreateOwns
  <1>4. QED
    BY <1>2, <1>3

LEMMA ReliesStays ==
  ASSUME World, World', NEW a, Moves(a), NEW v \in Workers, v # a, v # Nobody, NEW r \in Workflows,
         FlowShape(r), FlowKnows(v, r), FlowRelies(v, r)
  PROVE  FlowRelies(v, r)'
  <1>1. r.id \in {0} \cup Account!Ids /\ r.id < nextId /\ r.todo \in SUBSET Account!Certs
    BY DEF FlowKnows, Workflows
  <1>2. r.at \in Account!CreateStages => CreateKnows(v, r)' /\ (Sure(v, r) => CreateOwns(v, r))'
    BY CreateStays DEF FlowRelies
  <1>3. ASSUME r.at \in Account!IssueStages, Owns(v, r)'
        PROVE  account'.id = r.id /\ holder'[Account!Gate] = Nobody
    <2>1. /\ Owns(v, r) /\ holder[Account!IdKey(r.id)] = v /\ r.id # 0
          /\ account.id = r.id /\ holder[Account!Gate] = Nobody
      BY <1>3, OwnsLess DEF FlowShape, Owns, FlowRelies
    <2>2. QED
      BY <1>1, <2>1, KeysOK DEF Moves, World, WorldTyped, Account!Ids
  <1>4. ASSUME r.at \in Account!DeleteStages
        PROVE  /\ \A c \in r.todo : cert'[c] # "none"
               /\ Owns(v, r)' => ClosedBut(r.id, r.todo)'
    <2>1. \A c \in r.todo : cert'[c] # "none"
      BY <1>1, <1>4 DEF FlowRelies, Moves
    <2>2. ASSUME Owns(v, r)' PROVE ClosedBut(r.id, r.todo)'
      <3>1. /\ Owns(v, r) /\ holder[Account!IdKey(r.id)] = v /\ holder[Account!Name] = v
        BY <1>4, <2>2, OwnsLess DEF FlowShape, Owns
      <3>2. QED
        BY <1>1, <1>4, <3>1, ClosedStays DEF FlowRelies
    <2>3. QED
      BY <2>1, <2>2
  <1>5. ASSUME r.at = "clear"
        PROVE  account'.id # r.id /\ (Owns(v, r)' => account'.id \notin registered')
    <2>1. account.id # r.id /\ r.id # 0
      BY <1>5 DEF FlowRelies, FlowShape, Account!DeleteStages
    <2>2. account'.id # r.id
      BY <1>1, <2>1 DEF Moves, World, WorldTyped, Account!Ids
    <2>3. ASSUME Owns(v, r)' PROVE account'.id \notin registered'
      <3>1. holder[Account!Name] = v /\ account.id \notin registered
        BY <1>5, <2>3, OwnsLess DEF FlowShape, Account!DeleteStages, Owns, FlowRelies
      <3>2. registered' = registered /\ nextId \notin registered /\ 0 \notin registered
        BY <3>1 DEF Moves, World, NumbersOK, WorldTyped
      <3>3. QED
        BY <3>1, <3>2 DEF Moves
    <2>4. QED
      BY <2>2, <2>3
  <1>6. QED
    BY <1>2, <1>3, <1>4, <1>5 DEF FlowRelies

\* A reported deletion, or a creation reported as recovered, stays what it was.
LEMMA SaysStays ==
  ASSUME World, World', NEW a, Moves(a), NEW v \in Workers, v # a, v # Nobody, NEW r \in Workflows,
         FlowKnows(v, r), FlowSays(v, r)
  PROVE  FlowSays(v, r)'
  <1>1. /\ r.id \in {0} \cup Account!Ids /\ r.id < nextId
        /\ r.cert \in {0} \cup Account!Certs
    BY DEF FlowKnows, Workflows
  <1>2. ASSUME r.kind = "delete", r.verdict = "success"
        PROVE  r.id # 0 /\ account'.id # r.id /\ ClosedBut(r.id, {})'
    <2>1. r.id # 0 /\ account.id # r.id /\ ClosedBut(r.id, {})
      BY <1>2 DEF FlowSays
    <2>2. account'.id # r.id
      BY <1>1, <2>1 DEF Moves, World, WorldTyped, Account!Ids
    <2>3. ClosedBut(r.id, {})'
      BY <2>1, ClosedStays
    <2>4. QED
      BY <2>1, <2>2, <2>3
  <1>3. ASSUME r.kind = "create", r.verdict = "recovered"
        PROVE  /\ account'.id # 0 => account'.by # v
               /\ r.cert # 0 => cert'[r.cert] = "revoked"
    BY <1>1, <1>3 DEF FlowSays, Moves
  <1>4. QED
    BY <1>2, <1>3 DEF FlowSays

LEMMA FlowStays ==
  ASSUME World, World', NEW a, Moves(a), NEW v \in Workers, v # a, v # Nobody, NEW r \in Workflows,
         FlowShape(r), Flow(v, r)
  PROVE  Flow(v, r)'
  BY KnowsStays, ReliesStays, SaysStays DEF Flow

\* How many removals may follow a step of w.
LEMMA RemoversStep ==
  ASSUME req \in [Workers -> Workflows], IsFiniteSet(Removers), NEW w \in Workers, NEW r \in Workflows,
         req' = [req EXCEPT ![w] = r]
  PROVE  /\ IsFiniteSet(Removers') /\ Cardinality(Removers) \in Nat /\ Cardinality(Removers') \in Nat
         /\ Cardinality(Removers') =< Cardinality(Removers) + 1
         /\ (MayRemove(r) => MayRemove(req[w])) => Cardinality(Removers') =< Cardinality(Removers)
         /\ MayRemove(req[w]) /\ ~MayRemove(r) => Cardinality(Removers') < Cardinality(Removers)
  <1>1. \A v \in Workers : req'[v] = IF v = w THEN r ELSE req[v]
    OBVIOUS
  <1>2. Removers' = {v \in Workers : MayRemove(req'[v])}
    BY DEF Removers, MayRemove
  <1>3. \A v \in Workers : v \in Removers' <=> IF v = w THEN MayRemove(r) ELSE v \in Removers
    BY <1>1, <1>2 DEF Removers
  <1>4. Removers' \subseteq Removers \cup {w} /\ Removers' \subseteq Workers
    BY <1>2, <1>3
  <1>5. /\ IsFiniteSet(Removers \cup {w})
        /\ Cardinality(Removers \cup {w}) = IF w \in Removers THEN Cardinality(Removers)
                                             ELSE Cardinality(Removers) + 1
    BY FS_AddElement
  <1>6. /\ IsFiniteSet(Removers') /\ Cardinality(Removers') =< Cardinality(Removers \cup {w})
        /\ Cardinality(Removers') = Cardinality(Removers \cup {w}) => Removers' = Removers \cup {w}
    BY <1>4, <1>5, FS_Subset
  <1>7. Cardinality(Removers) \in Nat /\ Cardinality(Removers') \in Nat
    BY <1>6, FS_CardinalityType
  <1>8. ASSUME MayRemove(r) => MayRemove(req[w])
        PROVE  Cardinality(Removers') =< Cardinality(Removers)
    <2>1. Removers' \subseteq Removers
      BY <1>3, <1>4, <1>8 DEF Removers
    <2>2. QED
      BY <2>1, FS_Subset
  <1>9. ASSUME MayRemove(req[w]), ~MayRemove(r)
        PROVE  Cardinality(Removers') < Cardinality(Removers)
    <2>1. w \in Removers /\ w \notin Removers' /\ Removers' \subseteq Removers
      BY <1>3, <1>4, <1>9 DEF Removers
    <2>2. QED
      BY <1>7, <2>1, FS_Subset
  <1>10. QED
    BY <1>5, <1>6, <1>7, <1>8, <1>9

\* The step of w leaves the account, adds one, removes one, or begins.
Counted(w, r) ==
  \/ /\ begun' = begun /\ nextId' = nextId /\ account'.id = account.id
     /\ (MayRemove(r) => MayRemove(req[w]))
  \/ /\ begun' = begun + 1 /\ nextId' = nextId /\ account'.id = account.id
  \/ /\ begun' = begun /\ nextId' = nextId + 1 /\ account.id = 0 /\ account'.id # 0
     /\ MayRemove(r) => MayRemove(req[w])
  \/ /\ begun' = begun /\ nextId' = nextId /\ account'.id = 0
     /\ MayRemove(req[w]) /\ ~MayRemove(r)

LEMMA Sums ==
  ASSUME NEW i \in Nat, NEW j \in Nat, NEW n \in Nat, NEW m \in Nat, NEW a \in 0..1, NEW b \in 0..1,
         NEW k \in Int, NEW l \in Int, i + n + a =< k + 2, m =< n + 1,
         \/ l = k /\ j = i /\ b = a /\ m =< n
         \/ l = k + 1 /\ j = i /\ b = a
         \/ l = k /\ j = i + 1 /\ a = 1 /\ b = 0 /\ m =< n
         \/ l = k /\ j = i /\ m < n
  PROVE  j + m + b =< l + 2
  OBVIOUS

LEMMA CountOK ==
  ASSUME World, World', IdsLeft, req \in [Workers -> Workflows], NEW w \in Workers, NEW r \in Workflows,
         req' = [req EXCEPT ![w] = r], Counted(w, r)
  PROVE  IdsLeft'
  <1>1. PICK n \in Nat, m \in Nat :
          /\ n = Cardinality(Removers) /\ m = Cardinality(Removers') /\ m =< n + 1
          /\ (MayRemove(r) => MayRemove(req[w])) => m =< n
          /\ MayRemove(req[w]) /\ ~MayRemove(r) => m < n
    BY RemoversStep DEF IdsLeft
  <1>2. PICK a \in 0..1, b \in 0..1 :
          a = (IF account.id = 0 THEN 1 ELSE 0) /\ b = (IF account'.id = 0 THEN 1 ELSE 0)
    OBVIOUS
  <1>3. nextId + n + a =< begun + 2
    BY <1>1, <1>2 DEF IdsLeft
  <1>4. nextId \in Nat /\ nextId' \in Nat /\ begun \in Int /\ begun' \in Int
    BY DEF World, WorldTyped
  <1>5. \/ begun' = begun /\ nextId' = nextId /\ b = a /\ m =< n
        \/ begun' = begun + 1 /\ nextId' = nextId /\ b = a
        \/ begun' = begun /\ nextId' = nextId + 1 /\ a = 1 /\ b = 0 /\ m =< n
        \/ begun' = begun /\ nextId' = nextId /\ m < n
    BY <1>1, <1>2, Zenon DEF Counted
  <1>6. nextId' + m + b =< begun' + 2
    BY <1>1, <1>3, <1>4, <1>5, Sums
  <1>7. IsFiniteSet(Removers')
    BY RemoversStep DEF IdsLeft
  <1>8. QED
    BY <1>1, <1>2, <1>6, <1>7 DEF IdsLeft

\* A step of w; a is w, or Nobody when no lock of w matters.
LEMMA FlowStep ==
  ASSUME Nobody \notin Workers, FlowInv, World', NEW w \in Workers, NEW r \in Workflows,
         req' = [req EXCEPT ![w] = r], NEW a \in {w, Nobody}, Moves(a), Counted(w, r),
         FlowShape(r), Flow(w, r)'
  PROVE  FlowInv'
  <1>1. req \in [Workers -> Workflows] /\ req' \in [Workers -> Workflows]
    BY DEF FlowInv
  <1>2. IdsLeft'
    BY <1>1, CountOK DEF FlowInv
  <1>3. ASSUME NEW v \in Workers PROVE FlowShape(req'[v]) /\ Flow(v, req[v])'
    <2>1. PICK q \in Workflows : q = req[v] /\ FlowShape(q) /\ Flow(v, q)
      BY <1>1 DEF FlowInv
    <2>2. CASE v = w
      <3>1. req'[v] = r
        BY <1>1, <2>2
      <3>2. QED
        BY <2>2, <3>1 DEF Flow, FlowKnows, FlowRelies, FlowSays, CreateKnows, CreateOwns, Sure,
                          Owns, ClosedBut
    <2>3. CASE v # w
      <3>1. req'[v] = q
        BY <1>1, <2>1, <2>3
      <3>2. Flow(v, q)'
        BY <2>1, <2>3, FlowStays DEF FlowInv
      <3>3. QED
        BY <2>1, <3>1, <3>2 DEF Flow, FlowKnows, FlowRelies, FlowSays, CreateKnows, CreateOwns,
                                Sure, Owns, ClosedBut
    <2>4. QED
      BY <2>2, <2>3
  <1>4. QED
    BY <1>1, <1>2, <1>3 DEF FlowInv, FlowShape

\* A step of w that takes nothing from anyone.
LEMMA CalmStepOf ==
  ASSUME Nobody \notin Workers, FlowInv, World', NEW w \in Workers, NEW r \in Workflows,
         req' = [req EXCEPT ![w] = r], Moves(Nobody), Counted(w, r), FlowShape(r), Flow(w, r)
  PROVE  FlowInv'
  <1>1. Flow(w, r)'
    BY FlowStays DEF FlowInv
  <1>2. QED
    BY <1>1, FlowStep

LEMMA FlowOK ==
  ASSUME FlowInv, NEW w \in Workers
  PROVE  req[w] \in Workflows /\ FlowShape(req[w]) /\ Flow(w, req[w])
  BY DEF FlowInv

Still == UNCHANGED <<Account!router, Account!store, registered, begun>>
Counts == Account!Smooth \/ Account!Mishap

LEMMA CountsOK ==
  ASSUME Account!AccountAssumption, World, Counts PROVE mishaps' \in 0..MaxAccountMishaps
  BY DEF Account!AccountAssumption, World, WorldTyped, Counts, Account!Smooth, Account!Mishap

LEMMA StillOK ==
  ASSUME Account!AccountAssumption, World, Still, Counts,
         holder' \in [Account!Keys -> Workers \cup {Nobody}]
  PROVE  World'
  <1>1. mishaps' \in 0..MaxAccountMishaps
    BY CountsOK
  <1>2. QED
    BY <1>1 DEF World, WorldTyped, RowsOK, NumbersOK, Still, Account!router, Account!store

LEMMA StillMoves ==
  ASSUME World, Still, UNCHANGED holder PROVE Moves(Nobody)
  BY DEF Moves, Still, Account!router, Account!store, World, WorldTyped

\* A request goes on and leaves the world as it is.
LEMMA StillGoes ==
  ASSUME Account!AccountAssumption, FlowInv, NEW w \in Workers, NEW r \in Workflows,
         Account!Goes(w, r), UNCHANGED <<Account!router, Account!store>>, Counts,
         MayRemove(r) => MayRemove(req[w]), FlowShape(r), Flow(w, r)
  PROVE  FlowInv'
  <1>1. Still /\ UNCHANGED holder /\ req' = [req EXCEPT ![w] = r]
    BY DEF Still, Account!Goes
  <1>2. World' /\ Moves(Nobody)
    BY <1>1, StillOK, StillMoves DEF FlowInv, World, WorldTyped
  <1>3. Counted(w, r)
    BY <1>1 DEF Counted, Still, Account!router
  <1>4. QED
    BY <1>1, <1>2, <1>3, CalmStepOf DEF Account!AccountAssumption

\* A request ends.
Ended(r, verdict) == [r EXCEPT !.at = "idle", !.verdict = verdict, !.keys = {}]

LEMMA EndedIsFlow ==
  ASSUME NEW r \in Workflows, NEW verdict \in Account!Verdicts
  PROVE  /\ Ended(r, verdict) \in Workflows /\ FlowShape(Ended(r, verdict))
         /\ Ended(r, verdict).at = "idle" /\ Ended(r, verdict).verdict = verdict
         /\ Ended(r, verdict).kind = r.kind /\ Ended(r, verdict).id = r.id
         /\ Ended(r, verdict).cert = r.cert /\ ~MayRemove(Ended(r, verdict))
  <1>1. /\ Ended(r, verdict) \in Workflows
        /\ Ended(r, verdict).at = "idle" /\ Ended(r, verdict).verdict = verdict
        /\ Ended(r, verdict).keys = {}
        /\ Ended(r, verdict).kind = r.kind /\ Ended(r, verdict).id = r.id
        /\ Ended(r, verdict).cert = r.cert
    BY DEF Ended, Workflows
  <1>2. PICK e \in Workflows : e = Ended(r, verdict)
    BY <1>1
  <1>3. FlowShape(e) /\ ~MayRemove(e)
    BY <1>1, <1>2 DEF FlowShape, MayRemove, Before, Account!CreateStages, Account!IssueStages,
                      Account!DeleteStages, Account!RevokeStages, WithCert, Storing
  <1>4. QED
    BY <1>1, <1>2, <1>3

LEMMA EndsStep ==
  ASSUME Account!AccountAssumption, FlowInv, World', NEW w \in Workers, NEW r \in Workflows,
         r = req[w], NEW verdict \in Account!Verdicts, Account!Ends(w, verdict), Moves(w),
         account'.id = account.id, nextId' = nextId,
         r.kind = "delete" /\ verdict = "success" =>
           r.id # 0 /\ account'.id # r.id /\ ClosedBut(r.id, {})',
         r.kind = "create" /\ verdict = "recovered" =>
           /\ account'.id # 0 => account'.by # w
           /\ r.cert # 0 => cert'[r.cert] = "revoked"
  PROVE  FlowInv'
  <1>1. PICK e \in Workflows :
          /\ e = Ended(r, verdict) /\ FlowShape(e) /\ e.at = "idle" /\ e.verdict = verdict
          /\ e.kind = r.kind /\ e.id = r.id /\ e.cert = r.cert /\ ~MayRemove(e)
    BY EndedIsFlow
  <1>2. FlowShape(r) /\ FlowKnows(w, r)
    BY FlowOK DEF Flow
  <1>3. req' = [req EXCEPT ![w] = e] /\ begun' = begun
    BY <1>1 DEF Account!Ends, Ended
  <1>4. Counted(w, e)
    BY <1>1, <1>3 DEF Counted
  <1>5. FlowKnows(w, r)'
    BY <1>2, KnowsStays DEF FlowInv
  <1>6. Flow(w, e)'
    BY <1>1, <1>5 DEF Flow, FlowKnows, FlowRelies, FlowSays, Closing,
       Account!CreateStages, Account!IssueStages, Account!DeleteStages
  <1>7. QED
    BY <1>1, <1>3, <1>4, <1>6, FlowStep DEF Account!AccountAssumption

\* Locks given back.
LEMMA LocksBack ==
  ASSUME World, NEW w \in Workers, NEW verdict, Account!Ends(w, verdict)
  PROVE  /\ holder' \in [Account!Keys -> Workers \cup {Nobody}]
         /\ \A k \in Account!Keys : holder'[k] # holder[k] => holder'[k] = Nobody
  BY DEF World, WorldTyped, Account!Ends

-----------------------------------------------------------------------------
\* Changes of the world.
LEMMA NextIdOK ==
  ASSUME Account!AccountAssumption, FlowInv
  PROVE  nextId \in Account!Ids /\ nextId + 1 =< MaxAccountRequests + 3
  <1>1. IsFiniteSet(Removers) /\ Cardinality(Removers) \in Nat
    BY FS_CardinalityType DEF FlowInv, IdsLeft
  <1>2. nextId \in Nat \ {0, 1} /\ begun \in 0..MaxAccountRequests
    BY DEF FlowInv, World, WorldTyped
  <1>3. nextId =< begun + 2
    BY <1>1, <1>2 DEF FlowInv, IdsLeft
  <1>4. QED
    BY <1>2, <1>3 DEF Account!AccountAssumption, Account!Ids

\* What moves nobody: the account stays, certificates and rows are closed.
Calm ==
  /\ UNCHANGED <<nextId, rateSet, settings, registered, begun>>
  /\ account'.id = account.id /\ account'.by = account.by
  /\ account' \in [id : {0} \cup Account!Ids, disabled : BOOLEAN, by : Workers \cup {Nobody}]
  /\ tunnels' \subseteq Tunnels
  /\ cert' \in [Account!Certs -> {"none", "active", "revoked"}]
  /\ made' \in [Account!Certs -> {0} \cup Account!Ids]
  /\ device' \in [Account!Certs -> {"none", "active", "revoked"}]
  /\ \A c \in Account!Certs :
       /\ cert[c] # "none" => cert'[c] # "none"
       /\ cert[c] = "revoked" => cert'[c] = "revoked"
       /\ made'[c] = made[c] \/ cert[c] = "none"
       /\ device'[c] = device[c] \/ (device'[c] = "revoked" /\ cert'[c] = "revoked")

LEMMA CalmOK ==
  ASSUME Account!AccountAssumption, World, Calm, Counts,
         holder' \in [Account!Keys -> Workers \cup {Nobody}]
  PROVE  World' /\ (UNCHANGED holder => Moves(Nobody))
  <1>1. mishaps' \in 0..MaxAccountMishaps
    BY CountsOK
  <1>2. WorldTyped'
    BY <1>1 DEF World, WorldTyped, Calm
  <1>3. RowsOK'
    BY DEF World, RowsOK, Calm
  <1>4. NumbersOK'
    BY DEF World, NumbersOK, Calm
  <1>5. UNCHANGED holder => Moves(Nobody)
    BY DEF World, WorldTyped, Calm, Moves
  <1>6. QED
    BY <1>2, <1>3, <1>4, <1>5 DEF World

LEMMA StillCalm ==
  ASSUME World, UNCHANGED <<Account!router, Account!store, registered, begun>> PROVE Calm
  BY DEF World, WorldTyped, Calm, Account!router, Account!store

LEMMA CertRevokedCalm ==
  ASSUME World, NEW c \in Account!Certs, Account!CertRevoked(c),
         UNCHANGED <<Account!store, registered, begun>>
  PROVE  Calm
  <1>1. cert' = [cert EXCEPT ![c] = IF cert[c] = "active" THEN "revoked" ELSE cert[c]]
    BY DEF Account!CertRevoked
  <1>2. cert \in [Account!Certs -> {"none", "active", "revoked"}]
    BY DEF World, WorldTyped
  <1>3. /\ cert' \in [Account!Certs -> {"none", "active", "revoked"}]
        /\ \A d \in Account!Certs : /\ cert[d] # "none" => cert'[d] # "none"
                                    /\ cert[d] = "revoked" => cert'[d] = "revoked"
    BY <1>1, <1>2
  <1>4. QED
    BY <1>3 DEF World, WorldTyped, Calm, Account!CertRevoked, Account!Elsewhere, Account!store

\* A request goes on while nothing it or others rely on moves.
LEMMA CalmGoes ==
  ASSUME Account!AccountAssumption, FlowInv, NEW w \in Workers, NEW n \in Workflows,
         Account!Goes(w, n), Calm, Counts, MayRemove(n) => MayRemove(req[w]), FlowShape(n),
         Flow(w, n)'
  PROVE  FlowInv'
  <1>1. req' = [req EXCEPT ![w] = n] /\ UNCHANGED holder
    BY DEF Account!Goes
  <1>2. World' /\ Moves(Nobody)
    BY <1>1, CalmOK DEF FlowInv, World, WorldTyped
  <1>3. Counted(w, n)
    BY DEF Counted, Calm
  <1>4. QED
    BY <1>1, <1>2, <1>3, FlowStep DEF Account!AccountAssumption

\* What the request knew before a calm step it knows after it.
LEMMA CalmKept ==
  ASSUME Account!AccountAssumption, FlowInv, NEW w \in Workers, NEW r \in Workflows, r = req[w],
         Calm, Counts, UNCHANGED holder
  PROVE  World' /\ FlowShape(r) /\ Flow(w, r) /\ Flow(w, r)'
  <1>1. World' /\ Moves(Nobody)
    BY CalmOK DEF FlowInv, World, WorldTyped
  <1>2. FlowShape(r) /\ Flow(w, r)
    BY FlowOK
  <1>3. QED
    BY <1>1, <1>2, FlowStays DEF FlowInv, Account!AccountAssumption

-----------------------------------------------------------------------------
\* A creation fails.
Underway == {"rate", "put", "whichId"} \cup Storing
Failed(r, lost) ==
  [r EXCEPT !.lost = lost, !.at = IF r.cert # 0 THEN "undoCert" ELSE "undoAccount"]

LEMMA FailedCreateOK ==
  ASSUME NEW w \in Workers, NEW r \in Workflows, r.at \in Underway, FlowShape(r), Flow(w, r)',
         NEW lost \in BOOLEAN
  PROVE  /\ Failed(r, lost) \in Workflows /\ FlowShape(Failed(r, lost))
         /\ Flow(w, Failed(r, lost))' /\ MayRemove(Failed(r, lost)) /\ MayRemove(r)
  <1>1. PICK n \in Workflows :
          /\ n = Failed(r, lost) /\ n.lost = lost
          /\ n.at = (IF r.cert # 0 THEN "undoCert" ELSE "undoAccount")
          /\ n.kind = r.kind /\ n.keys = r.keys /\ n.id = r.id /\ n.cert = r.cert
          /\ n.confirmed = r.confirmed /\ n.verdict = r.verdict
    <2>1. PICK s \in {"undoCert", "undoAccount"} :
            s = IF r.cert # 0 THEN "undoCert" ELSE "undoAccount"
      OBVIOUS
    <2> DEFINE m == [r EXCEPT !.lost = lost, !.at = s]
    <2>2. Failed(r, lost) = m
      BY <2>1 DEF Failed
    <2>3. m \in Workflows
      BY DEF Workflows, Account!CreateStages
    <2>4. /\ m.lost = lost /\ m.at = s /\ m.kind = r.kind /\ m.keys = r.keys /\ m.id = r.id
          /\ m.cert = r.cert /\ m.confirmed = r.confirmed /\ m.verdict = r.verdict
      BY DEF Workflows
    <2> HIDE DEF m
    <2>5. QED
      BY <2>1, <2>2, <2>3, <2>4
  <1>2. r.kind = "create" /\ r.verdict = "none" /\ ~r.lost /\ r.at \in Account!CreateStages
        /\ r.keys = {Account!Gate, Account!Name}
    BY DEF FlowShape, Underway, Storing, Account!CreateStages
  <1>3. FlowShape(n)
    BY <1>1, <1>2 DEF FlowShape, Account!CreateStages, Account!IssueStages,
                      Account!DeleteStages, Account!RevokeStages, WithCert, Storing, Underway
  <1>4. FlowKnows(w, n)'
    BY <1>1, <1>2 DEF Flow, FlowKnows, Closing
  <1>5. Sure(w, n)' => Sure(w, r)'
    BY <1>1, <1>2 DEF Sure, Owns
  <1>6. CreateKnows(w, n)'
    BY <1>1, <1>2 DEF Flow, FlowRelies, CreateKnows
  <1>7. Sure(w, n)' => CreateOwns(w, n)'
    BY <1>1, <1>2, <1>5 DEF Flow, FlowRelies, CreateOwns, FlowShape, Underway, Storing
  <1>8. FlowRelies(w, n)' /\ FlowSays(w, n)'
    BY <1>1, <1>2, <1>6, <1>7 DEF FlowRelies, FlowSays, Account!CreateStages,
       Account!IssueStages, Account!DeleteStages
  <1>9. MayRemove(n) /\ MayRemove(r)
    BY <1>1 DEF MayRemove, Before, Underway, Storing
  <1>10. QED
    BY <1>1, <1>3, <1>4, <1>8, <1>9 DEF Flow

LEMMA FailStep ==
  ASSUME Account!AccountAssumption, FlowInv, World', NEW w \in Workers, NEW r \in Workflows,
         r = req[w], r.at \in Underway, NEW lost \in BOOLEAN, Account!FailsBy(w, lost),
         NEW a \in {w, Nobody}, Moves(a), Flow(w, r)',
         \/ nextId' = nextId /\ account'.id = account.id
         \/ nextId' = nextId + 1 /\ account.id = 0 /\ account'.id # 0
  PROVE  FlowInv'
  <1>1. FlowShape(r)
    BY FlowOK
  <1>2. PICK n \in Workflows :
          /\ n = Failed(r, lost) /\ FlowShape(n) /\ Flow(w, n)' /\ MayRemove(n) /\ MayRemove(r)
    BY <1>1, FailedCreateOK
  <1>3. req' = [req EXCEPT ![w] = n] /\ begun' = begun
    BY <1>2 DEF Account!FailsBy, Account!Goes, Failed
  <1>4. Counted(w, n)
    BY <1>2, <1>3 DEF Counted
  <1>5. QED
    BY <1>2, <1>3, <1>4, FlowStep DEF Account!AccountAssumption

LEMMA FailCalm ==
  ASSUME Account!AccountAssumption, FlowInv, NEW w \in Workers, req[w].at \in Underway,
         NEW lost \in BOOLEAN, Account!FailsBy(w, lost), Calm, Counts
  PROVE  FlowInv'
  <1>1. PICK r \in Workflows : r = req[w]
    BY FlowOK
  <1>2. World' /\ Flow(w, r)' /\ Moves(Nobody)
    BY <1>1, CalmKept, CalmOK DEF Account!FailsBy, Account!Goes, FlowInv, World, WorldTyped
  <1>3. nextId' = nextId /\ account'.id = account.id
    BY DEF Calm
  <1>4. QED
    BY <1>1, <1>2, <1>3, FailStep

\* A creation that goes on: what is left to show of it.
LEMMA CreateGoes ==
  ASSUME NEW w \in Workers, NEW n \in Workflows, n.at \in Account!CreateStages,
         n.kind = "create", n.verdict = "none",
         FlowKnows(w, n)', CreateKnows(w, n)', Sure(w, n)' => CreateOwns(w, n)'
  PROVE  Flow(w, n)'
  BY DEF Flow, FlowRelies, FlowSays, Account!CreateStages, Account!IssueStages,
         Account!DeleteStages

LEMMA Creating ==
  ASSUME FlowInv, NEW w \in Workers, NEW r \in Workflows, r = req[w],
         r.at \in Account!CreateStages
  PROVE  /\ r.kind = "create" /\ r.verdict = "none"
         /\ r.keys = {Account!Gate, Account!Name}
         /\ Account!Owned(w) <=> Owns(w, r)
         /\ Owns(w, r) => holder[Account!Name] = w /\ holder[Account!Gate] = w
         /\ FlowShape(r) /\ FlowKnows(w, r) /\ CreateKnows(w, r)
         /\ Sure(w, r) => CreateOwns(w, r)
  <1>1. FlowShape(r) /\ Flow(w, r)
    BY FlowOK
  <1>2. r.kind = "create" /\ r.verdict = "none" /\ r.keys = {Account!Gate, Account!Name}
    BY <1>1 DEF FlowShape, Account!CreateStages
  <1>3. QED
    BY <1>1, <1>2 DEF Flow, FlowRelies, Owns, Account!Owned

LEMMA EnsureRateKeeps ==
  ASSUME Account!AccountAssumption, FlowInv, NEW w \in Workers, Account!EnsureRate(w)
  PROVE  FlowInv'
  <1> DEFINE Set == rateSet' = TRUE /\ UNCHANGED <<account, tunnels, cert, made, nextId>>
  <1>1. /\ req[w].at = "rate"
        /\ \/ /\ Account!Owned(w) /\ UNCHANGED Account!store /\ Counts
              /\ Set \/ UNCHANGED Account!router
              /\ Account!To(w, "put") \/ Account!FailsBy(w, FALSE)
           \/ Account!FailsBy(w, TRUE) /\ UNCHANGED <<Account!router, Account!store>> /\ Counts
    BY Zenon DEF Account!EnsureRate, Account!Create, Account!Request, Account!Fails, Counts,
                 Account!Smooth
  <1>2. PICK r \in Workflows : r = req[w]
    BY FlowOK
  <1>3. /\ r.at \in Account!CreateStages /\ r.at \in Underway /\ req[w].at \in Underway
        /\ UNCHANGED <<holder, begun, registered>>
    BY <1>1, <1>2 DEF Account!CreateStages, Underway, Account!To, Account!FailsBy, Account!Goes
  <1>4. CASE Account!FailsBy(w, TRUE) /\ UNCHANGED <<Account!router, Account!store>> /\ Counts
    BY <1>3, <1>4, StillCalm, FailCalm DEF FlowInv
  <1>5. CASE /\ Account!Owned(w) /\ UNCHANGED Account!store /\ Counts
             /\ Set \/ UNCHANGED Account!router
             /\ Account!To(w, "put") \/ Account!FailsBy(w, FALSE)
    <2>1. /\ holder[Account!Name] = w /\ FlowShape(r) /\ FlowKnows(w, r) /\ CreateKnows(w, r)
          /\ Sure(w, r) => CreateOwns(w, r)
          /\ r.kind = "create" /\ r.verdict = "none" /\ r.keys = {Account!Gate, Account!Name}
      BY <1>2, <1>3, <1>5, Creating
    <2>2. rateSet' \in BOOLEAN /\ UNCHANGED <<account, tunnels, cert, made, nextId>>
      BY <1>5 DEF Account!router, FlowInv, World, WorldTyped
    <2>3. World'
      <3>1. mishaps' \in 0..MaxAccountMishaps
        BY <1>5, CountsOK DEF FlowInv
      <3>2. QED
        BY <1>3, <1>5, <2>2, <3>1 DEF FlowInv, World, WorldTyped, RowsOK, NumbersOK, Account!store
    <2>4. Moves(w)
      BY <1>3, <1>5, <2>1, <2>2 DEF Moves, Account!store, FlowInv, World, WorldTyped
    <2>5. /\ FlowKnows(w, r)' /\ CreateKnows(w, r)'
          /\ Sure(w, r)' => CreateOwns(w, r)'
      BY <1>1, <1>2, <1>3, <1>5, <2>1, <2>2 DEF FlowKnows, CreateKnows, CreateOwns, Sure, Owns,
         Account!store, Storing
    <2>6. CASE Account!FailsBy(w, FALSE)
      <3>1. Flow(w, r)'
        BY <1>3, <2>1, <2>5, CreateGoes
      <3>2. QED
        BY <1>2, <1>3, <2>2, <2>3, <2>4, <2>6, <3>1, FailStep
    <2>7. CASE Account!To(w, "put")
      <3> DEFINE n == [r EXCEPT !.at = "put"]
      <3>1. n \in Workflows
        BY DEF Workflows, Account!CreateStages
      <3>2. /\ n.at = "put" /\ n.kind = r.kind /\ n.keys = r.keys /\ n.id = r.id
            /\ n.cert = r.cert /\ n.confirmed = r.confirmed /\ n.verdict = r.verdict
            /\ n.lost = r.lost
        BY DEF Workflows
      <3>3. req' = [req EXCEPT ![w] = n]
        BY <1>2, <2>7 DEF Account!To, Account!Goes
      <3> HIDE DEF n
      <3>4. FlowShape(n) /\ n.at \in Account!CreateStages
        BY <1>1, <1>2, <2>1, <3>2 DEF FlowShape, Account!CreateStages, Account!IssueStages,
           Account!DeleteStages, Account!RevokeStages, WithCert, Storing
      <3>5. /\ FlowKnows(w, n)' /\ CreateKnows(w, n)'
            /\ Sure(w, n)' => CreateOwns(w, n)'
        BY <2>5, <3>2 DEF FlowKnows, CreateKnows, CreateOwns, Sure, Owns, Closing, Storing
      <3>6. Counted(w, n)
        BY <1>1, <1>3, <2>2 DEF Counted, MayRemove, Before
      <3>7. Flow(w, n)'
        BY <2>1, <3>1, <3>2, <3>4, <3>5, CreateGoes
      <3>8. QED
        BY <2>3, <2>4, <3>1, <3>3, <3>4, <3>6, <3>7, FlowStep DEF Account!AccountAssumption
    <2>8. QED
      BY <1>5, <2>6, <2>7
  <1>6. QED
    BY <1>1, <1>4, <1>5

LEMMA AddedOK ==
  ASSUME Account!AccountAssumption, FlowInv, NEW a \in Workers \cup {Nobody},
         Account!AccountAdded(a), account.id = 0, UNCHANGED <<Account!store, registered, begun, holder>>,
         Counts
  PROVE  /\ World' /\ Moves(a)
         /\ account'.id = nextId /\ account'.by = a /\ nextId' = nextId + 1
         /\ nextId \notin registered /\ nextId # 0
         /\ UNCHANGED <<rateSet, tunnels, cert, made, settings, device>>
  <1>1. /\ account' = [id |-> nextId, disabled |-> FALSE, by |-> a] /\ nextId' = nextId + 1
        /\ UNCHANGED <<rateSet, tunnels, cert, made, settings, device>>
    BY DEF Account!AccountAdded, Account!AccountBecomes, Account!Elsewhere, Account!store
  <1>2. nextId \in Account!Ids /\ nextId \in Nat \ {0, 1} /\ nextId \notin registered
    BY NextIdOK DEF FlowInv, World, WorldTyped, NumbersOK
  <1>3. mishaps' \in 0..MaxAccountMishaps
    BY CountsOK DEF FlowInv
  <1>4. World'
    BY <1>1, <1>2, <1>3 DEF FlowInv, World, WorldTyped, RowsOK, NumbersOK
  <1>5. Moves(a)
    BY <1>1, <1>2 DEF Moves, FlowInv, World, WorldTyped
  <1>6. QED
    BY <1>1, <1>2, <1>4, <1>5

LEMMA PutAccountKeeps ==
  ASSUME Account!AccountAssumption, FlowInv, NEW w \in Workers, Account!PutAccount(w)
  PROVE  FlowInv'
  <1> DEFINE After(told) == [req[w] EXCEPT !.confirmed = TRUE, !.id = IF told THEN nextId ELSE 0,
                                           !.at = IF told THEN "store" ELSE "whichId"]
  <1>1. /\ req[w].at = "put"
        /\ \/ /\ Account!Owned(w) /\ account.id = 0 /\ UNCHANGED Account!store /\ Counts
              /\ Account!AccountAdded(w)
              /\ \/ \E told \in BOOLEAN : Account!Goes(w, After(told))
                 \/ Account!FailsBy(w, FALSE)
           \/ /\ UNCHANGED <<Account!router, Account!store>> /\ Counts
              /\ \E lost \in BOOLEAN : Account!FailsBy(w, lost)
    BY Zenon DEF Account!PutAccount, Account!Create, Account!Request, Account!Fails, Counts,
                 Account!Smooth
  <1>2. PICK r \in Workflows : r = req[w]
    BY FlowOK
  <1>3. /\ r.at \in Account!CreateStages /\ r.at \in Underway /\ req[w].at \in Underway
        /\ UNCHANGED <<holder, begun, registered>>
    BY <1>1, <1>2 DEF Account!CreateStages, Underway, Account!FailsBy, Account!Goes
  <1>4. CASE /\ UNCHANGED <<Account!router, Account!store>> /\ Counts
             /\ \E lost \in BOOLEAN : Account!FailsBy(w, lost)
    BY <1>3, <1>4, StillCalm, FailCalm DEF FlowInv
  <1>5. CASE /\ Account!Owned(w) /\ account.id = 0 /\ UNCHANGED Account!store /\ Counts
             /\ Account!AccountAdded(w)
             /\ \/ \E told \in BOOLEAN : Account!Goes(w, After(told))
                \/ Account!FailsBy(w, FALSE)
    <2>1. /\ World' /\ Moves(w)
          /\ account'.id = nextId /\ account'.by = w /\ nextId' = nextId + 1
          /\ nextId \notin registered /\ nextId # 0 /\ account.id = 0
          /\ UNCHANGED <<rateSet, tunnels, cert, made, settings, device>>
      BY <1>3, <1>5, AddedOK
    <2>2. /\ FlowShape(r) /\ FlowKnows(w, r) /\ r.kind = "create" /\ r.verdict = "none"
          /\ r.keys = {Account!Gate, Account!Name} /\ r.id = 0 /\ r.cert = 0
          /\ r.at = "put" /\ ~r.lost /\ ~r.confirmed /\ nextId \in Account!Ids /\ nextId \in Nat
      BY <1>1, <1>2, <1>3, Creating, NextIdOK DEF FlowShape, FlowInv, World, WorldTyped
    <2>3. CASE Account!FailsBy(w, FALSE)
      <3>1. /\ FlowKnows(w, r)' /\ CreateKnows(w, r)' /\ CreateOwns(w, r)'
        BY <1>3, <2>1, <2>2 DEF FlowKnows, CreateKnows, CreateOwns, Storing
      <3>2. Flow(w, r)'
        BY <1>3, <2>2, <3>1, CreateGoes
      <3>3. QED
        BY <1>2, <1>3, <2>1, <2>3, <3>2, FailStep
    <2>4. ASSUME NEW told \in BOOLEAN, Account!Goes(w, After(told))
          PROVE  FlowInv'
      <3>1. PICK i \in {0, nextId}, s \in {"store", "whichId"} :
              /\ i = (IF told THEN nextId ELSE 0)
              /\ s = (IF told THEN "store" ELSE "whichId")
        OBVIOUS
      <3> DEFINE n == [r EXCEPT !.confirmed = TRUE, !.id = i, !.at = s]
      <3>2. n \in Workflows
        BY <2>2 DEF Workflows, Account!CreateStages
      <3>3. /\ n.at = s /\ n.kind = r.kind /\ n.keys = r.keys /\ n.id = i
            /\ n.cert = r.cert /\ n.confirmed /\ n.verdict = r.verdict /\ n.lost = r.lost
        BY DEF Workflows
      <3>4. req' = [req EXCEPT ![w] = n]
        BY <1>2, <2>4, <3>1 DEF Account!Goes
      <3> HIDE DEF n
      <3>5. FlowShape(n) /\ n.at \in Account!CreateStages
        BY <2>1, <2>2, <3>1, <3>3 DEF FlowShape, Account!CreateStages, Account!IssueStages,
           Account!DeleteStages, Account!RevokeStages, WithCert, Storing
      <3>6. FlowKnows(w, n)' /\ CreateKnows(w, n)' /\ CreateOwns(w, n)'
        BY <1>3, <2>1, <2>2, <3>1, <3>3 DEF FlowKnows, CreateKnows, CreateOwns, Closing, Storing
      <3>7. Counted(w, n)
        BY <1>1, <1>3, <2>1 DEF Counted, MayRemove, Before
      <3>8. Flow(w, n)'
        BY <2>2, <3>2, <3>3, <3>5, <3>6, CreateGoes
      <3>9. QED
        BY <2>1, <3>2, <3>4, <3>5, <3>7, <3>8, FlowStep DEF Account!AccountAssumption
    <2>5. QED
      BY <1>5, <2>3, <2>4
  <1>6. QED
    BY <1>1, <1>4, <1>5

LEMMA WhichIdKeeps ==
  ASSUME Account!AccountAssumption, FlowInv, NEW w \in Workers, Account!WhichId(w)
  PROVE  FlowInv'
  <1>1. /\ req[w].at = "whichId" /\ Counts /\ UNCHANGED <<Account!router, Account!store>>
        /\ \/ /\ Account!Owned(w) /\ account.id # 0
              /\ Account!Goes(w, [req[w] EXCEPT !.id = account.id, !.at = "store"])
           \/ \E lost \in BOOLEAN : Account!FailsBy(w, lost)
    BY Zenon DEF Account!WhichId, Account!Create, Account!Reading, Account!Fails, Counts, Account!Smooth
  <1>2. PICK r \in Workflows : r = req[w]
    BY FlowOK
  <1>3. /\ r.at \in Account!CreateStages /\ r.at \in Underway /\ req[w].at \in Underway
        /\ UNCHANGED <<holder, begun, registered>>
    <2>1. r.at = "whichId" /\ req[w].at = "whichId"
      BY <1>1, <1>2
    <2>2. "whichId" \in Account!CreateStages /\ "whichId" \in Underway
      BY DEF Account!CreateStages, Underway
    <2>3. UNCHANGED <<holder, begun, registered>>
      BY <1>1, Zenon DEF Account!FailsBy, Account!Goes
    <2>4. QED
      BY <2>1, <2>2, <2>3
  <1>4. CASE \E lost \in BOOLEAN : Account!FailsBy(w, lost)
    BY <1>1, <1>3, <1>4, StillCalm, FailCalm DEF FlowInv
  <1>5. CASE /\ Account!Owned(w) /\ account.id # 0
             /\ Account!Goes(w, [req[w] EXCEPT !.id = account.id, !.at = "store"])
    <2>1. /\ FlowShape(r) /\ FlowKnows(w, r) /\ CreateKnows(w, r) /\ CreateOwns(w, r)
          /\ r.kind = "create" /\ r.verdict = "none" /\ r.keys = {Account!Gate, Account!Name}
          /\ r.id = 0 /\ r.cert = 0 /\ r.confirmed /\ ~r.lost
      BY <1>1, <1>2, <1>3, <1>5, Creating DEF FlowShape, Sure
    <2>2. PICK i \in Account!Ids : i = account.id /\ i < nextId
      BY <1>5 DEF FlowInv, World, WorldTyped, NumbersOK
    <2> DEFINE n == [r EXCEPT !.id = i, !.at = "store"]
    <2>3. n \in Workflows
      <3>1. PICK m \in Workflows : m = [r EXCEPT !.id = i]
        BY DEF Workflows
      <3>2. "store" \in Account!CreateStages
        BY DEF Account!CreateStages
      <3>3. [m EXCEPT !.at = "store"] \in Workflows
        BY <3>2 DEF Workflows
      <3>4. n = [m EXCEPT !.at = "store"]
        BY <3>1 DEF Workflows
      <3>5. QED
        BY <3>3, <3>4
    <2>4. /\ n.at = "store" /\ n.kind = r.kind /\ n.keys = r.keys /\ n.id = i
          /\ n.cert = r.cert /\ n.confirmed = r.confirmed /\ n.verdict = r.verdict /\ n.lost = r.lost
      BY DEF Workflows
    <2>5. Account!Goes(w, n)
      BY <1>2, <1>5, <2>2
    <2> HIDE DEF n
    <2>6. FlowShape(n) /\ n.at \in Account!CreateStages
      BY <1>5, <2>1, <2>2, <2>4 DEF FlowShape, Account!CreateStages, Account!IssueStages,
         Account!DeleteStages, Account!RevokeStages, WithCert, Storing
    <2>7. /\ FlowKnows(w, n) /\ CreateKnows(w, n) /\ CreateOwns(w, n)
      BY <1>1, <1>2, <1>5, <2>1, <2>2, <2>4 DEF FlowKnows, CreateKnows, CreateOwns, Closing, Storing
    <2>8. Flow(w, n)
      BY <2>1, <2>4, <2>6, <2>7 DEF Flow, FlowRelies, FlowSays, Account!CreateStages,
         Account!IssueStages, Account!DeleteStages
    <2>9. MayRemove(req[w])
      BY <1>1 DEF MayRemove, Before
    <2>10. QED
      BY <1>1, <2>3, <2>5, <2>6, <2>8, <2>9, StillGoes
  <1>6. QED
    BY <1>1, <1>4, <1>5

\* A record that differs from another one in its stage only.
Flows(r, n) ==
  /\ n.kind = r.kind /\ n.keys = r.keys /\ n.id = r.id /\ n.cert = r.cert /\ n.todo = r.todo
  /\ n.listed = r.listed /\ n.rate = r.rate /\ n.rateBefore = r.rateBefore
  /\ n.confirmed = r.confirmed /\ n.lost = r.lost /\ n.certCleanup = r.certCleanup
  /\ n.absent = r.absent /\ n.recovery = r.recovery /\ n.verdict = r.verdict
StagesOf == {"idle"} \cup Account!CreateStages \cup Account!IssueStages
              \cup Account!DeleteStages \cup Account!RevokeStages

LEMMA AtOK ==
  ASSUME NEW r \in Workflows, NEW s \in StagesOf
  PROVE  \E n \in Workflows : n = [r EXCEPT !.at = s] /\ n.at = s /\ Flows(r, n)
  <1> DEFINE n == [r EXCEPT !.at = s]
  <1>1. n \in Workflows
    BY DEF Workflows, StagesOf
  <1>2. n.at = s /\ Flows(r, n)
    BY DEF Workflows, Flows
  <1> HIDE DEF n
  <1>3. QED
    BY <1>1, <1>2 DEF n

\* A creation goes to another stage; the world moves by a.
LEMMA CreateTo ==
  ASSUME Account!AccountAssumption, FlowInv, World', NEW w \in Workers, NEW n \in Workflows,
         Account!Goes(w, n), NEW a \in {w, Nobody}, Moves(a),
         nextId' = nextId, account'.id = account.id, MayRemove(n) => MayRemove(req[w]),
         n.at \in Account!CreateStages, n.verdict = "none", FlowShape(n),
         FlowKnows(w, n)', CreateKnows(w, n)', Sure(w, n)' => CreateOwns(w, n)'
  PROVE  FlowInv'
  <1>1. req' = [req EXCEPT ![w] = n] /\ Counted(w, n)
    BY DEF Account!Goes, Counted
  <1>2. Flow(w, n)'
    BY CreateGoes DEF FlowShape
  <1>3. QED
    BY <1>1, <1>2, FlowStep DEF Account!AccountAssumption

LEMMA StoreSettingsKeeps ==
  ASSUME Account!AccountAssumption, FlowInv, NEW w \in Workers, Account!StoreSettings(w)
  PROVE  FlowInv'
  <1>1. /\ req[w].at = "store" /\ UNCHANGED <<Account!router, device>> /\ Counts
        /\ \/ /\ Account!Owned(w)
              /\ \/ settings' = req[w].id /\ Account!To(w, "profile")
                 \/ settings' \in {settings, req[w].id} /\ Account!FailsBy(w, FALSE)
           \/ UNCHANGED settings /\ Account!FailsBy(w, TRUE)
    BY Zenon DEF Account!StoreSettings, Account!Create, Account!Fails, Counts, Account!Smooth,
                 Account!store
  <1>2. PICK r \in Workflows : r = req[w]
    BY FlowOK
  <1>3. /\ r.at \in Account!CreateStages /\ r.at \in Underway /\ req[w].at \in Underway
        /\ UNCHANGED <<holder, begun, registered>>
    BY <1>1, <1>2 DEF Account!CreateStages, Underway, Storing, Account!FailsBy, Account!Goes, Account!To
  <1>4. CASE UNCHANGED settings /\ Account!FailsBy(w, TRUE)
    BY <1>1, <1>3, <1>4, StillCalm, FailCalm DEF FlowInv, Account!store
  <1>5. CASE /\ Account!Owned(w)
             /\ \/ settings' = req[w].id /\ Account!To(w, "profile")
                \/ settings' \in {settings, req[w].id} /\ Account!FailsBy(w, FALSE)
    <2>1. /\ holder[Account!Name] = w /\ FlowShape(r) /\ FlowKnows(w, r) /\ CreateKnows(w, r)
          /\ CreateOwns(w, r) /\ r.at = "store" /\ ~r.lost
          /\ r.kind = "create" /\ r.verdict = "none" /\ r.keys = {Account!Gate, Account!Name}
      BY <1>1, <1>2, <1>3, <1>5, Creating DEF FlowShape, Sure, Storing
    <2>2. UNCHANGED <<account, rateSet, tunnels, cert, made, nextId, device>>
      BY <1>1 DEF Account!router
    <2>3. settings' \in {0} \cup Account!Ids /\ account.id \notin registered
      <3>1. settings \in {0} \cup Account!Ids
        BY DEF FlowInv, World, WorldTyped
      <3>2. r.id \in {0} \cup Account!Ids
        BY DEF Workflows
      <3>3. settings' \in {settings, r.id}
        BY <1>2, <1>5
      <3>4. account.id \notin registered
        BY <2>1 DEF CreateOwns
      <3>5. QED
        BY <3>1, <3>2, <3>3, <3>4
    <2>4. World'
      <3>1. mishaps' \in 0..MaxAccountMishaps
        BY <1>1, CountsOK DEF FlowInv
      <3>2. QED
        BY <1>3, <2>2, <2>3, <3>1 DEF FlowInv, World, WorldTyped, RowsOK, NumbersOK
    <2>5. Moves(w)
      BY <1>3, <2>1, <2>2 DEF Moves, FlowInv, World, WorldTyped
    <2>6. FlowKnows(w, r)' /\ CreateKnows(w, r)' /\ CreateOwns(w, r)'
      BY <1>3, <2>1, <2>2 DEF FlowKnows, CreateKnows, CreateOwns, Storing
    <2>7. CASE Account!FailsBy(w, FALSE)
      <3>1. Flow(w, r)'
        BY <1>3, <2>1, <2>6, CreateGoes
      <3>2. QED
        BY <1>2, <1>3, <2>2, <2>4, <2>5, <2>7, <3>1, FailStep
    <2>8. CASE settings' = req[w].id /\ Account!To(w, "profile")
      <3>1. PICK n \in Workflows : n = [r EXCEPT !.at = "profile"] /\ n.at = "profile" /\ Flows(r, n)
        BY AtOK DEF StagesOf, Account!CreateStages
      <3>2. Account!Goes(w, n)
        BY <1>2, <2>8, <3>1 DEF Account!To
      <3>3. FlowShape(n) /\ n.at \in Account!CreateStages /\ n.verdict = "none"
        BY <2>1, <3>1 DEF Flows, FlowShape, Account!CreateStages, Account!IssueStages,
           Account!DeleteStages, Account!RevokeStages, WithCert, Storing
      <3>4. FlowKnows(w, n)' /\ CreateKnows(w, n)' /\ CreateOwns(w, n)'
        BY <1>2, <2>1, <2>6, <2>8, <3>1 DEF Flows, FlowKnows, CreateKnows, CreateOwns, Closing, Storing
      <3>5. MayRemove(req[w])
        BY <1>1 DEF MayRemove, Before
      <3>6. QED
        BY <2>2, <2>4, <2>5, <3>2, <3>3, <3>4, <3>5, CreateTo
    <2>9. QED
      BY <1>5, <2>7, <2>8
  <1>6. QED
    BY <1>1, <1>4, <1>5

\* provision_profile made certificate c for account i.
MadeFor(c, i) ==
  /\ cert[c] = "none" /\ cert' = [cert EXCEPT ![c] = "active"] /\ made' = [made EXCEPT ![c] = i]
  /\ UNCHANGED <<account, nextId, rateSet, tunnels>>

LEMMA MadeOK ==
  ASSUME World, NEW c \in Account!Certs, NEW i \in {0} \cup Account!Ids, MadeFor(c, i),
         UNCHANGED <<Account!store, registered, begun>>
  PROVE  Calm /\ cert'[c] = "active" /\ made'[c] = i
  <1>1. /\ cert \in [Account!Certs -> {"none", "active", "revoked"}]
        /\ made \in [Account!Certs -> {0} \cup Account!Ids]
    BY DEF World, WorldTyped
  <1>2. /\ cert' \in [Account!Certs -> {"none", "active", "revoked"}]
        /\ made' \in [Account!Certs -> {0} \cup Account!Ids]
        /\ cert'[c] = "active" /\ made'[c] = i
        /\ \A d \in Account!Certs : d # c => cert'[d] = cert[d] /\ made'[d] = made[d]
    BY <1>1 DEF MadeFor
  <1>3. QED
    BY <1>2 DEF World, WorldTyped, Calm, MadeFor, Account!store

LEMMA ProvisionFirstKeeps ==
  ASSUME Account!AccountAssumption, FlowInv, NEW w \in Workers, Account!ProvisionFirst(w)
  PROVE  FlowInv'
  <1>1. /\ req[w].at = "profile" /\ Counts /\ UNCHANGED Account!store
        /\ \/ /\ Account!Owned(w)
              /\ \E c \in Account!Certs :
                   \/ /\ MadeFor(c, req[w].id)
                      /\ Account!Goes(w, [req[w] EXCEPT !.cert = c, !.at = "record"])
                   \/ /\ MadeFor(c, req[w].id) \/ UNCHANGED Account!router
                      /\ \E lost \in BOOLEAN : Account!FailsBy(w, lost)
           \/ UNCHANGED Account!router /\ Account!FailsBy(w, TRUE)
    BY Zenon DEF Account!ProvisionFirst, Account!Create, Account!Provision, Counts, Account!Smooth,
                 MadeFor, Account!Elsewhere
  <1>2. PICK r \in Workflows : r = req[w]
    BY FlowOK
  <1>3. /\ r.at \in Account!CreateStages /\ r.at \in Underway /\ req[w].at \in Underway
        /\ UNCHANGED <<holder, begun, registered>> /\ r.at = "profile"
        /\ r.id \in {0} \cup Account!Ids
    BY <1>1, <1>2 DEF Workflows, Account!CreateStages, Underway, Storing, Account!FailsBy, Account!Goes
  <1>4. CASE UNCHANGED Account!router /\ \E lost \in BOOLEAN : Account!FailsBy(w, lost)
    BY <1>1, <1>3, <1>4, StillCalm, FailCalm DEF FlowInv
  <1>5. ASSUME NEW c \in Account!Certs, MadeFor(c, req[w].id),
               \E lost \in BOOLEAN : Account!FailsBy(w, lost)
        PROVE  FlowInv'
    <2>1. Calm
      BY <1>1, <1>2, <1>3, <1>5, MadeOK DEF FlowInv
    <2>2. QED
      BY <1>1, <1>3, <1>5, <2>1, FailCalm
  <1>6. ASSUME NEW c \in Account!Certs, MadeFor(c, req[w].id), Account!Owned(w),
               Account!Goes(w, [req[w] EXCEPT !.cert = c, !.at = "record"])
        PROVE  FlowInv'
    <2>1. Calm /\ cert'[c] = "active" /\ made'[c] = r.id
      BY <1>1, <1>2, <1>3, <1>6, MadeOK DEF FlowInv
    <2>2. World' /\ Moves(Nobody)
      BY <1>1, <1>3, <2>1, CalmOK DEF FlowInv, World, WorldTyped
    <2>3. Flow(w, r)'
      BY <1>1, <1>2, <1>3, <2>1, CalmKept
    <2>4. /\ FlowShape(r) /\ r.kind = "create" /\ r.verdict = "none"
          /\ r.keys = {Account!Gate, Account!Name} /\ ~r.lost
      BY <1>2, <1>3, Creating DEF FlowShape, Storing
    <2> DEFINE n == [r EXCEPT !.cert = c, !.at = "record"]
    <2>5. n \in Workflows
      BY DEF Workflows, Account!CreateStages
    <2>6. /\ n.at = "record" /\ n.kind = r.kind /\ n.keys = r.keys /\ n.id = r.id /\ n.cert = c
          /\ n.confirmed = r.confirmed /\ n.verdict = r.verdict /\ n.lost = r.lost
      BY DEF Workflows
    <2>7. Account!Goes(w, n)
      BY <1>2, <1>6
    <2> HIDE DEF n
    <2>8. FlowShape(n) /\ n.at \in Account!CreateStages /\ n.verdict = "none"
      BY <1>3, <2>4, <2>6 DEF FlowShape, Account!CreateStages, Account!IssueStages,
         Account!DeleteStages, Account!RevokeStages, WithCert, Storing, Account!Certs
    <2>9. /\ FlowKnows(w, n)' /\ CreateKnows(w, n)'
          /\ Sure(w, n)' => Sure(w, r)'
      BY <1>3, <2>1, <2>3, <2>6 DEF Flow, FlowRelies, FlowKnows, CreateKnows, Closing, Sure, Owns
    <2>10. Sure(w, n)' => CreateOwns(w, n)'
      BY <1>3, <2>3, <2>6, <2>9 DEF Flow, FlowRelies, CreateOwns, Storing, Sure, Owns
    <2>11. MayRemove(req[w]) /\ nextId' = nextId /\ account'.id = account.id
      BY <1>1, <2>1 DEF MayRemove, Before, Calm
    <2>12. QED
      BY <2>2, <2>5, <2>7, <2>8, <2>9, <2>10, <2>11, CreateTo
  <1>7. QED
    BY <1>1, <1>4, <1>5, <1>6

\* The row of a certificate made for the account whose lock w holds is opened.
LEMMA OpenedOK ==
  ASSUME Account!AccountAssumption, World, NEW w \in Workers, NEW c \in Account!Certs,
         cert[c] # "none", device' = [device EXCEPT ![c] = "active"],
         UNCHANGED <<Account!router, settings, registered, begun, holder>>, Counts,
         account.id = made[c], holder[Account!Name] = w \/ holder[Account!IdKey(made[c])] = w
  PROVE  World' /\ Moves(w)
  <1>1. /\ device' \in [Account!Certs -> {"none", "active", "revoked"}]
        /\ device'[c] = "active" /\ \A d \in Account!Certs : d # c => device'[d] = device[d]
    BY DEF World, WorldTyped
  <1>2. UNCHANGED <<account, rateSet, tunnels, cert, made, nextId>>
    BY DEF Account!router
  <1>3. mishaps' \in 0..MaxAccountMishaps
    BY CountsOK
  <1>4. World'
    BY <1>1, <1>2, <1>3 DEF World, WorldTyped, RowsOK, NumbersOK
  <1>5. Moves(w)
    BY <1>1, <1>2 DEF Moves, World, WorldTyped
  <1>6. QED
    BY <1>4, <1>5

LEMMA RecordFirstKeeps ==
  ASSUME Account!AccountAssumption, FlowInv, NEW w \in Workers, Account!RecordFirst(w)
  PROVE  FlowInv'
  <1> DEFINE Row == device' = [device EXCEPT ![req[w].cert] = "active"]
  <1>1. /\ req[w].at = "record" /\ UNCHANGED <<Account!router, settings>> /\ Counts
        /\ \/ /\ Account!Owned(w) /\ Row
              /\ Account!To(w, "deliver") \/ Account!FailsBy(w, FALSE)
           \/ UNCHANGED device /\ \E lost \in BOOLEAN : Account!FailsBy(w, lost)
    BY Zenon DEF Account!RecordFirst, Account!Create, Account!Fails, Counts, Account!Smooth,
                 Account!store
  <1>2. PICK r \in Workflows : r = req[w]
    BY FlowOK
  <1>3. /\ r.at \in Account!CreateStages /\ r.at \in Underway /\ req[w].at \in Underway
        /\ UNCHANGED <<holder, begun, registered>> /\ r.at = "record"
    BY <1>1, <1>2 DEF Account!CreateStages, Underway, Storing, Account!FailsBy, Account!Goes, Account!To
  <1>4. CASE UNCHANGED device /\ \E lost \in BOOLEAN : Account!FailsBy(w, lost)
    BY <1>1, <1>3, <1>4, StillCalm, FailCalm DEF FlowInv, Account!store
  <1>5. CASE /\ Account!Owned(w) /\ Row
             /\ Account!To(w, "deliver") \/ Account!FailsBy(w, FALSE)
    <2>1. /\ holder[Account!Name] = w /\ FlowShape(r) /\ FlowKnows(w, r) /\ CreateKnows(w, r)
          /\ CreateOwns(w, r) /\ ~r.lost
          /\ r.kind = "create" /\ r.verdict = "none" /\ r.keys = {Account!Gate, Account!Name}
      BY <1>1, <1>2, <1>3, <1>5, Creating DEF FlowShape, Sure, Storing
    <2>2. UNCHANGED <<account, rateSet, tunnels, cert, made, nextId>>
      BY <1>1 DEF Account!router
    <2>3. /\ r.cert \in Account!Certs /\ cert[r.cert] # "none" /\ made[r.cert] = account.id
      BY <1>3, <2>1 DEF FlowShape, FlowKnows, CreateOwns, WithCert, Storing, Workflows
    <2>4. World' /\ Moves(w)
      BY <1>1, <1>2, <1>3, <1>5, <2>1, <2>3, OpenedOK DEF FlowInv
    <2>5. FlowKnows(w, r)' /\ CreateKnows(w, r)' /\ CreateOwns(w, r)'
      BY <1>1, <1>3, <2>1, <2>2 DEF FlowKnows, CreateKnows, CreateOwns, Storing
    <2>6. CASE Account!FailsBy(w, FALSE)
      <3>1. Flow(w, r)'
        BY <1>3, <2>1, <2>5, CreateGoes
      <3>2. QED
        BY <1>2, <1>3, <2>2, <2>4, <2>6, <3>1, FailStep
    <2>7. CASE Account!To(w, "deliver")
      <3>1. PICK n \in Workflows : n = [r EXCEPT !.at = "deliver"] /\ n.at = "deliver" /\ Flows(r, n)
        BY AtOK DEF StagesOf, Account!CreateStages
      <3>2. Account!Goes(w, n)
        BY <1>2, <2>7, <3>1 DEF Account!To
      <3>3. FlowShape(n) /\ n.at \in Account!CreateStages /\ n.verdict = "none"
        BY <1>3, <2>1, <3>1 DEF Flows, FlowShape, Account!CreateStages, Account!IssueStages,
           Account!DeleteStages, Account!RevokeStages, WithCert, Storing
      <3>4. FlowKnows(w, n)' /\ CreateKnows(w, n)' /\ CreateOwns(w, n)'
        BY <1>3, <2>1, <2>5, <3>1 DEF Flows, FlowKnows, CreateKnows, CreateOwns, Closing, Storing
      <3>5. MayRemove(req[w])
        BY <1>1 DEF MayRemove, Before
      <3>6. QED
        BY <2>2, <2>4, <3>2, <3>3, <3>4, <3>5, CreateTo
    <2>8. QED
      BY <1>5, <2>6, <2>7
  <1>6. QED
    BY <1>1, <1>4, <1>5

LEMMA DeliverFirstKeeps ==
  ASSUME Account!AccountAssumption, FlowInv, NEW w \in Workers, Account!DeliverFirst(w)
  PROVE  FlowInv'
  <1>1. /\ req[w].at = "deliver" /\ UNCHANGED <<Account!router, Account!store>> /\ Counts
        /\ \/ /\ Account!Owned(w) /\ Account!Ends(w, "success")
              /\ registered' = registered \cup {req[w].id}
           \/ \E lost \in BOOLEAN : Account!FailsBy(w, lost)
    BY Zenon DEF Account!DeliverFirst, Account!Create, Account!Fails, Counts, Account!Smooth
  <1>2. PICK r \in Workflows : r = req[w]
    BY FlowOK
  <1>3. /\ r.at \in Account!CreateStages /\ r.at \in Underway /\ req[w].at \in Underway
        /\ r.at = "deliver"
    BY <1>1, <1>2 DEF Account!CreateStages, Underway, Storing
  <1>4. CASE \E lost \in BOOLEAN : Account!FailsBy(w, lost)
    <2>1. UNCHANGED <<registered, begun>>
      BY <1>4 DEF Account!FailsBy, Account!Goes
    <2>2. QED
      BY <1>1, <1>3, <1>4, <2>1, StillCalm, FailCalm DEF FlowInv
  <1>5. CASE /\ Account!Owned(w) /\ Account!Ends(w, "success")
             /\ registered' = registered \cup {req[w].id}
    <2>1. /\ holder[Account!Name] = w /\ FlowShape(r) /\ FlowKnows(w, r)
          /\ CreateOwns(w, r) /\ r.kind = "create"
      BY <1>1, <1>2, <1>3, <1>5, Creating DEF FlowShape, Sure, Storing
    <2>2. /\ UNCHANGED <<account, rateSet, tunnels, cert, made, nextId, device, settings>>
          /\ begun' = begun /\ mishaps' \in 0..MaxAccountMishaps
      BY <1>1, <1>5, CountsOK DEF Account!router, Account!store, Account!Ends, FlowInv
    <2>3. /\ holder' \in [Account!Keys -> Workers \cup {Nobody}]
          /\ \A k \in Account!Keys : holder'[k] # holder[k] => holder'[k] = Nobody
      BY <1>5, LocksBack DEF FlowInv
    <2>4. r.id \in Account!Ids /\ r.id < nextId /\ account.id = r.id /\ settings = r.id
      BY <1>3, <2>1 DEF FlowShape, FlowKnows, CreateOwns, Storing, Workflows
    <2>5. World'
      <3>1. WorldTyped' /\ RowsOK'
        BY <1>2, <1>5, <2>2, <2>3, <2>4 DEF FlowInv, World, WorldTyped, RowsOK
      <3>2. r.id \in 1..(nextId - 1)
        BY <2>4 DEF Account!Ids, FlowInv, World, WorldTyped
      <3>3. NumbersOK'
        BY <1>2, <1>5, <2>2, <2>4, <3>2 DEF FlowInv, World, NumbersOK
      <3>4. QED
        BY <3>1, <3>3 DEF World
    <2>6. Moves(w)
      BY <2>1, <2>2, <2>3, KeysOK DEF Moves, FlowInv, World, WorldTyped
    <2>7. QED
      BY <1>2, <1>5, <2>1, <2>2, <2>5, <2>6, EndsStep DEF Account!Verdicts
  <1>6. QED
    BY <1>1, <1>4, <1>5

-----------------------------------------------------------------------------
\* The compensation.
Undoing(r, lost, cleanup, absent, recovery, i, s) ==
  [r EXCEPT !.lost = lost, !.certCleanup = cleanup, !.absent = absent, !.recovery = recovery,
            !.id = i, !.at = s]
Undone == {"undoCert", "undoneCert"} \cup Closing

LEMMA UndoingOK ==
  ASSUME NEW r \in Workflows, NEW lost \in BOOLEAN,
         NEW cleanup \in {"verified", "mismatch", "unknown"},
         NEW absent \in {"yes", "no", "unknown"}, NEW recovery \in Account!Verdicts,
         NEW i \in {0} \cup Account!Ids, NEW s \in StagesOf
  PROVE  Undoing(r, lost, cleanup, absent, recovery, i, s) \in Workflows
  <1> DEFINE a == [r EXCEPT !.lost = lost]
             b == [a EXCEPT !.certCleanup = cleanup]
             c == [b EXCEPT !.absent = absent]
             d == [c EXCEPT !.recovery = recovery]
             e == [d EXCEPT !.id = i]
  <1>1. Undoing(r, lost, cleanup, absent, recovery, i, s) = [e EXCEPT !.at = s]
    BY DEF Undoing
  <1>2. a \in Workflows
    BY DEF Workflows
  <1> HIDE DEF a
  <1>3. b \in Workflows
    BY <1>2 DEF Workflows
  <1> HIDE DEF b
  <1>4. c \in Workflows
    BY <1>3 DEF Workflows
  <1> HIDE DEF c
  <1>5. d \in Workflows
    BY <1>4 DEF Workflows
  <1> HIDE DEF d
  <1>6. e \in Workflows
    BY <1>5 DEF Workflows
  <1> HIDE DEF e
  <1>7. [e EXCEPT !.at = s] \in Workflows
    BY <1>6 DEF Workflows, StagesOf
  <1>8. QED
    BY <1>1, <1>7

\* What a step of the compensation of r may write, after the step.
UndoMay(w, r, lost, cleanup, absent, recovery, i, s) ==
  /\ lost \in BOOLEAN /\ cleanup \in {"verified", "mismatch", "unknown"}
  /\ absent \in {"yes", "no", "unknown"} /\ recovery \in Account!Verdicts
  /\ i \in {0} \cup Account!Ids /\ s \in Undone \ {"undoCert"}
  /\ s = "undoneCert" => r.cert # 0 /\ r.id # 0
  /\ s = "undoFound" => i # 0
  /\ s \in Closing /\ cleanup = "verified" /\ r.cert # 0 => cert'[r.cert] = "revoked"
  /\ s \in {"rateLeft", "forget"} /\ absent = "yes" /\ account'.id # 0 => account'.by # w
  /\ s = "forget" /\ recovery = "recovered" => absent = "yes" /\ cleanup = "verified"
  /\ s = "forget" /\ recovery = "recovered" /\ r.rate => rateSet' = r.rateBefore
  /\ s \in {"undoneCert", "undoAccount", "absent"} =>
       i = r.id /\ r.at \in {"undoCert", "undoneCert", "undoAccount"}
  /\ i # r.id => r.at = "absent" /\ r.confirmed /\ r.id = 0 /\ i = account'.id /\ i < nextId'
  /\ ~lost /\ Owns(w, r)' => Sure(w, r)'

LEMMA UndoFlow ==
  ASSUME NEW w \in Workers, NEW r \in Workflows, r.at \in Undone, r.kind = "create",
         r.verdict = "none", r.keys = {Account!Gate, Account!Name},
         FlowShape(r), FlowKnows(w, r)', CreateKnows(w, r)', Sure(w, r)' => CreateOwns(w, r)',
         NEW lost, NEW cleanup, NEW absent, NEW recovery, NEW i, NEW s,
         UndoMay(w, r, lost, cleanup, absent, recovery, i, s)
  PROVE  LET n == Undoing(r, lost, cleanup, absent, recovery, i, s) IN
         /\ n \in Workflows /\ n.at = s /\ n.id = i /\ n.verdict = "none"
         /\ n.at \in Account!CreateStages /\ FlowShape(n)
         /\ FlowKnows(w, n)' /\ CreateKnows(w, n)'
         /\ Sure(w, n)' => CreateOwns(w, n)'
  <1> DEFINE n == Undoing(r, lost, cleanup, absent, recovery, i, s)
  <1>1. n \in Workflows
    <2>1. s \in StagesOf
      BY DEF UndoMay, StagesOf, Undone, Closing, Account!CreateStages
    <2>2. QED
      BY <2>1, UndoingOK DEF UndoMay
  <1>2. /\ n.at = s /\ n.lost = lost /\ n.certCleanup = cleanup /\ n.absent = absent
        /\ n.recovery = recovery /\ n.id = i
        /\ n.kind = r.kind /\ n.keys = r.keys /\ n.cert = r.cert /\ n.rate = r.rate
        /\ n.rateBefore = r.rateBefore /\ n.confirmed = r.confirmed /\ n.verdict = r.verdict
    BY DEF Undoing, Workflows, UndoMay
  <1> HIDE DEF n
  <1>3. n.at \in Account!CreateStages /\ n.verdict = "none" /\ FlowShape(n)
    BY <1>2 DEF UndoMay, Undone, Closing, FlowShape, Account!CreateStages, Account!IssueStages,
       Account!DeleteStages, Account!RevokeStages, WithCert, Storing
  <1>4. FlowKnows(w, n)'
    BY <1>2 DEF UndoMay, FlowKnows, Undone, Closing
  <1>5. CreateKnows(w, n)'
    BY <1>2 DEF UndoMay, CreateKnows
  <1>6. Sure(w, n)' => Sure(w, r)'
    BY <1>2 DEF UndoMay, Sure, Owns
  <1>7. ASSUME Sure(w, n)' PROVE CreateOwns(w, n)'
    <2>1. CreateOwns(w, r)' /\ Sure(w, r)'
      BY <1>6, <1>7
    <2>2. /\ account'.id \notin registered'
          /\ s \notin Storing /\ s # "whichId"
      BY <2>1 DEF UndoMay, CreateOwns, Undone, Closing, Storing
    <2>3. account'.id = i /\ i # 0 => account'.by = w
      BY <2>1 DEF UndoMay, CreateOwns
    <2>4. s \in {"undoAccount", "absent"} /\ r.confirmed /\ i = 0 => account'.id # 0 /\ account'.by = w
      BY <2>1 DEF UndoMay, CreateOwns, FlowShape, Undone, Closing
    <2>5. QED
      BY <1>2, <2>1, <2>2, <2>3, <2>4 DEF UndoMay, CreateOwns
  <1>8. QED
    BY <1>1, <1>2, <1>3, <1>4, <1>5, <1>7, Zenon DEF n

\* A step of the compensation; the world moves by a.
LEMMA UndoStep ==
  ASSUME Account!AccountAssumption, FlowInv, World', NEW w \in Workers, NEW r \in Workflows,
         r = req[w], r.at \in Undone,
         FlowKnows(w, r)', CreateKnows(w, r)', Sure(w, r)' => CreateOwns(w, r)',
         NEW lost, NEW cleanup, NEW absent, NEW recovery, NEW i, NEW s,
         UndoMay(w, r, lost, cleanup, absent, recovery, i, s),
         Account!Goes(w, Undoing(r, lost, cleanup, absent, recovery, i, s)),
         NEW a \in {w, Nobody}, Moves(a), nextId' = nextId,
         \/ account'.id = account.id /\ (s \in Before \/ (s = "absent" /\ i = 0) => MayRemove(r))
         \/ account'.id = 0 /\ MayRemove(r) /\ ~(s \in Before \/ (s = "absent" /\ i = 0))
  PROVE  FlowInv'
  <1>1. /\ r.kind = "create" /\ r.verdict = "none" /\ r.keys = {Account!Gate, Account!Name}
        /\ FlowShape(r)
    BY Creating DEF Undone, Closing, Account!CreateStages
  <1>2. PICK n \in Workflows :
          /\ n = Undoing(r, lost, cleanup, absent, recovery, i, s)
          /\ n.at = s /\ n.id = i /\ n.verdict = "none"
          /\ n.at \in Account!CreateStages /\ FlowShape(n)
          /\ FlowKnows(w, n)' /\ CreateKnows(w, n)'
          /\ Sure(w, n)' => CreateOwns(w, n)'
    <2> DEFINE m == Undoing(r, lost, cleanup, absent, recovery, i, s)
    <2>1. /\ m \in Workflows /\ m.at = s /\ m.id = i /\ m.verdict = "none"
          /\ m.at \in Account!CreateStages /\ FlowShape(m)
          /\ FlowKnows(w, m)' /\ CreateKnows(w, m)'
          /\ Sure(w, m)' => CreateOwns(w, m)'
      BY <1>1, UndoFlow
    <2> HIDE DEF m
    <2>2. PICK n \in Workflows : n = m
      BY <2>1
    <2>3. /\ FlowKnows(w, n)' /\ CreateKnows(w, n)'
          /\ Sure(w, n)' => CreateOwns(w, n)'
      BY <2>1, <2>2 DEF FlowKnows, CreateKnows, CreateOwns, Sure, Owns
    <2>4. QED
      BY <2>1, <2>2, <2>3 DEF m
  <1>3. req' = [req EXCEPT ![w] = n] /\ UNCHANGED <<holder, begun, registered>>
    BY <1>2, Zenon DEF Account!Goes
  <1>4. Counted(w, n)
    BY <1>2, <1>3 DEF Counted, MayRemove
  <1>5. Flow(w, n)'
    BY <1>2, CreateGoes DEF FlowShape
  <1>6. QED
    BY <1>2, <1>3, <1>4, <1>5, FlowStep DEF Account!AccountAssumption

LEMMA UndoCalm ==
  ASSUME Account!AccountAssumption, FlowInv, NEW w \in Workers, NEW r \in Workflows,
         r = req[w], r.at \in Undone, Calm, Counts,
         NEW lost, NEW cleanup, NEW absent, NEW recovery, NEW i, NEW s,
         UndoMay(w, r, lost, cleanup, absent, recovery, i, s),
         Account!Goes(w, Undoing(r, lost, cleanup, absent, recovery, i, s)),
         s \in Before \/ (s = "absent" /\ i = 0) => MayRemove(r)
  PROVE  FlowInv'
  <1>1. UNCHANGED holder /\ nextId' = nextId /\ account'.id = account.id
    BY DEF Account!Goes, Calm
  <1>2. World' /\ Moves(Nobody) /\ Flow(w, r)'
    BY <1>1, CalmOK, CalmKept DEF FlowInv, World, WorldTyped
  <1>3. r.at \in Account!CreateStages
    BY DEF Undone, Closing, Account!CreateStages
  <1>4. /\ FlowKnows(w, r)' /\ CreateKnows(w, r)'
        /\ Sure(w, r)' => CreateOwns(w, r)'
    BY <1>2, <1>3 DEF Flow, FlowRelies
  <1>5. \/ account'.id = account.id /\ (s \in Before \/ (s = "absent" /\ i = 0) => MayRemove(r))
        \/ account'.id = 0 /\ MayRemove(r) /\ ~(s \in Before \/ (s = "absent" /\ i = 0))
    BY <1>1
  <1>6. PICK a \in {w, Nobody} : Moves(a)
    BY <1>2
  <1>7. /\ r = req[w] /\ r.at \in Undone
        /\ UndoMay(w, r, lost, cleanup, absent, recovery, i, s)
        /\ Account!Goes(w, Undoing(r, lost, cleanup, absent, recovery, i, s))
    OBVIOUS
  <1>8. /\ World' /\ FlowKnows(w, r)' /\ CreateKnows(w, r)'
    BY <1>2, <1>4
  <1>9. Sure(w, r)' => CreateOwns(w, r)'
    BY <1>4
  <1>10. nextId' = nextId
    BY <1>1
  <1>11. Moves(a)
    BY <1>6
  <1>12. QED
    BY <1>5, <1>6, <1>7, <1>8, <1>9, <1>10, <1>11, UndoStep

LEMMA Compensating ==
  ASSUME Account!AccountAssumption, FlowInv, NEW w \in Workers, NEW r \in Workflows, r = req[w],
         r.at \in Undone, UNCHANGED holder
  PROVE  /\ r.kind = "create" /\ r.verdict = "none" /\ FlowShape(r) /\ FlowKnows(w, r)
         /\ CreateKnows(w, r)
         /\ Sure(w, r) => CreateOwns(w, r) /\ holder[Account!Name] = w /\ holder[Account!Gate] = w
         /\ (Account!Owned(w) <=> Owns(w, r)) /\ (Account!StillOwned(w) <=> Sure(w, r))
         /\ (Sure(w, r)' <=> Sure(w, r)) /\ (Owns(w, r)' <=> Owns(w, r))
         /\ r.id < nextId
  <1>1. r.at \in Account!CreateStages
    BY DEF Undone, Closing, Account!CreateStages
  <1>2. QED
    BY <1>1, Creating DEF Sure, Owns, Account!StillOwned, Account!Owned, FlowKnows

LEMMA UndoCertKeeps ==
  ASSUME Account!AccountAssumption, FlowInv, NEW w \in Workers, Account!UndoCert(w)
  PROVE  FlowInv'
  <1>1. PICK r \in Workflows, lost \in BOOLEAN : r = req[w] /\ lost = ~Account!StillOwned(w)
    BY FlowOK
  <1>2. /\ r.at = "undoCert" /\ UNCHANGED Account!store /\ Counts
        /\ \/ /\ Account!StillOwned(w)
              /\ Account!CertRevoked(r.cert) \/ UNCHANGED Account!router
              /\ Account!Goes(w, [[r EXCEPT !.lost = lost] EXCEPT !.at = "undoneCert"])
           \/ /\ ~Account!StillOwned(w) /\ UNCHANGED Account!router
              /\ Account!Goes(w, [[r EXCEPT !.lost = lost]
                                    EXCEPT !.certCleanup = "unknown", !.at = "undoAccount"])
    BY <1>1, Zenon DEF Account!UndoCert, Account!Noted, Account!At, Account!Request, Counts,
                       Account!Smooth
  <1>3. r.at \in Undone /\ UNCHANGED <<holder, begun, registered>> /\ MayRemove(r)
    BY <1>2 DEF Undone, Account!Goes, MayRemove, Before
  <1>4. /\ FlowShape(r) /\ (Account!StillOwned(w) <=> Sure(w, r))
        /\ (Sure(w, r)' <=> Sure(w, r)) /\ (Owns(w, r)' <=> Owns(w, r))
    BY <1>1, <1>3, Compensating
  <1>5. r.cert \in Account!Certs /\ r.cert # 0 /\ r.id # 0 /\ r.id \in {0} \cup Account!Ids
        /\ r.certCleanup \in {"verified", "mismatch", "unknown"}
        /\ r.absent \in {"yes", "no", "unknown"} /\ r.recovery \in Account!Verdicts
    BY <1>2, <1>4 DEF FlowShape, WithCert, Storing, Workflows, Account!Certs
  <1>6. Calm
    BY <1>2, <1>3, <1>5, StillCalm, CertRevokedCalm DEF FlowInv
  <1>7. CASE Account!Goes(w, [[r EXCEPT !.lost = lost] EXCEPT !.at = "undoneCert"])
    <2>1. UndoMay(w, r, lost, r.certCleanup, r.absent, r.recovery, r.id, "undoneCert")
      BY <1>1, <1>2, <1>4, <1>5 DEF UndoMay, Undone, Closing, Sure
    <2>2. [[r EXCEPT !.lost = lost] EXCEPT !.at = "undoneCert"]
            = Undoing(r, lost, r.certCleanup, r.absent, r.recovery, r.id, "undoneCert")
      BY DEF Workflows, Undoing
    <2>3. Account!Goes(w, Undoing(r, lost, r.certCleanup, r.absent, r.recovery, r.id, "undoneCert"))
      BY <1>7, <2>2, Zenon
    <2>4. QED
      BY <1>1, <1>2, <1>3, <1>6, <2>1, <2>3, UndoCalm
  <1>8. CASE Account!Goes(w, [[r EXCEPT !.lost = lost]
                                EXCEPT !.certCleanup = "unknown", !.at = "undoAccount"])
    <2>1. UndoMay(w, r, lost, "unknown", r.absent, r.recovery, r.id, "undoAccount")
      BY <1>1, <1>2, <1>4, <1>5 DEF UndoMay, Undone, Closing, Sure
    <2>2. [[r EXCEPT !.lost = lost] EXCEPT !.certCleanup = "unknown", !.at = "undoAccount"]
            = Undoing(r, lost, "unknown", r.absent, r.recovery, r.id, "undoAccount")
      BY DEF Workflows, Undoing
    <2>3. Account!Goes(w, Undoing(r, lost, "unknown", r.absent, r.recovery, r.id, "undoAccount"))
      BY <1>8, <2>2, Zenon
    <2>4. QED
      BY <1>1, <1>2, <1>3, <1>6, <2>1, <2>3, UndoCalm
  <1>9. QED
    BY <1>2, <1>7, <1>8

LEMMA UndoneCertKeeps ==
  ASSUME Account!AccountAssumption, FlowInv, NEW w \in Workers, Account!UndoneCert(w)
  PROVE  FlowInv'
  <1>1. PICK r \in Workflows, lost \in BOOLEAN : r = req[w] /\ lost = ~Account!StillOwned(w)
    BY FlowOK
  <1>2. /\ r.at = "undoneCert" /\ UNCHANGED <<Account!router, Account!store>> /\ Counts
        /\ \E c \in {"verified", "mismatch", "unknown"} :
             /\ c = "verified" => cert[r.cert] = "revoked"
             /\ Account!Goes(w, [[r EXCEPT !.lost = lost] EXCEPT !.certCleanup = c, !.at = "undoAccount"])
    BY <1>1, Zenon DEF Account!UndoneCert, Account!Noted, Account!At, Account!Reading, Counts,
                       Account!Smooth
  <1>3. r.at \in Undone /\ UNCHANGED <<holder, begun, registered>> /\ MayRemove(r)
    BY <1>2 DEF Undone, Account!Goes, MayRemove, Before
  <1>4. /\ FlowShape(r) /\ (Account!StillOwned(w) <=> Sure(w, r))
        /\ (Sure(w, r)' <=> Sure(w, r)) /\ (Owns(w, r)' <=> Owns(w, r))
    BY <1>1, <1>3, Compensating
  <1>5. r.id \in {0} \cup Account!Ids /\ UNCHANGED cert
        /\ r.absent \in {"yes", "no", "unknown"} /\ r.recovery \in Account!Verdicts
    BY <1>2 DEF Workflows, Account!router
  <1>6. Calm
    BY <1>2, <1>3, StillCalm DEF FlowInv
  <1>7. PICK c \in {"verified", "mismatch", "unknown"} :
             /\ c = "verified" => cert[r.cert] = "revoked"
             /\ Account!Goes(w, [[r EXCEPT !.lost = lost] EXCEPT !.certCleanup = c, !.at = "undoAccount"])
    BY <1>2
  <1>8. UndoMay(w, r, lost, c, r.absent, r.recovery, r.id, "undoAccount")
    BY <1>1, <1>2, <1>4, <1>5, <1>7 DEF UndoMay, Undone, Closing, Sure
  <1>9. [[r EXCEPT !.lost = lost] EXCEPT !.certCleanup = c, !.at = "undoAccount"]
          = Undoing(r, lost, c, r.absent, r.recovery, r.id, "undoAccount")
    BY DEF Workflows, Undoing
  <1>10. Account!Goes(w, Undoing(r, lost, c, r.absent, r.recovery, r.id, "undoAccount"))
    BY <1>7, <1>9, Zenon
  <1>11. QED
    BY <1>1, <1>2, <1>3, <1>6, <1>8, <1>10, UndoCalm

\* The account is removed by one that holds its locks.
LEMMA GoneOK ==
  ASSUME Account!AccountAssumption, World, NEW w \in Workers, NEW id, Account!AccountGone(id),
         account.id = id, id # 0, holder[Account!Name] = w,
         holder[Account!Gate] = w \/ holder[Account!IdKey(id)] = w,
         UNCHANGED <<Account!store, registered, begun, holder>>, Counts
  PROVE  /\ World' /\ Moves(w) /\ account'.id = 0 /\ nextId' = nextId
         /\ UNCHANGED <<rateSet, tunnels, cert, made, settings, device>>
  <1>1. /\ account' = [id |-> 0, disabled |-> FALSE, by |-> Nobody] /\ nextId' = nextId
        /\ UNCHANGED <<rateSet, tunnels, cert, made, settings, device>>
    BY DEF Account!AccountGone, Account!AccountBecomes, Account!NoAccount, Account!Elsewhere,
           Account!store
  <1>2. mishaps' \in 0..MaxAccountMishaps
    BY CountsOK
  <1>3. account' \in [id : {0} \cup Account!Ids, disabled : BOOLEAN, by : Workers \cup {Nobody}]
    BY <1>1
  <1>4. World'
    BY <1>1, <1>2, <1>3 DEF World, WorldTyped, RowsOK, NumbersOK
  <1>5. Moves(w)
    BY <1>1 DEF Moves, World, WorldTyped, Account!AccountAssumption
  <1>6. QED
    BY <1>1, <1>4, <1>5

LEMMA GoneNothing ==
  ASSUME World, NEW id, Account!AccountGone(id), account.id # id PROVE UNCHANGED Account!router
  BY DEF Account!AccountGone, Account!AccountBecomes, Account!Elsewhere, Account!router

LEMMA UndoAccountKeeps ==
  ASSUME Account!AccountAssumption, FlowInv, NEW w \in Workers, Account!UndoAccount(w)
  PROVE  FlowInv'
  <1>1. PICK r \in Workflows, lost \in BOOLEAN : r = req[w] /\ lost = ~Account!StillOwned(w)
    BY FlowOK
  <1>2. /\ r.at = "undoAccount" /\ UNCHANGED Account!store /\ Counts
        /\ Account!Goes(w, [[r EXCEPT !.lost = lost] EXCEPT !.at = "absent"])
        /\ \/ r.id # 0 /\ Account!StillOwned(w) /\ Account!AccountGone(r.id)
           \/ UNCHANGED Account!router
    BY <1>1, Zenon DEF Account!UndoAccount, Account!Noted, Account!At, Account!Request, Counts,
                       Account!Smooth
  <1>3. r.at \in Undone /\ UNCHANGED <<holder, begun, registered>> /\ MayRemove(r)
    BY <1>2 DEF Undone, Closing, Account!Goes, MayRemove, Before
  <1>4. /\ FlowShape(r) /\ (Account!StillOwned(w) <=> Sure(w, r))
        /\ (Sure(w, r)' <=> Sure(w, r)) /\ (Owns(w, r)' <=> Owns(w, r))
        /\ FlowKnows(w, r) /\ CreateKnows(w, r)
        /\ Sure(w, r) => CreateOwns(w, r) /\ holder[Account!Name] = w /\ holder[Account!Gate] = w
    BY <1>1, <1>3, Compensating
  <1>5. /\ r.id \in {0} \cup Account!Ids /\ r.cert \in {0} \cup Account!Certs
        /\ r.certCleanup \in {"verified", "mismatch", "unknown"}
        /\ r.absent \in {"yes", "no", "unknown"} /\ r.recovery \in Account!Verdicts
    BY DEF Workflows
  <1>6. Account!Goes(w, Undoing(r, lost, r.certCleanup, r.absent, r.recovery, r.id, "absent"))
    <2>1. [[r EXCEPT !.lost = lost] EXCEPT !.at = "absent"]
            = Undoing(r, lost, r.certCleanup, r.absent, r.recovery, r.id, "absent")
      BY DEF Workflows, Undoing
    <2>2. QED
      BY <1>2, <2>1, Zenon
  <1>7. CASE UNCHANGED Account!router
    <2>1. Calm /\ UNCHANGED cert
      BY <1>2, <1>3, <1>7, StillCalm DEF FlowInv, Account!router
    <2>2. UndoMay(w, r, lost, r.certCleanup, r.absent, r.recovery, r.id, "absent")
      BY <1>1, <1>2, <1>4, <1>5, <2>1 DEF UndoMay, Undone, Closing, Sure, FlowKnows
    <2>3. QED
      BY <1>1, <1>2, <1>3, <1>6, <2>1, <2>2, UndoCalm
  <1>8. CASE r.id # 0 /\ Account!StillOwned(w) /\ Account!AccountGone(r.id) /\ account.id = r.id
    <2>1. /\ World' /\ Moves(w) /\ account'.id = 0 /\ nextId' = nextId
          /\ UNCHANGED <<rateSet, tunnels, cert, made, settings, device>>
      BY <1>2, <1>3, <1>4, <1>8, GoneOK DEF FlowInv
    <2>2. UndoMay(w, r, lost, r.certCleanup, r.absent, r.recovery, r.id, "absent")
      BY <1>1, <1>2, <1>4, <1>5, <2>1 DEF UndoMay, Undone, Closing, Sure, FlowKnows
    <2>3. 0 \notin registered
      BY DEF FlowInv, World, NumbersOK
    <2>4. /\ FlowKnows(w, r)' /\ CreateKnows(w, r)' /\ CreateOwns(w, r)'
      BY <1>2, <1>3, <1>4, <1>8, <2>1, <2>3 DEF FlowKnows, CreateKnows, CreateOwns, Storing
    <2>5. "absent" \notin Before
      BY DEF Before
    <2>6. QED
      BY <1>1, <1>3, <1>6, <1>8, <2>1, <2>2, <2>4, <2>5, UndoStep
  <1>9. QED
    BY <1>2, <1>7, <1>8, GoneNothing DEF FlowInv

LEMMA AbsentKeeps ==
  ASSUME Account!AccountAssumption, FlowInv, NEW w \in Workers, Account!Absent(w)
  PROVE  FlowInv'
  <1> DEFINE Says(yes) == [req[w] EXCEPT !.absent = yes, !.at = "rateLeft"]
  <1>1. PICK r \in Workflows : r = req[w]
    BY FlowOK
  <1>2. /\ r.at = "absent" /\ UNCHANGED <<Account!router, Account!store>> /\ Counts
        /\ \/ CASE req[w].id # 0 ->
                     Account!Goes(w, Says(IF account.id = req[w].id THEN "no" ELSE "yes"))
                [] account.id = 0 -> Account!Goes(w, Says("yes"))
                [] ~req[w].confirmed -> Account!Goes(w, Says("no"))
                [] OTHER -> Account!Goes(w, [req[w] EXCEPT !.id = account.id, !.at = "undoFound"])
           \/ Account!Goes(w, Says("unknown"))
    BY <1>1, Zenon DEF Account!Absent, Account!At, Account!Reading, Counts, Account!Smooth
  <1>3. \/ \E yes \in {"yes", "no", "unknown"} :
             /\ yes = "yes" => (IF r.id # 0 THEN account.id # r.id ELSE account.id = 0)
             /\ Account!Goes(w, [r EXCEPT !.absent = yes, !.at = "rateLeft"])
        \/ /\ r.id = 0 /\ account.id # 0 /\ r.confirmed
           /\ Account!Goes(w, [r EXCEPT !.id = account.id, !.at = "undoFound"])
    BY <1>1, <1>2
  <1>4. r.at \in Undone /\ UNCHANGED <<holder, begun, registered>>
    BY <1>2, <1>3 DEF Undone, Closing, Account!Goes
  <1>5. /\ FlowShape(r) /\ FlowKnows(w, r) /\ CreateKnows(w, r)
        /\ (Sure(w, r)' <=> Sure(w, r)) /\ (Owns(w, r)' <=> Owns(w, r))
    BY <1>1, <1>4, Compensating
  <1>6. Calm /\ UNCHANGED <<account, cert, nextId>>
    BY <1>2, <1>4, StillCalm DEF FlowInv, Account!router
  <1>7. /\ r.lost \in BOOLEAN /\ r.certCleanup \in {"verified", "mismatch", "unknown"}
        /\ r.absent \in {"yes", "no", "unknown"} /\ r.recovery \in Account!Verdicts
        /\ r.id \in {0} \cup Account!Ids /\ r.cert \in {0} \cup Account!Certs
    BY DEF Workflows
  <1>8. ASSUME NEW yes \in {"yes", "no", "unknown"},
               yes = "yes" => (IF r.id # 0 THEN account.id # r.id ELSE account.id = 0),
               Account!Goes(w, [r EXCEPT !.absent = yes, !.at = "rateLeft"])
        PROVE  FlowInv'
    <2>1. UndoMay(w, r, r.lost, r.certCleanup, yes, r.recovery, r.id, "rateLeft")
      BY <1>2, <1>5, <1>6, <1>7, <1>8 DEF UndoMay, Undone, Closing, Sure, FlowKnows, CreateKnows
    <2>2. [r EXCEPT !.absent = yes, !.at = "rateLeft"]
            = Undoing(r, r.lost, r.certCleanup, yes, r.recovery, r.id, "rateLeft")
      BY DEF Workflows, Undoing
    <2>3. Account!Goes(w, Undoing(r, r.lost, r.certCleanup, yes, r.recovery, r.id, "rateLeft"))
      BY <1>8, <2>2, Zenon
    <2>4. "rateLeft" \notin Before
      BY DEF Before
    <2>5. QED
      BY <1>1, <1>2, <1>4, <1>6, <2>1, <2>3, <2>4, UndoCalm
  <1>9. CASE /\ r.id = 0 /\ account.id # 0 /\ r.confirmed
             /\ Account!Goes(w, [r EXCEPT !.id = account.id, !.at = "undoFound"])
    <2>1. PICK i \in Account!Ids : i = account.id /\ i < nextId
      BY <1>9 DEF FlowInv, World, WorldTyped, NumbersOK
    <2>2. UndoMay(w, r, r.lost, r.certCleanup, r.absent, r.recovery, i, "undoFound")
      BY <1>2, <1>5, <1>6, <1>7, <1>9, <2>1 DEF UndoMay, Undone, Closing, Sure, FlowKnows
    <2>3. [r EXCEPT !.id = i, !.at = "undoFound"]
            = Undoing(r, r.lost, r.certCleanup, r.absent, r.recovery, i, "undoFound")
      BY DEF Workflows, Undoing
    <2>4. Account!Goes(w, Undoing(r, r.lost, r.certCleanup, r.absent, r.recovery, i, "undoFound"))
      BY <1>9, <2>1, <2>3, Zenon
    <2>5. MayRemove(r)
      BY <1>2, <1>9 DEF MayRemove
    <2>6. QED
      BY <1>1, <1>2, <1>4, <1>6, <2>2, <2>4, <2>5, UndoCalm
  <1>10. QED
    BY <1>3, <1>8, <1>9

LEMMA UndoFoundKeeps ==
  ASSUME Account!AccountAssumption, FlowInv, NEW w \in Workers, Account!UndoFound(w)
  PROVE  FlowInv'
  <1>1. PICK r \in Workflows, lost \in BOOLEAN : r = req[w] /\ lost = ~Account!StillOwned(w)
    BY FlowOK
  <1>2. /\ r.at = "undoFound" /\ UNCHANGED Account!store /\ Counts
        /\ \/ /\ Account!StillOwned(w)
              /\ Account!AccountGone(r.id) \/ UNCHANGED Account!router
              /\ Account!Goes(w, [[r EXCEPT !.lost = lost] EXCEPT !.absent = "no", !.at = "relist"])
           \/ /\ UNCHANGED Account!router
              /\ Account!Goes(w, [[r EXCEPT !.lost = lost]
                                    EXCEPT !.absent = "unknown", !.at = "rateLeft"])
    BY <1>1, Zenon DEF Account!UndoFound, Account!Noted, Account!At, Account!Request, Counts,
                       Account!Smooth
  <1>3. r.at \in Undone /\ UNCHANGED <<holder, begun, registered>> /\ MayRemove(r)
    BY <1>2 DEF Undone, Closing, Account!Goes, MayRemove, Before
  <1>4. /\ FlowShape(r) /\ (Account!StillOwned(w) <=> Sure(w, r))
        /\ (Sure(w, r)' <=> Sure(w, r)) /\ (Owns(w, r)' <=> Owns(w, r))
        /\ FlowKnows(w, r) /\ CreateKnows(w, r)
        /\ Sure(w, r) => CreateOwns(w, r) /\ holder[Account!Name] = w /\ holder[Account!Gate] = w
    BY <1>1, <1>3, Compensating
  <1>5. /\ r.id \in {0} \cup Account!Ids /\ r.cert \in {0} \cup Account!Certs /\ r.id # 0
        /\ r.certCleanup \in {"verified", "mismatch", "unknown"}
        /\ r.absent \in {"yes", "no", "unknown"} /\ r.recovery \in Account!Verdicts
    BY <1>2, <1>4 DEF Workflows, FlowShape
  <1>6. [[r EXCEPT !.lost = lost] EXCEPT !.absent = "unknown", !.at = "rateLeft"]
          = Undoing(r, lost, r.certCleanup, "unknown", r.recovery, r.id, "rateLeft")
    BY DEF Workflows, Undoing
  <1>7. [[r EXCEPT !.lost = lost] EXCEPT !.absent = "no", !.at = "relist"]
          = Undoing(r, lost, r.certCleanup, "no", r.recovery, r.id, "relist")
    BY DEF Workflows, Undoing
  <1>8. ASSUME UNCHANGED Account!router, NEW yes \in {"no", "unknown"},
               NEW s \in {"relist", "rateLeft"},
               Account!Goes(w, Undoing(r, lost, r.certCleanup, yes, r.recovery, r.id, s))
        PROVE  FlowInv'
    <2>1. Calm /\ UNCHANGED cert
      BY <1>2, <1>3, <1>8, StillCalm DEF FlowInv, Account!router
    <2>2. UndoMay(w, r, lost, r.certCleanup, yes, r.recovery, r.id, s)
      BY <1>1, <1>2, <1>4, <1>5, <2>1 DEF UndoMay, Undone, Closing, Sure, FlowKnows
    <2>3. QED
      BY <1>1, <1>2, <1>3, <1>8, <2>1, <2>2, UndoCalm
  <1>9. CASE /\ UNCHANGED Account!router
             /\ Account!Goes(w, [[r EXCEPT !.lost = lost]
                                    EXCEPT !.absent = "unknown", !.at = "rateLeft"])
    <2>1. Account!Goes(w, Undoing(r, lost, r.certCleanup, "unknown", r.recovery, r.id, "rateLeft"))
      BY <1>6, <1>9, Zenon
    <2>2. QED
      BY <1>8, <1>9, <2>1
  <1>10. CASE /\ Account!StillOwned(w)
              /\ Account!AccountGone(r.id) \/ UNCHANGED Account!router
              /\ Account!Goes(w, [[r EXCEPT !.lost = lost] EXCEPT !.absent = "no", !.at = "relist"])
    <2>1. Account!Goes(w, Undoing(r, lost, r.certCleanup, "no", r.recovery, r.id, "relist"))
      BY <1>7, <1>10, Zenon
    <2>2. CASE UNCHANGED Account!router
      BY <1>8, <2>1, <2>2
    <2>3. CASE Account!AccountGone(r.id) /\ account.id = r.id
      <3>1. /\ World' /\ Moves(w) /\ account'.id = 0 /\ nextId' = nextId
            /\ UNCHANGED <<rateSet, tunnels, cert, made, settings, device>>
        BY <1>2, <1>3, <1>4, <1>5, <1>10, <2>3, GoneOK DEF FlowInv
      <3>2. UndoMay(w, r, lost, r.certCleanup, "no", r.recovery, r.id, "relist")
        BY <1>1, <1>2, <1>4, <1>5, <3>1 DEF UndoMay, Undone, Closing, Sure, FlowKnows
      <3>3. 0 \notin registered
        BY DEF FlowInv, World, NumbersOK
      <3>4. /\ FlowKnows(w, r)' /\ CreateKnows(w, r)' /\ CreateOwns(w, r)'
        BY <1>2, <1>3, <1>4, <1>5, <1>10, <3>1, <3>3 DEF FlowKnows, CreateKnows, CreateOwns, Storing
      <3>5. "relist" \notin Before
        BY DEF Before
      <3>6. QED
        BY <1>1, <1>3, <2>1, <3>1, <3>2, <3>4, <3>5, UndoStep
    <2>4. QED
      BY <1>10, <2>2, <2>3, GoneNothing DEF FlowInv
  <1>11. QED
    BY <1>2, <1>9, <1>10

LEMMA RelistKeeps ==
  ASSUME Account!AccountAssumption, FlowInv, NEW w \in Workers, Account!Relist(w)
  PROVE  FlowInv'
  <1>1. PICK r \in Workflows, lost \in BOOLEAN : r = req[w] /\ lost = ~Account!StillOwned(w)
    BY FlowOK
  <1>2. /\ r.at = "relist" /\ UNCHANGED <<Account!router, Account!store>> /\ Counts
        /\ \/ Account!Goes(w, [r EXCEPT !.absent = IF account.id = 0 THEN "yes" ELSE "no",
                                        !.at = "rateLeft"])
           \/ Account!Goes(w, [r EXCEPT !.absent = "unknown", !.at = "rateLeft"])
           \/ Account!Goes(w, [[r EXCEPT !.lost = lost] EXCEPT !.absent = "no", !.at = "rateLeft"])
    BY <1>1, Zenon DEF Account!Relist, Account!Noted, Account!At, Account!Reading, Counts,
                       Account!Smooth
  <1>3. r.at \in Undone /\ UNCHANGED <<holder, begun, registered>>
    BY <1>2 DEF Undone, Closing, Account!Goes
  <1>4. /\ FlowShape(r) /\ FlowKnows(w, r) /\ (Account!StillOwned(w) <=> Sure(w, r))
        /\ (Sure(w, r)' <=> Sure(w, r)) /\ (Owns(w, r)' <=> Owns(w, r))
    BY <1>1, <1>3, Compensating
  <1>5. Calm /\ UNCHANGED <<account, cert>>
    BY <1>2, <1>3, StillCalm DEF FlowInv, Account!router
  <1>6. /\ r.lost \in BOOLEAN /\ r.certCleanup \in {"verified", "mismatch", "unknown"}
        /\ r.recovery \in Account!Verdicts
        /\ r.id \in {0} \cup Account!Ids /\ r.cert \in {0} \cup Account!Certs
    BY DEF Workflows
  <1>7. ASSUME NEW yes \in {"yes", "no", "unknown"}, yes = "yes" => account.id = 0,
               NEW l \in BOOLEAN, ~l => ~r.lost,
               Account!Goes(w, Undoing(r, l, r.certCleanup, yes, r.recovery, r.id, "rateLeft"))
        PROVE  FlowInv'
    <2>1. UndoMay(w, r, l, r.certCleanup, yes, r.recovery, r.id, "rateLeft")
      BY <1>2, <1>4, <1>5, <1>6, <1>7 DEF UndoMay, Undone, Closing, Sure, FlowKnows
    <2>2. "rateLeft" \notin Before
      BY DEF Before
    <2>3. QED
      BY <1>1, <1>2, <1>3, <1>5, <1>7, <2>1, <2>2, UndoCalm
  <1>8. PICK seen \in {"yes", "no"} : seen = IF account.id = 0 THEN "yes" ELSE "no"
    OBVIOUS
  <1>9. \A yes : [r EXCEPT !.absent = yes, !.at = "rateLeft"]
                   = Undoing(r, r.lost, r.certCleanup, yes, r.recovery, r.id, "rateLeft")
    BY DEF Workflows, Undoing
  <1>10. [[r EXCEPT !.lost = lost] EXCEPT !.absent = "no", !.at = "rateLeft"]
           = Undoing(r, lost, r.certCleanup, "no", r.recovery, r.id, "rateLeft")
    BY DEF Workflows, Undoing
  <1>11. ~lost => ~r.lost
    BY <1>1, <1>4 DEF Sure
  <1>12. \/ Account!Goes(w, Undoing(r, r.lost, r.certCleanup, seen, r.recovery, r.id, "rateLeft"))
         \/ Account!Goes(w, Undoing(r, r.lost, r.certCleanup, "unknown", r.recovery, r.id, "rateLeft"))
         \/ Account!Goes(w, Undoing(r, lost, r.certCleanup, "no", r.recovery, r.id, "rateLeft"))
    BY <1>2, <1>8, <1>9, <1>10, Zenon
  <1>13. QED
    BY <1>6, <1>7, <1>8, <1>11, <1>12

LEMMA RateLeftKeeps ==
  ASSUME Account!AccountAssumption, FlowInv, NEW w \in Workers, Account!RateLeft(w)
  PROVE  FlowInv'
  <1> DEFINE After(v) == [req[w] EXCEPT !.recovery = v, !.at = "forget"]
             Left == IF rateSet = req[w].rateBefore THEN Account!Recovery(w)
                     ELSE IF Account!Recovery(w) = "unknown" THEN "unknown" ELSE "partial"
  <1>1. PICK r \in Workflows : r = req[w]
    BY FlowOK
  <1>2. /\ r.at = "rateLeft" /\ UNCHANGED <<Account!router, Account!store>> /\ Counts
        /\ \/ req[w].rate /\ Account!Goes(w, After(Left))
           \/ Account!Goes(w, After("unknown"))
           \/ ~req[w].rate /\ Account!Goes(w, After(Account!Recovery(w)))
    BY <1>1, Zenon DEF Account!RateLeft, Account!At, Account!Reading, Counts, Account!Smooth
  <1>3. /\ Account!Recovery(w) \in {"recovered", "unknown", "partial"}
        /\ Account!Recovery(w) = "recovered" => r.absent = "yes" /\ r.certCleanup = "verified"
    BY <1>1 DEF Account!Recovery
  <1>4. \E v \in {"recovered", "unknown", "partial"} :
          /\ v = "recovered" => /\ r.absent = "yes" /\ r.certCleanup = "verified"
                                /\ r.rate => rateSet = r.rateBefore
          /\ Account!Goes(w, After(v))
    BY <1>1, <1>2, <1>3
  <1>5. PICK v \in {"recovered", "unknown", "partial"} :
          /\ v = "recovered" => /\ r.absent = "yes" /\ r.certCleanup = "verified"
                                /\ r.rate => rateSet = r.rateBefore
          /\ Account!Goes(w, [r EXCEPT !.recovery = v, !.at = "forget"])
    BY <1>1, <1>4
  <1>6. r.at \in Undone /\ UNCHANGED <<holder, begun, registered>>
    BY <1>2, <1>5 DEF Undone, Closing, Account!Goes
  <1>7. /\ FlowShape(r) /\ FlowKnows(w, r) /\ CreateKnows(w, r)
        /\ (Sure(w, r)' <=> Sure(w, r)) /\ (Owns(w, r)' <=> Owns(w, r))
    BY <1>1, <1>6, Compensating
  <1>8. Calm /\ UNCHANGED <<account, cert, rateSet>>
    BY <1>2, <1>6, StillCalm DEF FlowInv, Account!router
  <1>9. /\ r.lost \in BOOLEAN /\ r.certCleanup \in {"verified", "mismatch", "unknown"}
        /\ r.absent \in {"yes", "no", "unknown"} /\ v \in Account!Verdicts
        /\ r.id \in {0} \cup Account!Ids /\ r.cert \in {0} \cup Account!Certs
    BY DEF Workflows, Account!Verdicts
  <1>10. UndoMay(w, r, r.lost, r.certCleanup, r.absent, v, r.id, "forget")
    BY <1>2, <1>5, <1>7, <1>8, <1>9 DEF UndoMay, Undone, Closing, Sure, FlowKnows, CreateKnows
  <1>11. [r EXCEPT !.recovery = v, !.at = "forget"]
           = Undoing(r, r.lost, r.certCleanup, r.absent, v, r.id, "forget")
    BY DEF Workflows, Undoing
  <1>12. Account!Goes(w, Undoing(r, r.lost, r.certCleanup, r.absent, v, r.id, "forget"))
    BY <1>5, <1>11, Zenon
  <1>13. "forget" \notin Before
    BY DEF Before
  <1>14. QED
    BY <1>1, <1>2, <1>6, <1>8, <1>10, <1>12, <1>13, UndoCalm

-----------------------------------------------------------------------------
\* How a request goes on, or ends, on the way.
LEMMA StageStep ==
  ASSUME Account!AccountAssumption, FlowInv, World', NEW w \in Workers, NEW n \in Workflows,
         Account!Goes(w, n), NEW a \in {w, Nobody}, Moves(a),
         nextId' = nextId, account'.id = account.id, MayRemove(n) => MayRemove(req[w]),
         FlowShape(n), Flow(w, n)'
  PROVE  FlowInv'
  <1>1. req' = [req EXCEPT ![w] = n] /\ Counted(w, n)
    BY DEF Account!Goes, Counted
  <1>2. QED
    BY <1>1, FlowStep DEF Account!AccountAssumption

LEMMA CalmEnds ==
  ASSUME Account!AccountAssumption, FlowInv, NEW w \in Workers, NEW verdict \in Account!Verdicts,
         Account!Reports(w, verdict), Calm, Counts,
         verdict # "success" \/ req[w].kind # "delete",
         verdict # "recovered" \/ req[w].kind # "create"
  PROVE  FlowInv'
  <1>1. Account!Ends(w, verdict)
    BY DEF Account!Reports
  <1>2. World' /\ World
    BY <1>1, LocksBack, CalmOK DEF FlowInv
  <1>3. Moves(w)
    BY <1>1, <1>2, LocksBack, KeysOK DEF Moves, Calm, World, WorldTyped
  <1>4. account'.id = account.id /\ nextId' = nextId
    BY DEF Calm
  <1>5. PICK r \in Workflows : r = req[w]
    BY FlowOK
  <1>6. QED
    BY <1>1, <1>2, <1>3, <1>4, <1>5, EndsStep

\* The stored settings are taken away by the holder of the username.
LEMMA ClearedOK ==
  ASSUME Account!AccountAssumption, FlowInv, NEW w \in Workers, NEW verdict,
         Account!Ends(w, verdict), holder[Account!Name] = w, account.id \notin registered,
         settings' = 0, UNCHANGED <<Account!router, device, registered, mishaps>>
  PROVE  World' /\ Moves(w) /\ UNCHANGED <<account, nextId, cert, made, device>>
  <1>1. /\ UNCHANGED <<account, rateSet, tunnels, cert, made, nextId, device>>
        /\ begun' = begun
    BY DEF Account!router, Account!Ends
  <1>2. /\ holder' \in [Account!Keys -> Workers \cup {Nobody}]
        /\ \A k \in Account!Keys : holder'[k] # holder[k] => holder'[k] = Nobody
    BY LocksBack DEF FlowInv
  <1>3. World'
    BY <1>1, <1>2 DEF FlowInv, World, WorldTyped, RowsOK, NumbersOK
  <1>4. Moves(w)
    BY <1>1, <1>2, KeysOK DEF Moves, FlowInv, World, WorldTyped
  <1>5. QED
    BY <1>1, <1>3, <1>4

LEMMA ForgetKeeps ==
  ASSUME Account!AccountAssumption, FlowInv, NEW w \in Workers, Account!Forget(w)
  PROVE  FlowInv'
  <1>1. PICK r \in Workflows : r = req[w]
    BY FlowOK
  <1>2. PICK v \in Account!Verdicts :
          v = IF req[w].lost \/ (req[w].recovery = "recovered" /\ ~Account!Owned(w))
              THEN "coordination" ELSE req[w].recovery
    BY <1>1 DEF Workflows, Account!Verdicts
  <1>3. /\ r.at = "forget" /\ UNCHANGED <<Account!router, device, mishaps>>
        /\ Account!Reports(w, v)
        /\ \/ r.recovery = "recovered" /\ Account!StillOwned(w) /\ settings' = 0
           \/ UNCHANGED settings
    BY <1>1, <1>2, Zenon DEF Account!Forget, Account!At
  <1>4. /\ Account!Ends(w, v) /\ UNCHANGED <<registered, begun>>
        /\ UNCHANGED <<account, cert, nextId>>
    BY <1>3 DEF Account!Reports, Account!Ends, Account!router
  <1>5. /\ r.kind = "create" /\ FlowKnows(w, r) /\ CreateKnows(w, r)
        /\ Account!Owned(w) <=> Owns(w, r)
        /\ Owns(w, r) => holder[Account!Name] = w
        /\ Sure(w, r) => CreateOwns(w, r)
    BY <1>1, <1>3, Creating DEF Account!CreateStages
  <1>6. World' /\ Moves(w)
    <2>1. CASE r.recovery = "recovered" /\ Account!StillOwned(w) /\ settings' = 0
      <3>1. Sure(w, r) /\ Owns(w, r)
        BY <1>1, <1>5, <2>1 DEF Sure, Account!StillOwned
      <3>2. holder[Account!Name] = w /\ account.id \notin registered
        BY <1>5, <3>1 DEF CreateOwns
      <3>3. QED
        BY <1>3, <1>4, <2>1, <3>2, ClearedOK
    <2>2. CASE UNCHANGED settings
      <3>1. Calm /\ Counts
        BY <1>3, <1>4, <2>2, StillCalm DEF FlowInv, Account!store, Counts, Account!Smooth
      <3>2. World' /\ World
        BY <1>4, <3>1, LocksBack, CalmOK DEF FlowInv
      <3>3. Moves(w)
        BY <1>4, <3>1, <3>2, LocksBack, KeysOK DEF Moves, Calm, World, WorldTyped
      <3>4. QED
        BY <3>2, <3>3
    <2>3. QED
      BY <1>3, <2>1, <2>2
  <1>7. r.kind = "create" /\ v = "recovered" =>
          /\ account'.id # 0 => account'.by # w
          /\ r.cert # 0 => cert'[r.cert] = "revoked"
    <2>1. v = "recovered" => r.recovery = "recovered"
      BY <1>1, <1>2
    <2>2. QED
      BY <1>3, <1>4, <1>5, <2>1 DEF CreateKnows, FlowKnows, Closing
  <1>8. r.kind # "delete" /\ account'.id = account.id /\ nextId' = nextId
    BY <1>4, <1>5
  <1>9. QED
    BY <1>1, <1>4, <1>6, <1>7, <1>8, EndsStep

-----------------------------------------------------------------------------
\* A request begins: its locks were free.
LEMMA BeginStep ==
  ASSUME Account!AccountAssumption, FlowInv, NEW w \in Workers, NEW n \in Workflows,
         req' = [req EXCEPT ![w] = n], begun < MaxAccountRequests, begun' = begun + 1,
         UNCHANGED <<Account!router, Account!store, registered, mishaps>>,
         holder' \in [Account!Keys -> Workers \cup {Nobody}],
         \A k \in Account!Keys : holder'[k] # holder[k] => holder'[k] = w,
         holder'[Account!Gate] # holder[Account!Gate] => account.id = 0,
         FlowShape(n), Flow(w, n)'
  PROVE  FlowInv'
  <1>1. UNCHANGED <<account, rateSet, tunnels, cert, made, nextId, device, settings>>
    BY DEF Account!router, Account!store
  <1>2. World'
    <2>1. begun' \in 0..MaxAccountRequests
      BY DEF FlowInv, World, WorldTyped, Account!AccountAssumption
    <2>2. QED
      BY <1>1, <2>1 DEF FlowInv, World, WorldTyped, RowsOK, NumbersOK
  <1>3. Moves(w)
    BY <1>1 DEF Moves, FlowInv, World, WorldTyped
  <1>4. Counted(w, n)
    BY <1>1 DEF Counted
  <1>5. QED
    BY <1>2, <1>3, <1>4, FlowStep DEF Account!AccountAssumption

LEMMA HoldsOK ==
  ASSUME World, NEW w \in Workers, NEW keys, Account!Holds(w, keys)
  PROVE  /\ holder' \in [Account!Keys -> Workers \cup {Nobody}]
         /\ \A k \in Account!Keys : holder'[k] = IF k \in keys THEN w ELSE holder[k]
  BY DEF World, WorldTyped, Account!Holds

LEMMA KeysDiffer ==
  /\ Account!Gate # Account!Name
  /\ \A id : Account!Gate # Account!IdKey(id) /\ Account!Name # Account!IdKey(id)
  BY DEF Account!Gate, Account!Name, Account!IdKey

LEMMA IdleOK == Account!Idle \in Workflows
  BY DEF Account!Idle, Workflows, Account!Verdicts

LEMMA ReviewCreateKeeps ==
  ASSUME Account!AccountAssumption, FlowInv, NEW w \in Workers, Account!ReviewCreate(w)
  PROVE  FlowInv'
  <1> DEFINE keys == {Account!Gate, Account!Name}
  <1>1. PICK rate \in BOOLEAN :
          /\ account.id = 0
          /\ Account!Begins(w, "create", keys,
               [Account!Idle EXCEPT !.kind = "create", !.keys = keys, !.rate = rate,
                                    !.rateBefore = rateSet, !.at = IF rate THEN "rate" ELSE "put"])
          /\ Account!Holds(w, keys)
          /\ UNCHANGED <<Account!router, Account!store, registered, mishaps>>
    BY Zenon DEF Account!ReviewCreate
  <1>2. PICK s \in {"rate", "put"}, before \in BOOLEAN :
          s = (IF rate THEN "rate" ELSE "put") /\ before = rateSet
    BY DEF FlowInv, World, WorldTyped
  <1> DEFINE m == [Account!Idle EXCEPT !.kind = "create", !.keys = keys, !.rate = rate]
             n == [m EXCEPT !.rateBefore = before, !.at = s]
  <1>3. begun < MaxAccountRequests /\ "create" \in AccountKinds /\ begun' = begun + 1
        /\ \A k \in keys : holder[k] = Nobody
    BY <1>1 DEF Account!Begins
  <1>4. m \in Workflows /\ m.kind = "create" /\ m.keys = keys /\ m.rate = rate
        /\ m.id = 0 /\ m.cert = 0 /\ ~m.confirmed /\ ~m.lost /\ m.verdict = "none"
    BY <1>3, KeysOK DEF Account!Idle, Workflows, Account!Verdicts
  <1>5. req' = [req EXCEPT ![w] = n]
    BY <1>1, <1>2 DEF Account!Begins, Account!Idle
  <1> HIDE DEF m
  <1>6. /\ n \in Workflows /\ n.kind = "create" /\ n.keys = keys /\ n.id = 0 /\ n.cert = 0
        /\ ~n.confirmed /\ ~n.lost /\ n.verdict = "none" /\ n.at = s /\ n.rate = rate
    <2>1. n \in Workflows
      <3>1. s \in Account!CreateStages
        BY DEF Account!CreateStages
      <3>2. QED
        BY <1>4, <3>1 DEF Workflows
    <2>2. n.kind = m.kind /\ n.keys = m.keys /\ n.id = m.id /\ n.cert = m.cert
      BY <1>4 DEF Workflows
    <2>3. n.confirmed = m.confirmed /\ n.lost = m.lost /\ n.verdict = m.verdict
      BY <1>4 DEF Workflows
    <2>4. n.at = s /\ n.rate = m.rate
      BY <1>4 DEF Workflows
    <2>5. QED
      BY <1>4, <2>1, <2>2, <2>3, <2>4
  <1> HIDE DEF n
  <1>7. FlowShape(n)
    BY <1>2, <1>6 DEF FlowShape, Account!CreateStages, Account!IssueStages,
       Account!DeleteStages, Account!RevokeStages, WithCert, Storing
  <1>8. nextId \in Nat \ {0, 1} /\ 0 \notin registered
    BY DEF FlowInv, World, WorldTyped, NumbersOK
  <1>9. FlowKnows(w, n)' /\ CreateKnows(w, n)' /\ CreateOwns(w, n)'
    BY <1>1, <1>6, <1>8 DEF FlowKnows, CreateKnows, CreateOwns, Closing, Storing, Account!router
  <1>10. Flow(w, n)'
    BY <1>6, <1>9, CreateGoes DEF Account!CreateStages
  <1>11. /\ holder' \in [Account!Keys -> Workers \cup {Nobody}]
         /\ \A k \in Account!Keys : holder'[k] # holder[k] => holder'[k] = w
    BY <1>1, HoldsOK DEF FlowInv
  <1>12. QED
    BY <1>1, <1>3, <1>5, <1>6, <1>7, <1>10, <1>11, BeginStep

LEMMA ReviewIssueKeeps ==
  ASSUME Account!AccountAssumption, FlowInv, NEW w \in Workers, Account!ReviewIssue(w)
  PROVE  FlowInv'
  <1>1. PICK i \in Account!Ids : i = account.id /\ i < nextId
    BY DEF Account!ReviewIssue, FlowInv, World, WorldTyped, NumbersOK
  <1> DEFINE keys == {Account!IdKey(i)}
             n == [Account!Idle EXCEPT !.kind = "issue", !.keys = keys, !.id = i, !.at = "issue"]
  <1>2. /\ Account!Begins(w, "issue", keys, n) /\ Account!Holds(w, keys)
        /\ holder[Account!Gate] = Nobody
        /\ UNCHANGED <<Account!router, Account!store, registered, mishaps>>
    BY <1>1, Zenon DEF Account!ReviewIssue
  <1>3. /\ begun < MaxAccountRequests /\ "issue" \in AccountKinds /\ begun' = begun + 1
        /\ req' = [req EXCEPT ![w] = n]
    BY <1>2 DEF Account!Begins
  <1>4. n \in Workflows
    BY <1>1, <1>3, KeysOK DEF Account!Idle, Workflows, Account!Verdicts, Account!IssueStages
  <1>5. /\ n.kind = "issue" /\ n.keys = keys /\ n.id = i /\ n.cert = 0
        /\ n.verdict = "none" /\ n.at = "issue"
    BY DEF Account!Idle
  <1> HIDE DEF n
  <1>6. FlowShape(n)
    BY <1>1, <1>5 DEF FlowShape, Account!CreateStages, Account!IssueStages,
       Account!DeleteStages, Account!RevokeStages, WithCert, Storing, Account!Ids
  <1>7. /\ holder' \in [Account!Keys -> Workers \cup {Nobody}]
        /\ \A k \in Account!Keys : holder'[k] = IF k \in keys THEN w ELSE holder[k]
    BY <1>2, HoldsOK DEF FlowInv
  <1>8. holder'[Account!Gate] = Nobody
    BY <1>2, <1>7, KeysOK, KeysDiffer
  <1>9. Flow(w, n)'
    BY <1>1, <1>2, <1>5, <1>8 DEF Flow, FlowKnows, FlowRelies, FlowSays, Closing,
       Account!CreateStages, Account!IssueStages, Account!DeleteStages, Account!router
  <1>10. /\ \A k \in Account!Keys : holder'[k] # holder[k] => holder'[k] = w
         /\ holder'[Account!Gate] = holder[Account!Gate]
    BY <1>2, <1>7, <1>8
  <1>11. QED
    BY <1>2, <1>3, <1>4, <1>6, <1>7, <1>9, <1>10, BeginStep

LEMMA ReviewDeleteKeeps ==
  ASSUME Account!AccountAssumption, FlowInv, NEW w \in Workers, Account!ReviewDelete(w)
  PROVE  FlowInv'
  <1>1. PICK i \in Account!Ids, todo \in SUBSET Account!Certs, s \in {"listTunnels", "disable"} :
          /\ i = account.id /\ i < nextId /\ todo = {c \in Account!Certs : device[c] = "active"}
          /\ s = IF account.disabled THEN "listTunnels" ELSE "disable"
    BY DEF Account!ReviewDelete, FlowInv, World, WorldTyped, NumbersOK
  <1> DEFINE keys == {Account!IdKey(i), Account!Name}
             m == [Account!Idle EXCEPT !.kind = "delete", !.keys = keys]
             n == [m EXCEPT !.id = i, !.todo = todo, !.at = s]
  <1>2. /\ Account!Begins(w, "delete", keys,
             [Account!Idle EXCEPT !.kind = "delete", !.keys = keys, !.id = i, !.todo = todo, !.at = s])
        /\ Account!Holds(w, keys)
        /\ holder[Account!Gate] = Nobody
        /\ UNCHANGED <<Account!router, Account!store, registered, mishaps>>
    BY <1>1, Zenon DEF Account!ReviewDelete
  <1>3. /\ begun < MaxAccountRequests /\ "delete" \in AccountKinds /\ begun' = begun + 1
        /\ req' = [req EXCEPT ![w] = n]
    BY <1>2 DEF Account!Begins
  <1>4. m \in Workflows /\ m.kind = "delete" /\ m.keys = keys /\ m.cert = 0 /\ m.verdict = "none"
    BY <1>1, <1>3, KeysOK DEF Account!Idle, Workflows, Account!Verdicts
  <1> HIDE DEF m
  <1>5. n \in Workflows
    <2>1. s \in StagesOf
      BY DEF StagesOf, Account!DeleteStages
    <2> DEFINE o == [m EXCEPT !.id = i]
               p == [o EXCEPT !.todo = todo]
    <2>2. n = [p EXCEPT !.at = s]
      OBVIOUS
    <2>3. o \in Workflows
      BY <1>4 DEF Workflows
    <2> HIDE DEF o
    <2>4. p \in Workflows
      BY <2>3 DEF Workflows
    <2> HIDE DEF p
    <2>5. [p EXCEPT !.at = s] \in Workflows
      BY <2>1, <2>4 DEF Workflows, StagesOf
    <2>6. QED
      BY <2>2, <2>5
  <1>6. /\ n.kind = "delete" /\ n.keys = keys /\ n.id = i /\ n.cert = 0 /\ n.todo = todo
        /\ n.verdict = "none" /\ n.at = s
    BY <1>4 DEF Workflows
  <1> HIDE DEF n
  <1>7. FlowShape(n)
    BY <1>1, <1>6 DEF FlowShape, Account!CreateStages, Account!IssueStages,
       Account!DeleteStages, Account!RevokeStages, WithCert, Storing, Account!Ids
  <1>8. /\ holder' \in [Account!Keys -> Workers \cup {Nobody}]
        /\ \A k \in Account!Keys : holder'[k] = IF k \in keys THEN w ELSE holder[k]
    BY <1>2, HoldsOK DEF FlowInv
  <1>9. UNCHANGED <<account, cert, made, nextId, device>>
    BY <1>2 DEF Account!router, Account!store
  <1>10. ClosedBut(i, todo)' /\ \A c \in todo : cert'[c] # "none"
    BY <1>1, <1>9 DEF ClosedBut, FlowInv, World, WorldTyped, RowsOK
  <1>11. Flow(w, n)'
    BY <1>1, <1>6, <1>9, <1>10 DEF Flow, FlowKnows, FlowRelies, FlowSays, Closing,
       Account!CreateStages, Account!IssueStages, Account!DeleteStages
  <1>12. /\ \A k \in Account!Keys : holder'[k] # holder[k] => holder'[k] = w
         /\ holder'[Account!Gate] = holder[Account!Gate]
    BY <1>2, <1>8, KeysOK, KeysDiffer
  <1>13. QED
    BY <1>2, <1>3, <1>5, <1>7, <1>8, <1>11, <1>12, BeginStep

LEMMA ReviewRevokeKeeps ==
  ASSUME Account!AccountAssumption, FlowInv, NEW w \in Workers, Account!ReviewRevoke(w)
  PROVE  FlowInv'
  <1>1. PICK c \in Account!Certs :
          /\ cert[c] = "active" /\ UNCHANGED <<Account!router, Account!store, registered, holder, mishaps>>
          /\ Account!Begins(w, "revoke", {},
               [Account!Idle EXCEPT !.kind = "revoke", !.cert = c, !.at = "revoke"])
    BY Zenon DEF Account!ReviewRevoke
  <1> DEFINE n == [Account!Idle EXCEPT !.kind = "revoke", !.cert = c, !.at = "revoke"]
  <1>2. /\ begun < MaxAccountRequests /\ "revoke" \in AccountKinds /\ begun' = begun + 1
        /\ req' = [req EXCEPT ![w] = n]
    BY <1>1 DEF Account!Begins
  <1>3. n \in Workflows
    BY <1>2 DEF Account!Idle, Workflows, Account!Verdicts, Account!RevokeStages
  <1>4. /\ n.kind = "revoke" /\ n.keys = {} /\ n.id = 0 /\ n.cert = c
        /\ n.verdict = "none" /\ n.at = "revoke"
    BY DEF Account!Idle
  <1> HIDE DEF n
  <1>5. FlowShape(n)
    BY <1>4 DEF FlowShape, Account!CreateStages, Account!IssueStages,
       Account!DeleteStages, Account!RevokeStages, WithCert, Storing, Account!Certs
  <1>6. nextId \in Nat \ {0, 1}
    BY DEF FlowInv, World, WorldTyped
  <1>7. Flow(w, n)'
    BY <1>1, <1>4, <1>6 DEF Flow, FlowKnows, FlowRelies, FlowSays, Closing,
       Account!CreateStages, Account!IssueStages, Account!DeleteStages, Account!router
  <1>8. holder' \in [Account!Keys -> Workers \cup {Nobody}]
    BY <1>1 DEF FlowInv, World, WorldTyped
  <1>9. QED
    BY <1>1, <1>2, <1>3, <1>5, <1>7, <1>8, BeginStep

-----------------------------------------------------------------------------
\* Issuing a profile.
LEMMA Issuing ==
  ASSUME FlowInv, NEW w \in Workers, NEW r \in Workflows, r = req[w],
         r.at \in Account!IssueStages
  PROVE  /\ r.kind = "issue" /\ r.verdict = "none" /\ r.keys = {Account!IdKey(r.id)}
         /\ r.id # 0 /\ r.id < nextId /\ r.id \in Account!Ids
         /\ Account!Owned(w) <=> Owns(w, r)
         /\ FlowShape(r) /\ FlowKnows(w, r)
         /\ Owns(w, r) => /\ account.id = r.id /\ holder[Account!Gate] = Nobody
                          /\ holder[Account!IdKey(r.id)] = w
  <1>1. FlowShape(r) /\ Flow(w, r) /\ r.id \in {0} \cup Account!Ids
    BY FlowOK DEF Workflows
  <1>2. r.kind = "issue" /\ r.verdict = "none" /\ r.keys = {Account!IdKey(r.id)} /\ r.id # 0
    BY <1>1 DEF FlowShape, Account!IssueStages
  <1>3. QED
    BY <1>1, <1>2 DEF Flow, FlowRelies, FlowKnows, Owns, Account!Owned

\* What is left to show of the next stage of an issue.
LEMMA IssueGoes ==
  ASSUME NEW w \in Workers, NEW n \in Workflows, n.at \in Account!IssueStages,
         n.kind = "issue", n.verdict = "none", n.keys = {Account!IdKey(n.id)}, n.id # 0,
         n.at \in WithCert => n.cert # 0,
         FlowKnows(w, n)', Owns(w, n)' => account'.id = n.id /\ holder'[Account!Gate] = Nobody
  PROVE  FlowShape(n) /\ Flow(w, n)' /\ ~MayRemove(n)
  <1>1. FlowShape(n) /\ ~MayRemove(n)
    BY DEF FlowShape, Account!CreateStages, Account!IssueStages, MayRemove, Before,
           Account!DeleteStages, Account!RevokeStages, WithCert, Storing
  <1>2. Flow(w, n)'
    BY DEF Flow, FlowRelies, FlowSays, Account!CreateStages, Account!IssueStages,
           Account!DeleteStages
  <1>3. QED
    BY <1>1, <1>2

LEMMA IssueKeeps ==
  ASSUME Account!AccountAssumption, FlowInv, NEW w \in Workers, Account!Issue(w)
  PROVE  FlowInv'
  <1>1. /\ req[w].at = "issue" /\ UNCHANGED Account!store /\ Counts
        /\ \/ /\ Account!Owned(w)
              /\ \E c \in Account!Certs :
                   /\ MadeFor(c, req[w].id)
                   /\ Account!Goes(w, [req[w] EXCEPT !.cert = c, !.at = "issueRecord"])
           \/ /\ \E verdict \in {"failed", "coordination"} : Account!Reports(w, verdict)
              /\ UNCHANGED Account!router \/ \E c \in Account!Certs : MadeFor(c, req[w].id)
    BY Zenon DEF Account!Issue, Account!Guarded, Account!Provision, Counts, Account!Smooth,
                 MadeFor, Account!Elsewhere
  <1>2. PICK r \in Workflows : r = req[w]
    BY FlowOK
  <1>3. /\ r.at = "issue" /\ r.at \in Account!IssueStages /\ UNCHANGED <<begun, registered>>
    BY <1>1, <1>2 DEF Account!IssueStages, Account!Reports, Account!Ends, Account!Goes
  <1>4. /\ r.kind = "issue" /\ r.verdict = "none" /\ r.keys = {Account!IdKey(r.id)}
        /\ r.id # 0 /\ r.id < nextId /\ r.id \in Account!Ids
        /\ Account!Owned(w) => account.id = r.id /\ holder[Account!Gate] = Nobody
    BY <1>2, <1>3, Issuing
  <1>5. ASSUME NEW c \in Account!Certs, MadeFor(c, req[w].id)
        PROVE  Calm /\ cert'[c] = "active" /\ made'[c] = r.id
    BY <1>1, <1>2, <1>3, <1>4, <1>5, MadeOK DEF FlowInv
  <1>6. CASE /\ \E verdict \in {"failed", "coordination"} : Account!Reports(w, verdict)
             /\ UNCHANGED Account!router \/ \E c \in Account!Certs : MadeFor(c, req[w].id)
    <2>1. Calm
      BY <1>1, <1>3, <1>5, <1>6, StillCalm DEF FlowInv
    <2>2. PICK verdict \in Account!Verdicts :
            Account!Reports(w, verdict) /\ verdict # "success" /\ verdict # "recovered"
      BY <1>6 DEF Account!Verdicts
    <2>3. QED
      BY <1>1, <2>1, <2>2, CalmEnds
  <1>7. ASSUME Account!Owned(w), NEW c \in Account!Certs, MadeFor(c, req[w].id),
               Account!Goes(w, [req[w] EXCEPT !.cert = c, !.at = "issueRecord"])
        PROVE  FlowInv'
    <2>1. Calm /\ cert'[c] = "active" /\ made'[c] = r.id
      BY <1>5, <1>7
    <2> DEFINE n == [r EXCEPT !.cert = c, !.at = "issueRecord"]
    <2>2. n \in Workflows
      BY DEF Workflows, Account!IssueStages
    <2>3. /\ n.at = "issueRecord" /\ n.kind = r.kind /\ n.keys = r.keys /\ n.id = r.id
          /\ n.cert = c /\ n.verdict = r.verdict
      BY DEF Workflows
    <2>4. Account!Goes(w, n)
      BY <1>2, <1>7
    <2> HIDE DEF n
    <2>5. account'.id = account.id /\ nextId' = nextId /\ UNCHANGED holder
      BY <2>1, <2>4 DEF Calm, Account!Goes
    <2>6. FlowKnows(w, n)'
      BY <1>4, <2>1, <2>3, <2>5 DEF FlowKnows, Closing
    <2>7. n.at \in Account!IssueStages /\ n.keys = {Account!IdKey(n.id)} /\ n.cert # 0
          /\ account'.id = n.id /\ holder'[Account!Gate] = Nobody
      BY <1>4, <1>7, <2>3, <2>5 DEF Account!IssueStages, Account!Certs
    <2>8. FlowShape(n) /\ Flow(w, n)' /\ ~MayRemove(n)
      BY <1>4, <2>2, <2>3, <2>6, <2>7, IssueGoes
    <2>9. QED
      BY <1>1, <2>1, <2>2, <2>4, <2>8, CalmGoes
  <1>8. QED
    BY <1>1, <1>6, <1>7

LEMMA IssueRecordKeeps ==
  ASSUME Account!AccountAssumption, FlowInv, NEW w \in Workers, Account!IssueRecord(w)
  PROVE  FlowInv'
  <1> DEFINE Row == device' = [device EXCEPT ![req[w].cert] = "active"]
  <1>1. /\ req[w].at = "issueRecord" /\ UNCHANGED <<Account!router, settings>> /\ Counts
        /\ Account!To(w, "issueDeliver") \/ Account!To(w, "issueUndo")
        /\ (Account!Owned(w) /\ Row) \/ UNCHANGED device
    BY Zenon DEF Account!IssueRecord, Counts, Account!Smooth
  <1>2. PICK r \in Workflows : r = req[w]
    BY FlowOK
  <1>3. /\ r.at = "issueRecord" /\ r.at \in Account!IssueStages
        /\ UNCHANGED <<begun, registered, holder>>
        /\ UNCHANGED <<account, cert, made, nextId>>
    BY <1>1, <1>2 DEF Account!IssueStages, Account!To, Account!Goes, Account!router
  <1>4. /\ r.kind = "issue" /\ r.verdict = "none" /\ r.keys = {Account!IdKey(r.id)}
        /\ r.id # 0 /\ r.id < nextId /\ r.id \in Account!Ids
        /\ Account!Owned(w) <=> Owns(w, r)
        /\ FlowShape(r) /\ FlowKnows(w, r)
        /\ Owns(w, r) => /\ account.id = r.id /\ holder[Account!Gate] = Nobody
                         /\ holder[Account!IdKey(r.id)] = w
    BY <1>2, <1>3, Issuing
  <1>5. /\ r.cert \in Account!Certs /\ r.cert # 0 /\ cert[r.cert] # "none" /\ made[r.cert] = r.id
    BY <1>3, <1>4 DEF FlowShape, FlowKnows, WithCert, Workflows, Account!Certs
  <1>6. \E a \in {w, Nobody} : Moves(a) /\ World'
    <2>1. CASE UNCHANGED device
      BY <1>1, <1>3, <2>1, StillCalm, CalmOK DEF FlowInv, Account!store, World, WorldTyped
    <2>2. CASE Account!Owned(w) /\ Row
      <3>1. PICK c \in Account!Certs : c = r.cert
        BY <1>5
      <3>2. /\ cert[c] # "none" /\ account.id = made[c] /\ holder[Account!IdKey(made[c])] = w
            /\ device' = [device EXCEPT ![c] = "active"]
        BY <1>2, <1>4, <1>5, <2>2, <3>1
      <3>3. World' /\ Moves(w)
        BY <1>1, <1>3, <3>2, OpenedOK DEF FlowInv
      <3>4. QED
        BY <3>3
    <2>3. QED
      BY <1>1, <2>1, <2>2
  <1>7. PICK s \in {"issueDeliver", "issueUndo"} : Account!To(w, s)
    BY <1>1
  <1>8. PICK n \in Workflows : n = [r EXCEPT !.at = s] /\ n.at = s /\ Flows(r, n)
    BY AtOK DEF StagesOf, Account!IssueStages
  <1>9. Account!Goes(w, n)
    BY <1>2, <1>7, <1>8 DEF Account!To
  <1>10. FlowKnows(w, n)'
    BY <1>3, <1>4, <1>8 DEF Flows, FlowKnows, Closing
  <1>11. Owns(w, n)' => account'.id = n.id /\ holder'[Account!Gate] = Nobody
    BY <1>3, <1>4, <1>8 DEF Flows, Owns
  <1>12. FlowShape(n) /\ Flow(w, n)' /\ ~MayRemove(n)
    BY <1>4, <1>5, <1>8, <1>10, <1>11, IssueGoes DEF Flows, Account!IssueStages
  <1>13. PICK a \in {w, Nobody} : Moves(a) /\ World'
    BY <1>6
  <1>14. nextId' = nextId /\ account'.id = account.id
    BY <1>3
  <1>15. QED
    BY <1>9, <1>12, <1>13, <1>14, StageStep

LEMMA IssueDeliverKeeps ==
  ASSUME Account!AccountAssumption, FlowInv, NEW w \in Workers, Account!IssueDeliver(w)
  PROVE  FlowInv'
  <1>1. /\ req[w].at = "issueDeliver" /\ UNCHANGED <<Account!router, Account!store>> /\ Counts
        /\ \E verdict \in {"success", "failed", "coordination"} : Account!Reports(w, verdict)
    BY Zenon DEF Account!IssueDeliver, Account!Guarded, Counts, Account!Smooth
  <1>2. PICK verdict \in Account!Verdicts : Account!Reports(w, verdict) /\ verdict # "recovered"
    BY <1>1 DEF Account!Verdicts
  <1>3. Calm /\ req[w].kind # "delete"
    BY <1>1, <1>2, StillCalm, FlowOK, Issuing DEF FlowInv, Account!Reports, Account!Ends,
       Account!IssueStages
  <1>4. QED
    BY <1>1, <1>2, <1>3, CalmEnds

LEMMA IssueUndoKeeps ==
  ASSUME Account!AccountAssumption, FlowInv, NEW w \in Workers, Account!IssueUndo(w)
  PROVE  FlowInv'
  <1>1. /\ req[w].at = "issueUndo" /\ UNCHANGED Account!store /\ Counts
        /\ \/ /\ Account!CertRevoked(req[w].cert) \/ UNCHANGED Account!router
              /\ \/ Account!To(w, "issueUndone")
                 \/ Account!Goes(w, [req[w] EXCEPT !.certCleanup = "unknown", !.at = "issueUndone"])
           \/ Account!Reports(w, "coordination") /\ UNCHANGED Account!router
    BY Zenon DEF Account!IssueUndo, Account!Guarded, Account!Request, Counts, Account!Smooth
  <1>2. PICK r \in Workflows : r = req[w]
    BY FlowOK
  <1>3. /\ r.at = "issueUndo" /\ r.at \in Account!IssueStages /\ UNCHANGED <<begun, registered>>
    BY <1>1, <1>2 DEF Account!IssueStages, Account!Reports, Account!Ends, Account!Goes, Account!To
  <1>4. /\ r.kind = "issue" /\ r.verdict = "none" /\ r.keys = {Account!IdKey(r.id)} /\ r.id # 0
        /\ FlowShape(r)
    BY <1>2, <1>3, Issuing
  <1>5. r.cert \in Account!Certs /\ r.cert # 0
    BY <1>3, <1>4 DEF FlowShape, WithCert, Workflows
  <1>6. Calm
    BY <1>1, <1>2, <1>3, <1>5, StillCalm, CertRevokedCalm DEF FlowInv
  <1>7. CASE Account!Reports(w, "coordination") /\ UNCHANGED Account!router
    BY <1>1, <1>6, <1>7, CalmEnds DEF Account!Verdicts
  <1>8. CASE \/ Account!To(w, "issueUndone")
             \/ Account!Goes(w, [req[w] EXCEPT !.certCleanup = "unknown", !.at = "issueUndone"])
    <2>1. PICK c \in {"verified", "mismatch", "unknown"} :
            Account!Goes(w, [r EXCEPT !.certCleanup = c, !.at = "issueUndone"])
      <3>1. r.certCleanup \in {"verified", "mismatch", "unknown"}
            /\ [r EXCEPT !.at = "issueUndone"]
                 = [r EXCEPT !.certCleanup = r.certCleanup, !.at = "issueUndone"]
        BY DEF Workflows
      <3>2. \/ Account!Goes(w, [r EXCEPT !.at = "issueUndone"])
            \/ Account!Goes(w, [r EXCEPT !.certCleanup = "unknown", !.at = "issueUndone"])
        BY <1>2, <1>8, Zenon DEF Account!To
      <3>3. QED
        BY <3>1, <3>2
    <2> DEFINE n == [r EXCEPT !.certCleanup = c, !.at = "issueUndone"]
    <2>2. n \in Workflows
      BY DEF Workflows, Account!IssueStages
    <2>3. /\ n.at = "issueUndone" /\ n.kind = r.kind /\ n.keys = r.keys /\ n.id = r.id
          /\ n.cert = r.cert /\ n.verdict = r.verdict
      BY DEF Workflows
    <2>4. Account!Goes(w, n) /\ UNCHANGED holder
      BY <2>1 DEF Account!Goes
    <2> HIDE DEF n
    <2>5. Flow(w, r)'
      BY <1>1, <1>2, <1>6, <2>4, CalmKept
    <2>6. /\ FlowKnows(w, n)'
          /\ Owns(w, n)' => account'.id = n.id /\ holder'[Account!Gate] = Nobody
      BY <1>3, <2>3, <2>5 DEF Flow, FlowKnows, FlowRelies, Owns, Closing
    <2>7. FlowShape(n) /\ Flow(w, n)' /\ ~MayRemove(n)
      BY <1>4, <1>5, <2>2, <2>3, <2>6, IssueGoes DEF Account!IssueStages
    <2>8. QED
      BY <1>1, <1>6, <2>2, <2>4, <2>7, CalmGoes
  <1>9. QED
    BY <1>1, <1>7, <1>8

LEMMA IssueUndoneKeeps ==
  ASSUME Account!AccountAssumption, FlowInv, NEW w \in Workers, Account!IssueUndone(w)
  PROVE  FlowInv'
  <1>1. /\ req[w].at = "issueUndone" /\ UNCHANGED <<Account!router, Account!store>> /\ Counts
        /\ \/ \E c \in {"verified", "mismatch", "unknown"} :
                /\ c = "verified" => cert[req[w].cert] = "revoked"
                /\ Account!Goes(w, [req[w] EXCEPT !.certCleanup = c, !.at = "issueLocal"])
           \/ Account!Reports(w, "coordination")
    BY Zenon DEF Account!IssueUndone, Account!Reading, Counts, Account!Smooth
  <1>2. PICK r \in Workflows : r = req[w]
    BY FlowOK
  <1>3. /\ r.at = "issueUndone" /\ r.at \in Account!IssueStages /\ UNCHANGED <<begun, registered>>
    BY <1>1, <1>2 DEF Account!IssueStages, Account!Reports, Account!Ends, Account!Goes
  <1>4. /\ r.kind = "issue" /\ r.verdict = "none" /\ r.keys = {Account!IdKey(r.id)} /\ r.id # 0
        /\ FlowShape(r)
    BY <1>2, <1>3, Issuing
  <1>5. Calm /\ UNCHANGED cert /\ r.cert # 0
    BY <1>1, <1>3, <1>4, StillCalm DEF FlowInv, Account!router, FlowShape, WithCert
  <1>6. CASE Account!Reports(w, "coordination")
    BY <1>1, <1>5, <1>6, CalmEnds DEF Account!Verdicts
  <1>7. ASSUME NEW c \in {"verified", "mismatch", "unknown"},
               c = "verified" => cert[req[w].cert] = "revoked",
               Account!Goes(w, [req[w] EXCEPT !.certCleanup = c, !.at = "issueLocal"])
        PROVE  FlowInv'
    <2> DEFINE n == [r EXCEPT !.certCleanup = c, !.at = "issueLocal"]
    <2>1. n \in Workflows
      BY DEF Workflows, Account!IssueStages
    <2>2. /\ n.at = "issueLocal" /\ n.kind = r.kind /\ n.keys = r.keys /\ n.id = r.id
          /\ n.cert = r.cert /\ n.verdict = r.verdict /\ n.certCleanup = c
      BY DEF Workflows
    <2>3. Account!Goes(w, n) /\ UNCHANGED holder
      BY <1>2, <1>7 DEF Account!Goes
    <2> HIDE DEF n
    <2>4. Flow(w, r)'
      BY <1>1, <1>2, <1>5, <2>3, CalmKept
    <2>5. /\ FlowKnows(w, n)'
          /\ Owns(w, n)' => account'.id = n.id /\ holder'[Account!Gate] = Nobody
      BY <1>2, <1>3, <1>5, <1>7, <2>2, <2>4 DEF Flow, FlowKnows, FlowRelies, Owns
    <2>6. FlowShape(n) /\ Flow(w, n)' /\ ~MayRemove(n)
      BY <1>4, <1>5, <2>1, <2>2, <2>5, IssueGoes DEF Account!IssueStages
    <2>7. QED
      BY <1>1, <1>5, <2>1, <2>3, <2>6, CalmGoes
  <1>8. QED
    BY <1>1, <1>6, <1>7

\* A row is closed when its certificate is revoked.
LEMMA RowClosedCalm ==
  ASSUME World, NEW c \in Account!Certs, cert[c] = "revoked",
         device' = [device EXCEPT ![c] = "revoked"],
         UNCHANGED <<Account!router, settings, registered, begun>>
  PROVE  Calm
  <1>1. /\ device' \in [Account!Certs -> {"none", "active", "revoked"}]
        /\ device'[c] = "revoked"
        /\ \A d \in Account!Certs : d # c => device'[d] = device[d]
    BY DEF World, WorldTyped
  <1>2. QED
    BY <1>1 DEF World, WorldTyped, Calm, Account!router

LEMMA IssueLocalKeeps ==
  ASSUME Account!AccountAssumption, FlowInv, NEW w \in Workers, Account!IssueLocal(w)
  PROVE  FlowInv'
  <1>1. /\ req[w].at = "issueLocal" /\ UNCHANGED <<Account!router, settings>> /\ Counts
        /\ \E verdict \in {"recovered", "unknown"} : Account!Reports(w, verdict)
        /\ \/ /\ req[w].certCleanup = "verified"
              /\ device' = [device EXCEPT ![req[w].cert] = "revoked"]
           \/ UNCHANGED device
    BY Zenon DEF Account!IssueLocal, Counts, Account!Smooth
  <1>2. PICK r \in Workflows : r = req[w]
    BY FlowOK
  <1>3. /\ r.at = "issueLocal" /\ r.at \in Account!IssueStages /\ UNCHANGED <<begun, registered>>
    BY <1>1, <1>2 DEF Account!IssueStages, Account!Reports, Account!Ends
  <1>4. r.kind = "issue" /\ FlowShape(r) /\ FlowKnows(w, r)
    BY <1>2, <1>3, Issuing
  <1>5. PICK c \in Account!Certs :
          c = r.cert /\ (r.certCleanup = "verified" => cert[c] = "revoked")
    BY <1>3, <1>4 DEF FlowShape, FlowKnows, WithCert, Workflows
  <1>6. Calm
    <2>1. CASE UNCHANGED device
      BY <1>1, <1>3, <2>1, StillCalm DEF FlowInv, Account!store
    <2>2. CASE /\ req[w].certCleanup = "verified"
               /\ device' = [device EXCEPT ![req[w].cert] = "revoked"]
      BY <1>1, <1>2, <1>3, <1>5, <2>2, RowClosedCalm DEF FlowInv
    <2>3. QED
      BY <1>1, <2>1, <2>2
  <1>7. PICK verdict \in Account!Verdicts : Account!Reports(w, verdict)
    BY <1>1 DEF Account!Verdicts
  <1>8. req[w].kind # "delete" /\ req[w].kind # "create"
    BY <1>2, <1>4
  <1>9. QED
    BY <1>1, <1>6, <1>7, <1>8, CalmEnds

-----------------------------------------------------------------------------
\* Deleting the account.
LEMMA Deleting ==
  ASSUME FlowInv, NEW w \in Workers, NEW r \in Workflows, r = req[w],
         r.at \in Account!DeleteStages
  PROVE  /\ r.kind = "delete" /\ r.verdict = "none"
         /\ r.keys = {Account!IdKey(r.id), Account!Name}
         /\ r.id # 0 /\ r.id < nextId /\ r.id \in Account!Ids
         /\ Account!Owned(w) <=> Owns(w, r)
         /\ FlowShape(r) /\ FlowKnows(w, r)
         /\ \A c \in r.todo : cert[c] # "none"
         /\ Owns(w, r) => /\ ClosedBut(r.id, r.todo)
                          /\ holder[Account!Name] = w /\ holder[Account!IdKey(r.id)] = w
         /\ r.at = "clear" => /\ account.id # r.id
                              /\ Owns(w, r) => account.id \notin registered
  <1>1. FlowShape(r) /\ Flow(w, r) /\ r.id \in {0} \cup Account!Ids
    BY FlowOK DEF Workflows
  <1>2. /\ r.kind = "delete" /\ r.verdict = "none" /\ r.id # 0
        /\ r.keys = {Account!IdKey(r.id), Account!Name}
    BY <1>1 DEF FlowShape, Account!DeleteStages
  <1>3. QED
    BY <1>1, <1>2 DEF Flow, FlowRelies, FlowKnows, Owns, Account!Owned

\* What is left to show of the next stage of a deletion.
LEMMA DeleteGoes ==
  ASSUME NEW w \in Workers, NEW n \in Workflows, n.at \in Account!DeleteStages,
         n.kind = "delete", n.verdict = "none",
         n.keys = {Account!IdKey(n.id), Account!Name}, n.id # 0,
         n.at = "revokedNext" => n.cert # 0,
         n.at \in {"deleteAccount", "gone", "clear"} => n.todo = {},
         FlowKnows(w, n)', \A c \in n.todo : cert'[c] # "none",
         Owns(w, n)' => ClosedBut(n.id, n.todo)',
         n.at = "clear" => account'.id # n.id /\ (Owns(w, n)' => account'.id \notin registered')
  PROVE  FlowShape(n) /\ Flow(w, n)'
  <1>1. FlowShape(n)
    BY DEF FlowShape, Account!CreateStages, Account!IssueStages,
           Account!DeleteStages, Account!RevokeStages, WithCert, Storing
  <1>2. Flow(w, n)'
    BY DEF Flow, FlowRelies, FlowSays, Account!CreateStages, Account!IssueStages,
           Account!DeleteStages
  <1>3. QED
    BY <1>1, <1>2

LEMMA DeleteTo ==
  ASSUME Account!AccountAssumption, FlowInv, NEW w \in Workers, NEW n \in Workflows,
         req[w].at \in Account!DeleteStages, MayRemove(n) => MayRemove(req[w]),
         n.kind = req[w].kind, n.keys = req[w].keys, n.id = req[w].id,
         n.verdict = req[w].verdict, n.cert = req[w].cert, n.todo = req[w].todo,
         Account!Goes(w, n), Calm, Counts,
         n.at \in Account!DeleteStages \ {"revokedNext", "clear"},
         n.at \in {"deleteAccount", "gone"} => n.todo = {}
  PROVE  FlowInv'
  <1>1. PICK r \in Workflows : r = req[w]
    BY FlowOK
  <1>2. /\ r.kind = "delete" /\ r.verdict = "none"
        /\ r.keys = {Account!IdKey(r.id), Account!Name} /\ r.id # 0
    BY <1>1, Deleting
  <1>3. Flow(w, r)' /\ UNCHANGED holder
    BY <1>1, CalmKept DEF Account!Goes
  <1>4. FlowKnows(w, n)'
    BY <1>1, <1>3 DEF Flow, FlowKnows, Account!DeleteStages, Closing
  <1>5. /\ \A c \in n.todo : cert'[c] # "none"
        /\ Owns(w, n)' => ClosedBut(n.id, n.todo)'
    BY <1>1, <1>3 DEF Flow, FlowRelies, Owns
  <1>6. FlowShape(n) /\ Flow(w, n)'
    BY <1>1, <1>2, <1>4, <1>5, DeleteGoes
  <1>7. QED
    BY <1>6, CalmGoes

LEMMA DeleteStage ==
  ASSUME Account!AccountAssumption, FlowInv, NEW w \in Workers, req[w].at \in Account!DeleteStages,
         NEW s \in Account!DeleteStages \ {"revokedNext", "gone", "clear"},
         Account!To(w, s), Calm, Counts, MayRemove(req[w]), s = "deleteAccount" => req[w].todo = {}
  PROVE  FlowInv'
  <1>1. PICK r \in Workflows : r = req[w]
    BY FlowOK
  <1>2. PICK n \in Workflows : n = [r EXCEPT !.at = s] /\ n.at = s /\ Flows(r, n)
    BY AtOK DEF StagesOf
  <1>3. Account!Goes(w, n)
    BY <1>1, <1>2 DEF Account!To
  <1>4. QED
    BY <1>1, <1>2, <1>3, DeleteTo DEF Flows

LEMMA DeleteEnds ==
  ASSUME Account!AccountAssumption, FlowInv, NEW w \in Workers, req[w].at \in Account!DeleteStages,
         NEW verdict \in {"unknown", "failed", "partial", "coordination"},
         Account!Reports(w, verdict), UNCHANGED <<Account!router, Account!store>>, Counts
  PROVE  FlowInv'
  <1>1. Calm
    BY StillCalm DEF FlowInv, Account!Reports, Account!Ends
  <1>2. verdict \in Account!Verdicts /\ verdict # "success" /\ verdict # "recovered"
    BY DEF Account!Verdicts
  <1>3. QED
    BY <1>1, <1>2, CalmEnds

LEMMA DisableKeeps ==
  ASSUME Account!AccountAssumption, FlowInv, NEW w \in Workers, Account!Disable(w)
  PROVE  FlowInv'
  <1>1. /\ req[w].at = "disable" /\ UNCHANGED Account!store /\ Counts
        /\ \/ /\ \/ UNCHANGED Account!router
                 \/ /\ Account!AccountBecomes([account EXCEPT !.disabled = TRUE])
                    /\ UNCHANGED nextId
              /\ Account!To(w, "disabled") \/ Account!Reports(w, "unknown")
           \/ Account!Reports(w, "coordination") /\ UNCHANGED Account!router
    BY Zenon DEF Account!Disable, Account!Guarded, Account!Request, Counts, Account!Smooth
  <1>2. UNCHANGED <<begun, registered>>
    BY <1>1 DEF Account!Reports, Account!Ends, Account!To, Account!Goes
  <1>3. Calm
    <2>1. CASE UNCHANGED Account!router
      BY <1>1, <1>2, <2>1, StillCalm DEF FlowInv
    <2>2. CASE Account!AccountBecomes([account EXCEPT !.disabled = TRUE]) /\ UNCHANGED nextId
      BY <1>1, <1>2, <2>2 DEF Calm, Account!AccountBecomes, Account!Elsewhere, Account!store,
         FlowInv, World, WorldTyped
    <2>3. QED
      BY <1>1, <2>1, <2>2
  <1>4. CASE Account!To(w, "disabled")
    BY <1>1, <1>3, <1>4, DeleteStage DEF Account!DeleteStages, MayRemove, Before
  <1>5. CASE \E verdict \in {"unknown", "coordination"} : Account!Reports(w, verdict)
    BY <1>1, <1>3, <1>5, CalmEnds DEF Account!Verdicts
  <1>6. QED
    BY <1>1, <1>4, <1>5

LEMMA DisabledKeeps ==
  ASSUME Account!AccountAssumption, FlowInv, NEW w \in Workers, Account!Disabled(w)
  PROVE  FlowInv'
  <1>1. /\ req[w].at = "disabled" /\ UNCHANGED <<Account!router, Account!store>> /\ Counts
        /\ \/ CASE account.id # req[w].id -> Account!Reports(w, "unknown")
                [] ~account.disabled -> Account!Reports(w, "failed")
                [] OTHER -> Account!To(w, "listTunnels")
           \/ Account!Reports(w, "unknown")
    BY Zenon DEF Account!Disabled, Account!Reading, Counts, Account!Smooth
  <1>2. CASE Account!To(w, "listTunnels")
    <2>1. Calm
      BY <1>1, <1>2, StillCalm DEF FlowInv, Account!To, Account!Goes
    <2>2. QED
      BY <1>1, <1>2, <2>1, DeleteStage DEF Account!DeleteStages, MayRemove, Before
  <1>3. CASE \E verdict \in {"unknown", "failed"} : Account!Reports(w, verdict)
    BY <1>1, <1>3, DeleteEnds DEF Account!DeleteStages
  <1>4. QED
    BY <1>1, <1>2, <1>3

LEMMA ListTunnelsKeeps ==
  ASSUME Account!AccountAssumption, FlowInv, NEW w \in Workers, Account!ListTunnels(w)
  PROVE  FlowInv'
  <1>1. /\ req[w].at = "listTunnels" /\ UNCHANGED <<Account!router, Account!store>> /\ Counts
        /\ \/ Account!Goes(w, [req[w] EXCEPT !.listed = tunnels, !.at = "disconnect"])
           \/ Account!Reports(w, "unknown")
    BY Zenon DEF Account!ListTunnels, Account!Reading, Counts, Account!Smooth
  <1>2. CASE Account!Goes(w, [req[w] EXCEPT !.listed = tunnels, !.at = "disconnect"])
    <2>1. PICK r \in Workflows, t \in SUBSET Tunnels : r = req[w] /\ t = tunnels
      BY FlowOK DEF FlowInv, World, WorldTyped
    <2> DEFINE n == [r EXCEPT !.listed = t, !.at = "disconnect"]
    <2>2. n \in Workflows
      BY DEF Workflows, Account!DeleteStages
    <2>3. /\ n.at = "disconnect" /\ n.kind = r.kind /\ n.keys = r.keys /\ n.id = r.id
          /\ n.verdict = r.verdict /\ n.cert = r.cert /\ n.todo = r.todo
      BY DEF Workflows
    <2>4. Account!Goes(w, n)
      BY <1>2, <2>1
    <2> HIDE DEF n
    <2>5. Calm /\ MayRemove(req[w]) /\ req[w].at \in Account!DeleteStages
      BY <1>1, <2>4, StillCalm DEF FlowInv, Account!Goes, MayRemove, Before, Account!DeleteStages
    <2>6. n.at \in Account!DeleteStages \ {"revokedNext", "clear", "deleteAccount", "gone"}
      BY <2>3 DEF Account!DeleteStages
    <2>7. QED
      BY <1>1, <2>1, <2>2, <2>3, <2>4, <2>5, <2>6, DeleteTo
  <1>3. CASE Account!Reports(w, "unknown")
    BY <1>1, <1>3, DeleteEnds DEF Account!DeleteStages
  <1>4. QED
    BY <1>1, <1>2, <1>3

LEMMA DisconnectKeeps ==
  ASSUME Account!AccountAssumption, FlowInv, NEW w \in Workers, Account!Disconnect(w)
  PROVE  FlowInv'
  <1>1. /\ req[w].at = "disconnect" /\ UNCHANGED Account!store /\ Counts
        /\ \/ /\ UNCHANGED <<account, rateSet, cert, made, nextId>>
              /\ \E ended : tunnels' = tunnels \ ended
              /\ Account!To(w, "disconnected")
           \/ Account!Reports(w, "coordination") /\ UNCHANGED Account!router
    BY Zenon DEF Account!Disconnect, Account!Guarded, Counts, Account!Smooth, Account!store
  <1>2. CASE /\ UNCHANGED <<account, rateSet, cert, made, nextId>>
             /\ \E ended : tunnels' = tunnels \ ended
             /\ Account!To(w, "disconnected")
    <2>1. Calm
      BY <1>1, <1>2 DEF Calm, FlowInv, World, WorldTyped, Account!store, Account!To, Account!Goes
    <2>2. QED
      BY <1>1, <1>2, <2>1, DeleteStage DEF Account!DeleteStages, MayRemove, Before
  <1>3. CASE Account!Reports(w, "coordination") /\ UNCHANGED Account!router
    BY <1>1, <1>3, DeleteEnds DEF Account!DeleteStages
  <1>4. QED
    BY <1>1, <1>2, <1>3

LEMMA DisconnectedKeeps ==
  ASSUME Account!AccountAssumption, FlowInv, NEW w \in Workers, Account!Disconnected(w)
  PROVE  FlowInv'
  <1>1. /\ req[w].at = "disconnected" /\ UNCHANGED <<Account!router, Account!store>> /\ Counts
        /\ \/ Account!To(w, "revokeNext")
           \/ \E verdict \in {"coordination", "partial", "unknown"} : Account!Reports(w, verdict)
    BY Zenon DEF Account!Disconnected, Account!Reading, Counts, Account!Smooth
  <1>2. CASE Account!To(w, "revokeNext")
    <2>1. Calm
      BY <1>1, <1>2, StillCalm DEF FlowInv, Account!To, Account!Goes
    <2>2. QED
      BY <1>1, <1>2, <2>1, DeleteStage DEF Account!DeleteStages, MayRemove, Before
  <1>3. CASE \E verdict \in {"coordination", "partial", "unknown"} : Account!Reports(w, verdict)
    BY <1>1, <1>3, DeleteEnds DEF Account!DeleteStages
  <1>4. QED
    BY <1>1, <1>2, <1>3

\* The certificate that is revoked next is one of those left.
LEMMA NextToRevoke ==
  ASSUME Account!AccountAssumption, NEW todo \in SUBSET Account!Certs, todo # {}
  PROVE  (CHOOSE c \in todo : \A d \in todo : c >= d) \in todo
  <1> DEFINE Left(c) == MaxCerts - c
             S == {Left(c) : c \in todo}
  <1>1. \A c \in todo : c \in Nat /\ Left(c) \in Nat
    BY DEF Account!AccountAssumption, Account!Certs
  <1>2. S \in SUBSET Nat /\ S # {}
    BY <1>1
  <1>3. PICK m \in S : \A b \in S : m =< b
    <2> HIDE DEF S
    <2>1. QED
      BY <1>2, LeastOK
  <1>4. PICK c \in todo : m = Left(c)
    BY <1>3
  <1>5. \A d \in todo : c >= d
    <2> SUFFICES ASSUME NEW d \in todo PROVE c >= d
      OBVIOUS
    <2>1. Left(c) =< Left(d)
      BY <1>3, <1>4
    <2>2. c \in Nat /\ d \in Nat /\ MaxCerts \in Nat
      BY <1>1 DEF Account!AccountAssumption
    <2>3. QED
      BY <2>1, <2>2
  <1>6. QED
    BY <1>5

LEMMA RevokeNextKeeps ==
  ASSUME Account!AccountAssumption, FlowInv, NEW w \in Workers, Account!RevokeNext(w)
  PROVE  FlowInv'
  <1> DEFINE greatest == CHOOSE c \in req[w].todo : \A d \in req[w].todo : c >= d
  <1>1. /\ req[w].at = "revokeNext" /\ UNCHANGED Account!store /\ Counts
        /\ \/ req[w].todo = {} /\ Account!To(w, "deleteAccount") /\ UNCHANGED Account!router
           \/ /\ req[w].todo # {}
              /\ Account!CertRevoked(greatest) \/ UNCHANGED Account!router
              /\ Account!Goes(w, [req[w] EXCEPT !.cert = greatest, !.at = "revokedNext"])
           \/ Account!Reports(w, "coordination") /\ UNCHANGED Account!router
    BY Zenon DEF Account!RevokeNext, Account!Guarded, Account!Request, Counts, Account!Smooth
  <1>2. PICK r \in Workflows : r = req[w]
    BY FlowOK
  <1>3. CASE Account!Reports(w, "coordination") /\ UNCHANGED Account!router
    BY <1>1, <1>3, DeleteEnds DEF Account!DeleteStages
  <1>4. CASE req[w].todo = {} /\ Account!To(w, "deleteAccount") /\ UNCHANGED Account!router
    <2>1. Calm
      BY <1>1, <1>4, StillCalm DEF FlowInv, Account!To, Account!Goes
    <2>2. QED
      BY <1>1, <1>4, <2>1, DeleteStage DEF Account!DeleteStages, MayRemove, Before
  <1>5. CASE /\ req[w].todo # {}
             /\ Account!CertRevoked(greatest) \/ UNCHANGED Account!router
             /\ Account!Goes(w, [req[w] EXCEPT !.cert = greatest, !.at = "revokedNext"])
    <2>1. r.at = "revokeNext" /\ r.at \in Account!DeleteStages /\ r.todo \in SUBSET Account!Certs
      BY <1>1, <1>2 DEF Account!DeleteStages, Workflows
    <2>2. PICK c \in Account!Certs : c = greatest /\ c \in r.todo
      BY <1>2, <1>5, <2>1, NextToRevoke
    <2> HIDE DEF greatest
    <2>3. Calm
      BY <1>1, <1>5, <2>2, StillCalm, CertRevokedCalm DEF FlowInv, Account!Goes
    <2>4. /\ r.kind = "delete" /\ r.verdict = "none" /\ r.id # 0
          /\ r.keys = {Account!IdKey(r.id), Account!Name}
      BY <1>2, <2>1, Deleting
    <2> DEFINE n == [r EXCEPT !.cert = c, !.at = "revokedNext"]
    <2>5. n \in Workflows
      BY DEF Workflows, Account!DeleteStages
    <2>6. /\ n.at = "revokedNext" /\ n.kind = r.kind /\ n.keys = r.keys /\ n.id = r.id
          /\ n.verdict = r.verdict /\ n.cert = c /\ n.todo = r.todo
      BY DEF Workflows
    <2>7. Account!Goes(w, n) /\ UNCHANGED holder
      BY <1>2, <1>5, <2>2 DEF Account!Goes
    <2> HIDE DEF n
    <2>8. Flow(w, r)'
      BY <1>1, <1>2, <2>3, <2>7, CalmKept
    <2>9. /\ FlowKnows(w, n)' /\ \A d \in n.todo : cert'[d] # "none"
          /\ Owns(w, n)' => ClosedBut(n.id, n.todo)'
      BY <2>1, <2>2, <2>6, <2>8 DEF Flow, FlowKnows, FlowRelies, Owns, Closing
    <2>10. FlowShape(n) /\ Flow(w, n)'
      BY <2>2, <2>4, <2>5, <2>6, <2>9, DeleteGoes DEF Account!DeleteStages, Account!Certs
    <2>11. MayRemove(req[w])
      BY <1>1 DEF MayRemove, Before
    <2>12. QED
      BY <1>1, <2>3, <2>5, <2>7, <2>10, <2>11, CalmGoes
  <1>6. QED
    BY <1>1, <1>3, <1>4, <1>5

LEMMA RevokedNextKeeps ==
  ASSUME Account!AccountAssumption, FlowInv, NEW w \in Workers, Account!RevokedNext(w)
  PROVE  FlowInv'
  <1> DEFINE c == req[w].cert
  <1>1. /\ req[w].at = "revokedNext" /\ UNCHANGED <<Account!router, settings>> /\ Counts
        /\ \/ /\ cert[c] = "revoked" /\ device' = [device EXCEPT ![c] = "revoked"]
              /\ Account!Goes(w, [req[w] EXCEPT !.todo = req[w].todo \ {c}, !.at = "revokeNext"])
           \/ /\ \E verdict \in {"partial", "unknown"} : Account!Reports(w, verdict)
              /\ UNCHANGED device
    BY Zenon DEF Account!RevokedNext, Counts, Account!Smooth
  <1>2. PICK r \in Workflows : r = req[w]
    BY FlowOK
  <1>3. CASE /\ \E verdict \in {"partial", "unknown"} : Account!Reports(w, verdict)
             /\ UNCHANGED device
    BY <1>1, <1>3, DeleteEnds DEF Account!DeleteStages, Account!store
  <1>4. CASE /\ cert[c] = "revoked" /\ device' = [device EXCEPT ![c] = "revoked"]
             /\ Account!Goes(w, [req[w] EXCEPT !.todo = req[w].todo \ {c}, !.at = "revokeNext"])
    <2>1. r.at = "revokedNext" /\ r.at \in Account!DeleteStages /\ r.todo \in SUBSET Account!Certs
      BY <1>1, <1>2 DEF Account!DeleteStages, Workflows
    <2>2. /\ r.kind = "delete" /\ r.verdict = "none" /\ r.id # 0 /\ FlowShape(r)
          /\ r.keys = {Account!IdKey(r.id), Account!Name}
      BY <1>2, <2>1, Deleting
    <2>3. PICK d \in Account!Certs : d = c
      BY <1>2, <2>1, <2>2 DEF FlowShape, WithCert, Workflows
    <2> HIDE DEF c
    <2>4. Calm
      BY <1>1, <1>4, <2>3, RowClosedCalm DEF FlowInv, Account!Goes
    <2>5. device'[d] = "revoked"
      BY <1>4, <2>3 DEF FlowInv, World, WorldTyped
    <2> DEFINE n == [r EXCEPT !.todo = r.todo \ {d}, !.at = "revokeNext"]
    <2>6. n \in Workflows
      BY DEF Workflows, Account!DeleteStages
    <2>7. /\ n.at = "revokeNext" /\ n.kind = r.kind /\ n.keys = r.keys /\ n.id = r.id
          /\ n.verdict = r.verdict /\ n.cert = r.cert /\ n.todo = r.todo \ {d}
      BY DEF Workflows
    <2>8. Account!Goes(w, n) /\ UNCHANGED holder
      BY <1>2, <1>4, <2>3 DEF Account!Goes
    <2> HIDE DEF n
    <2>9. Flow(w, r)'
      BY <1>1, <1>2, <2>4, <2>8, CalmKept
    <2>10. FlowKnows(w, n)' /\ \A e \in n.todo : cert'[e] # "none"
      BY <2>1, <2>7, <2>9 DEF Flow, FlowKnows, FlowRelies, Closing
    <2>11. Owns(w, n)' => ClosedBut(n.id, n.todo)'
      BY <2>1, <2>5, <2>7, <2>9 DEF Flow, FlowRelies, Owns, ClosedBut
    <2>12. FlowShape(n) /\ Flow(w, n)'
      BY <2>2, <2>6, <2>7, <2>10, <2>11, DeleteGoes DEF Account!DeleteStages
    <2>13. MayRemove(req[w])
      BY <1>1 DEF MayRemove, Before
    <2>14. QED
      BY <1>1, <2>4, <2>6, <2>8, <2>12, <2>13, CalmGoes
  <1>5. QED
    BY <1>1, <1>3, <1>4

LEMMA DeleteAccountKeeps ==
  ASSUME Account!AccountAssumption, FlowInv, NEW w \in Workers, Account!DeleteAccount(w)
  PROVE  FlowInv'
  <1>1. /\ req[w].at = "deleteAccount" /\ UNCHANGED Account!store /\ Counts
        /\ \/ /\ Account!Owned(w)
              /\ Account!AccountGone(req[w].id) \/ UNCHANGED Account!router
              /\ Account!To(w, "gone")
           \/ Account!Reports(w, "coordination") /\ UNCHANGED Account!router
    BY Zenon DEF Account!DeleteAccount, Account!Guarded, Account!Request, Counts, Account!Smooth
  <1>2. PICK r \in Workflows : r = req[w]
    BY FlowOK
  <1>3. CASE Account!Reports(w, "coordination") /\ UNCHANGED Account!router
    BY <1>1, <1>3, DeleteEnds DEF Account!DeleteStages
  <1>4. CASE /\ Account!Owned(w)
             /\ Account!AccountGone(req[w].id) \/ UNCHANGED Account!router
             /\ Account!To(w, "gone")
    <2>1. PICK n \in Workflows : n = [r EXCEPT !.at = "gone"] /\ n.at = "gone" /\ Flows(r, n)
      BY AtOK DEF StagesOf, Account!DeleteStages
    <2>2. Account!Goes(w, n) /\ UNCHANGED <<holder, begun, registered>>
      BY <1>2, <1>4, <2>1 DEF Account!To, Account!Goes
    <2>3. r.at = "deleteAccount" /\ r.at \in Account!DeleteStages /\ MayRemove(req[w])
          /\ n.at \in Account!DeleteStages /\ ~MayRemove(n)
      BY <1>1, <1>2, <2>1 DEF Account!DeleteStages, MayRemove, Before
    <2>4. /\ r.kind = "delete" /\ r.verdict = "none" /\ r.id # 0 /\ r.id \in Account!Ids
          /\ r.keys = {Account!IdKey(r.id), Account!Name} /\ FlowShape(r) /\ FlowKnows(w, r)
          /\ \A c \in r.todo : cert[c] # "none"
          /\ ClosedBut(r.id, r.todo)
          /\ holder[Account!Name] = w /\ holder[Account!IdKey(r.id)] = w
      BY <1>2, <1>4, <2>3, Deleting
    <2>5. r.todo = {}
      BY <2>3, <2>4 DEF FlowShape
    <2>6. CASE UNCHANGED Account!router
      <3>1. Calm
        BY <1>1, <2>2, <2>6, StillCalm DEF FlowInv
      <3>2. /\ n.kind = req[w].kind /\ n.keys = req[w].keys /\ n.id = req[w].id
            /\ n.verdict = req[w].verdict /\ n.cert = req[w].cert /\ n.todo = req[w].todo
            /\ n.todo = {}
        BY <1>2, <2>1, <2>5 DEF Flows
      <3>3. req[w].at \in Account!DeleteStages /\ n.at \notin {"revokedNext", "clear"}
        BY <1>2, <2>1, <2>3
      <3>4. QED
        BY <1>1, <2>2, <2>3, <3>1, <3>2, <3>3, DeleteTo
    <2>7. CASE Account!AccountGone(req[w].id) /\ account.id = r.id
      <3>1. /\ World' /\ Moves(w) /\ account'.id = 0 /\ nextId' = nextId
            /\ UNCHANGED <<rateSet, tunnels, cert, made, settings, device>>
        BY <1>1, <1>2, <2>2, <2>4, <2>7, GoneOK DEF FlowInv
      <3>2. FlowKnows(w, n)' /\ \A c \in n.todo : cert'[c] # "none"
        BY <2>1, <2>3, <2>4, <3>1 DEF Flows, FlowKnows, Closing
      <3>3. ClosedBut(n.id, n.todo)'
        BY <2>1, <2>4, <3>1 DEF Flows, ClosedBut
      <3>4. FlowShape(n) /\ Flow(w, n)'
        BY <2>1, <2>3, <2>4, <2>5, <3>2, <3>3, DeleteGoes DEF Flows
      <3>5. req' = [req EXCEPT ![w] = n] /\ Counted(w, n)
        BY <2>2, <2>3, <3>1 DEF Account!Goes, Counted
      <3>6. QED
        BY <3>1, <3>4, <3>5, FlowStep DEF Account!AccountAssumption
    <2>8. QED
      BY <1>2, <1>4, <2>6, <2>7, GoneNothing DEF FlowInv
  <1>5. QED
    BY <1>1, <1>3, <1>4

LEMMA GoneKeeps ==
  ASSUME Account!AccountAssumption, FlowInv, NEW w \in Workers, Account!Gone(w)
  PROVE  FlowInv'
  <1>1. /\ req[w].at = "gone" /\ UNCHANGED <<Account!router, Account!store>> /\ Counts
        /\ \/ account.id = 0 /\ Account!To(w, "clear")
           \/ \E verdict \in {"failed", "unknown"} : Account!Reports(w, verdict)
    BY Zenon DEF Account!Gone, Account!Reading, Counts, Account!Smooth
  <1>2. PICK r \in Workflows : r = req[w]
    BY FlowOK
  <1>3. CASE \E verdict \in {"failed", "unknown"} : Account!Reports(w, verdict)
    BY <1>1, <1>3, DeleteEnds DEF Account!DeleteStages
  <1>4. CASE account.id = 0 /\ Account!To(w, "clear")
    <2>1. PICK n \in Workflows : n = [r EXCEPT !.at = "clear"] /\ n.at = "clear" /\ Flows(r, n)
      BY AtOK DEF StagesOf, Account!DeleteStages
    <2>2. Account!Goes(w, n) /\ UNCHANGED <<holder, begun, registered>>
      BY <1>2, <1>4, <2>1 DEF Account!To, Account!Goes
    <2>3. r.at = "gone" /\ r.at \in Account!DeleteStages
          /\ n.at \in Account!DeleteStages /\ ~MayRemove(n)
      BY <1>1, <1>2, <2>1 DEF Account!DeleteStages, MayRemove, Before
    <2>4. /\ r.kind = "delete" /\ r.verdict = "none" /\ r.id # 0
          /\ r.keys = {Account!IdKey(r.id), Account!Name} /\ FlowShape(r)
      BY <1>2, <2>3, Deleting
    <2>5. Calm /\ account' = account
      BY <1>1, <2>2, StillCalm DEF FlowInv, Account!router
    <2>6. Flow(w, r)'
      BY <1>1, <1>2, <2>2, <2>5, CalmKept
    <2>7. r.todo = {} /\ 0 \notin registered
      BY <2>3, <2>4 DEF FlowShape, FlowInv, World, NumbersOK
    <2>8. FlowKnows(w, n)' /\ \A c \in n.todo : cert'[c] # "none"
      BY <2>1, <2>3, <2>6 DEF Flows, Flow, FlowKnows, FlowRelies, Closing
    <2>9. /\ Owns(w, n)' => ClosedBut(n.id, n.todo)'
          /\ account'.id # n.id /\ account'.id \notin registered'
      BY <1>4, <2>1, <2>2, <2>3, <2>4, <2>5, <2>6, <2>7 DEF Flows, Flow, FlowRelies, Owns
    <2>10. FlowShape(n) /\ Flow(w, n)'
      BY <2>1, <2>3, <2>4, <2>7, <2>8, <2>9, DeleteGoes DEF Flows
    <2>11. QED
      BY <1>1, <2>2, <2>3, <2>5, <2>10, CalmGoes
  <1>5. QED
    BY <1>1, <1>3, <1>4

LEMMA ClearKeeps ==
  ASSUME Account!AccountAssumption, FlowInv, NEW w \in Workers, Account!Clear(w)
  PROVE  FlowInv'
  <1>1. /\ req[w].at = "clear"
        /\ \/ /\ Account!Owned(w) /\ settings' = 0 /\ Account!Reports(w, "success")
              /\ UNCHANGED <<Account!router, device, mishaps>>
           \/ /\ Account!Reports(w, "coordination") /\ Counts
              /\ UNCHANGED <<Account!router, Account!store>>
    BY Zenon DEF Account!Clear, Account!Guarded, Counts, Account!Smooth
  <1>2. PICK r \in Workflows : r = req[w]
    BY FlowOK
  <1>3. CASE /\ Account!Reports(w, "coordination") /\ Counts
             /\ UNCHANGED <<Account!router, Account!store>>
    BY <1>1, <1>3, DeleteEnds DEF Account!DeleteStages
  <1>4. CASE /\ Account!Owned(w) /\ settings' = 0 /\ Account!Reports(w, "success")
             /\ UNCHANGED <<Account!router, device, mishaps>>
    <2>1. r.at = "clear" /\ r.at \in Account!DeleteStages
      BY <1>1, <1>2 DEF Account!DeleteStages
    <2>2. /\ r.kind = "delete" /\ r.id # 0 /\ FlowShape(r) /\ ClosedBut(r.id, r.todo)
          /\ holder[Account!Name] = w /\ account.id # r.id /\ account.id \notin registered
      BY <1>2, <1>4, <2>1, Deleting
    <2>3. Account!Ends(w, "success") /\ UNCHANGED registered
      BY <1>4 DEF Account!Reports
    <2>4. World' /\ Moves(w) /\ UNCHANGED <<account, nextId, cert, made, device>>
      BY <1>4, <2>2, <2>3, ClearedOK
    <2>5. ClosedBut(r.id, {})'
      BY <2>1, <2>2, <2>4 DEF ClosedBut, FlowShape
    <2>6. "success" \in Account!Verdicts
      BY DEF Account!Verdicts
    <2>7. QED
      BY <1>2, <2>2, <2>3, <2>4, <2>5, <2>6, EndsStep
  <1>5. QED
    BY <1>1, <1>3, <1>4

-----------------------------------------------------------------------------
\* Revoking one certificate, and what happens beside the requests.
LEMMA RevokeKeeps ==
  ASSUME Account!AccountAssumption, FlowInv, NEW w \in Workers, Account!Revoke(w)
  PROVE  FlowInv'
  <1>1. /\ req[w].at = "revoke" /\ UNCHANGED Account!store /\ Counts
        /\ Account!CertRevoked(req[w].cert) \/ UNCHANGED Account!router
        /\ Account!To(w, "revoked")
    BY Zenon DEF Account!Revoke, Account!Request, Counts, Account!Smooth
  <1>2. PICK r \in Workflows : r = req[w] /\ FlowShape(r)
    BY FlowOK
  <1>3. PICK n \in Workflows : n = [r EXCEPT !.at = "revoked"] /\ n.at = "revoked" /\ Flows(r, n)
    BY AtOK DEF StagesOf, Account!RevokeStages
  <1>4. Account!Goes(w, n) /\ UNCHANGED <<holder, begun, registered>>
    BY <1>1, <1>2, <1>3 DEF Account!To, Account!Goes
  <1>5. r.cert \in Account!Certs /\ r.cert # 0 /\ r.kind = "revoke" /\ r.keys = {}
        /\ r.verdict = "none" /\ r.at = "revoke"
    BY <1>1, <1>2 DEF FlowShape, WithCert, Workflows, Account!RevokeStages
  <1>6. Calm
    BY <1>1, <1>2, <1>4, <1>5, StillCalm, CertRevokedCalm DEF FlowInv
  <1>7. Flow(w, r)'
    BY <1>1, <1>2, <1>4, <1>6, CalmKept
  <1>8. FlowShape(n)
    BY <1>3, <1>5 DEF Flows, FlowShape, Account!CreateStages, Account!IssueStages,
       Account!DeleteStages, Account!RevokeStages, WithCert, Storing
  <1>9. Flow(w, n)'
    BY <1>3, <1>5, <1>7 DEF Flows, Flow, FlowKnows, FlowRelies, FlowSays, Closing,
       Account!CreateStages, Account!IssueStages, Account!DeleteStages
  <1>10. ~MayRemove(n)
    BY <1>3 DEF MayRemove, Before
  <1>11. QED
    BY <1>1, <1>4, <1>6, <1>8, <1>9, <1>10, CalmGoes

LEMMA RevokedKeeps ==
  ASSUME Account!AccountAssumption, FlowInv, NEW w \in Workers, Account!Revoked(w)
  PROVE  FlowInv'
  <1>1. /\ req[w].at = "revoked" /\ UNCHANGED <<Account!router, settings>> /\ Counts
        /\ \E verdict \in {"success", "failed", "unknown"} : Account!Reports(w, verdict)
        /\ \/ /\ cert[req[w].cert] = "revoked"
              /\ device' = [device EXCEPT ![req[w].cert] = "revoked"]
           \/ UNCHANGED device
    BY Zenon DEF Account!Revoked, Counts, Account!Smooth
  <1>2. PICK r \in Workflows : r = req[w] /\ FlowShape(r)
    BY FlowOK
  <1>3. r.cert \in Account!Certs /\ r.kind = "revoke" /\ UNCHANGED <<begun, registered>>
    BY <1>1, <1>2 DEF FlowShape, WithCert, Workflows, Account!RevokeStages, Account!Reports,
       Account!Ends
  <1>4. Calm
    <2>1. CASE UNCHANGED device
      BY <1>1, <1>3, <2>1, StillCalm DEF FlowInv, Account!store
    <2>2. CASE /\ cert[req[w].cert] = "revoked"
               /\ device' = [device EXCEPT ![req[w].cert] = "revoked"]
      BY <1>1, <1>2, <1>3, <2>2, RowClosedCalm DEF FlowInv
    <2>3. QED
      BY <1>1, <2>1, <2>2
  <1>5. PICK verdict \in Account!Verdicts : Account!Reports(w, verdict)
    BY <1>1 DEF Account!Verdicts
  <1>6. req[w].kind # "delete" /\ req[w].kind # "create"
    BY <1>2, <1>3
  <1>7. QED
    BY <1>1, <1>4, <1>5, <1>6, CalmEnds

\* The world moves and no request does.
LEMMA BesideStep ==
  ASSUME Nobody \notin Workers, FlowInv, World', Moves(Nobody), UNCHANGED <<req, begun>>,
         \/ nextId' = nextId /\ account'.id = account.id
         \/ nextId' = nextId + 1 /\ account.id = 0 /\ account'.id # 0
  PROVE  FlowInv'
  <1>1. Removers' = Removers
    BY DEF Removers, MayRemove
  <1>2. IdsLeft'
    <2>1. IsFiniteSet(Removers') /\ Cardinality(Removers') = Cardinality(Removers)
      BY <1>1 DEF FlowInv, IdsLeft
    <2>2. Cardinality(Removers) \in Nat /\ nextId \in Nat /\ begun \in Nat
      BY FS_CardinalityType DEF FlowInv, IdsLeft, World, WorldTyped
    <2>3. nextId' + Cardinality(Removers) + (IF account'.id = 0 THEN 1 ELSE 0) =< begun' + 2
      BY <2>2 DEF FlowInv, IdsLeft
    <2>4. QED
      BY <2>1, <2>3 DEF IdsLeft
  <1>3. ASSUME NEW v \in Workers PROVE FlowShape(req'[v]) /\ Flow(v, req[v])'
    <2>1. PICK q \in Workflows : q = req[v] /\ q = req'[v] /\ FlowShape(q) /\ Flow(v, q)
      BY DEF FlowInv
    <2>2. Flow(v, q)'
      BY <2>1, FlowStays DEF FlowInv
    <2>3. QED
      BY <2>1, <2>2 DEF Flow, FlowKnows, FlowRelies, FlowSays, CreateKnows, CreateOwns, Sure,
                        Owns, ClosedBut
  <1>4. QED
    BY <1>2, <1>3 DEF FlowInv, FlowShape

LEMMA LoseLockKeeps ==
  ASSUME Account!AccountAssumption, FlowInv, NEW w \in Workers, Account!LoseLock(w)
  PROVE  FlowInv'
  <1>1. /\ UNCHANGED <<Account!router, Account!store, registered, req, begun>> /\ Counts
        /\ \E k : holder' = [holder EXCEPT ![k] = Nobody]
    BY DEF Account!LoseLock, Counts
  <1>2. /\ holder' \in [Account!Keys -> Workers \cup {Nobody}]
        /\ \A k \in Account!Keys : holder'[k] # holder[k] => holder'[k] = Nobody
    BY <1>1 DEF FlowInv, World, WorldTyped
  <1>3. World'
    BY <1>1, <1>2, StillOK DEF FlowInv, Still
  <1>4. Moves(Nobody)
    BY <1>1, <1>2, KeysOK DEF Moves, Account!router, Account!store, FlowInv, World, WorldTyped
  <1>5. nextId' = nextId /\ account'.id = account.id
    BY <1>1 DEF Account!router
  <1>6. QED
    BY <1>1, <1>3, <1>4, <1>5, BesideStep DEF Account!AccountAssumption

LEMMA BesideKeeps ==
  ASSUME Account!AccountAssumption, FlowInv,
         Account!AdminAdds \/ \E t \in Tunnels : Account!Connects(t) \/ Account!Disconnects(t)
  PROVE  FlowInv'
  <1>1. CASE Account!AdminAdds
    <2>1. /\ Account!AccountAdded(Nobody) /\ account.id = 0 /\ Counts
          /\ UNCHANGED <<Account!store, registered, holder, req, begun>>
      BY <1>1 DEF Account!AdminAdds, Counts
    <2>2. World' /\ Moves(Nobody) /\ nextId' = nextId + 1 /\ account'.id # 0
      BY <2>1, AddedOK
    <2>3. QED
      BY <2>1, <2>2, BesideStep DEF Account!AccountAssumption
  <1>2. CASE \E t \in Tunnels : Account!Connects(t) \/ Account!Disconnects(t)
    <2>1. /\ UNCHANGED <<account, rateSet, cert, made, nextId, Account!store, registered, holder,
                         req, begun, mishaps>>
          /\ tunnels' \subseteq Tunnels
      BY <1>2 DEF Account!Connects, Account!Disconnects, FlowInv, World, WorldTyped
    <2>2. Calm /\ Counts /\ holder' \in [Account!Keys -> Workers \cup {Nobody}]
      BY <2>1 DEF Calm, Counts, Account!Smooth, Account!store, FlowInv, World, WorldTyped
    <2>3. World' /\ Moves(Nobody)
      BY <2>1, <2>2, CalmOK DEF FlowInv
    <2>4. QED
      BY <2>1, <2>3, BesideStep DEF Account!AccountAssumption
  <1>3. QED
    BY <1>1, <1>2

LEMMA FlowInit ==
  ASSUME Account!AccountAssumption, Account!Init PROVE FlowInv
  <1>1. World
    BY DEF Account!Init, World, WorldTyped, RowsOK, NumbersOK, Account!AccountAssumption,
           Account!Ids, Account!Certs
  <1>2. req \in [Workers -> Workflows] /\ \A w \in Workers : req[w] = Account!Idle
    BY IdleOK DEF Account!Init
  <1>3. IdsLeft
    <2>1. Removers = {}
      BY <1>2 DEF Removers, MayRemove, Before, Account!Idle
    <2>2. IsFiniteSet(Removers) /\ Cardinality(Removers) = 0
      BY <2>1, FS_EmptySet
    <2>3. QED
      BY <2>2 DEF IdsLeft, Account!Init
  <1>4. PICK n \in Workflows :
          /\ n = Account!Idle /\ n.at = "idle" /\ n.keys = {} /\ n.kind = "none"
          /\ n.id = 0 /\ n.cert = 0
    BY IdleOK DEF Account!Idle
  <1>5. FlowShape(n)
    BY <1>4 DEF FlowShape, Account!CreateStages, Account!IssueStages,
       Account!DeleteStages, Account!RevokeStages, WithCert, Storing
  <1>6. ASSUME NEW w \in Workers PROVE Flow(w, n)
    BY <1>4 DEF Flow, FlowKnows, FlowRelies, FlowSays, Closing, Account!Init,
       Account!CreateStages, Account!IssueStages, Account!DeleteStages
  <1>7. QED
    BY <1>1, <1>2, <1>3, <1>4, <1>5, <1>6 DEF FlowInv

LEMMA FlowNext ==
  ASSUME Account!AccountAssumption, FlowInv, [Account!Next]_Account!vars PROVE FlowInv'
  <1>1. CASE UNCHANGED Account!vars
    <2> USE <1>1 DEF Account!vars
    <2>1. World'
      BY DEF FlowInv, World, WorldTyped, RowsOK, NumbersOK
    <2>2. IdsLeft'
      BY DEF FlowInv, IdsLeft, Removers, MayRemove
    <2>3. ASSUME NEW w \in Workers
          PROVE  FlowShape(req[w])' /\ FlowKnows(w, req[w])' /\ FlowSays(w, req[w])'
      BY DEF FlowInv, FlowShape, Flow, FlowKnows, FlowSays, ClosedBut
    <2>4. ASSUME NEW w \in Workers
          PROVE  FlowRelies(w, req[w])'
      BY DEF FlowInv, Flow, FlowRelies, CreateKnows, CreateOwns, Sure, Owns, ClosedBut
    <2>5. QED
      BY <2>1, <2>2, <2>3, <2>4 DEF FlowInv, Flow
  <1>2. ASSUME NEW w \in Workers, Account!CreateStep(w) PROVE FlowInv'
    BY <1>2, ReviewCreateKeeps, EnsureRateKeeps, PutAccountKeeps, WhichIdKeeps,
       StoreSettingsKeeps, ProvisionFirstKeeps, RecordFirstKeeps, DeliverFirstKeeps,
       UndoCertKeeps, UndoneCertKeeps, UndoAccountKeeps, AbsentKeeps, UndoFoundKeeps,
       RelistKeeps, RateLeftKeeps, ForgetKeeps DEF Account!CreateStep
  <1>3. ASSUME NEW w \in Workers, Account!IssueStep(w) PROVE FlowInv'
    BY <1>3, ReviewIssueKeeps, IssueKeeps, IssueRecordKeeps, IssueDeliverKeeps, IssueUndoKeeps,
       IssueUndoneKeeps, IssueLocalKeeps DEF Account!IssueStep
  <1>4. ASSUME NEW w \in Workers, Account!DeleteStep(w) PROVE FlowInv'
    BY <1>4, ReviewDeleteKeeps, DisableKeeps, DisabledKeeps, ListTunnelsKeeps, DisconnectKeeps,
       DisconnectedKeeps, RevokeNextKeeps, RevokedNextKeeps, DeleteAccountKeeps, GoneKeeps,
       ClearKeeps DEF Account!DeleteStep
  <1>5. ASSUME NEW w \in Workers, Account!RevokeStep(w) \/ Account!LoseLock(w) PROVE FlowInv'
    BY <1>5, ReviewRevokeKeeps, RevokeKeeps, RevokedKeeps, LoseLockKeeps DEF Account!RevokeStep
  <1>6. QED
    BY <1>1, <1>2, <1>3, <1>4, <1>5, BesideKeeps DEF Account!Next

\* FlowInv holds in every reachable state, whatever the requests and mishaps.
THEOREM FlowInvariant ==
  ASSUME Account!AccountAssumption PROVE Account!Spec => []FlowInv
  <1>1. Account!Init => FlowInv
    BY FlowInit
  <1>2. FlowInv /\ [Account!Next]_Account!vars => FlowInv'
    BY FlowNext
  <1>3. QED
    BY <1>1, <1>2, PTL DEF Account!Spec

\* Every variable of the account handlers has its type, and RouterOS never gives more ids
\* than requests and the other administrator can use.
THEOREM AccountTyped ==
  ASSUME Account!AccountAssumption PROVE Account!Spec => []Account!TypeOK
  <1>1. FlowInv => Account!TypeOK
    <2> SUFFICES ASSUME FlowInv PROVE Account!TypeOK
      OBVIOUS
    <2>1. nextId \in 2..(MaxAccountRequests + 3)
      BY NextIdOK DEF FlowInv, World, WorldTyped, Account!Ids, Account!AccountAssumption
    <2>2. QED
      BY <2>1 DEF FlowInv, World, WorldTyped, Workflows, Account!TypeOK
  <1>2. QED
    BY <1>1, FlowInvariant, PTL

\* The deletion of an account that was reported as success left no such account and no
\* certificate of it that is not revoked (_delete_user, app.py).
THEOREM DeletedStaysGone ==
  ASSUME Account!AccountAssumption PROVE Account!Spec => []Account!DeletedIsGone
  <1>1. FlowInv => Account!DeletedIsGone
    BY DEF FlowInv, Flow, FlowSays, ClosedBut, World, RowsOK, Account!DeletedIsGone
  <1>2. QED
    BY <1>1, FlowInvariant, PTL

\* The settings of a reported account are never taken away by another request's cleanup.
THEOREM SettingsOfRegistered ==
  ASSUME Account!AccountAssumption PROVE Account!Spec => []Account!SettingsStay
  <1>1. FlowInv => Account!SettingsStay
    BY DEF FlowInv, World, NumbersOK, Account!SettingsStay
  <1>2. QED
    BY <1>1, FlowInvariant, PTL

\* A creation that reports its recovery as verified left neither its account nor a usable
\* certificate of it.
THEOREM RecoveryIsVerified ==
  ASSUME Account!AccountAssumption PROVE Account!Spec => []Account!RecoveredTakesBack
  <1>1. FlowInv => Account!RecoveredTakesBack
    BY DEF FlowInv, Flow, FlowSays, Account!RecoveredTakesBack
  <1>2. QED
    BY <1>1, FlowInvariant, PTL

\* A device row is closed only when the router's certificate is revoked.
THEOREM ClosedRowsAreRevoked ==
  ASSUME Account!AccountAssumption PROVE Account!Spec => []Account!RowsFollowRouter
  <1>1. FlowInv => Account!RowsFollowRouter
    BY DEF FlowInv, World, RowsOK, Account!RowsFollowRouter
  <1>2. QED
    BY <1>1, FlowInvariant, PTL

-----------------------------------------------------------------------------
\* Who takes a step, and what it may remove.
Own(w) == \E r : req' = [req EXCEPT ![w] = r]
Kept == account.id # 0 => account'.id = account.id
Plain(w) == Own(w) /\ Kept /\ req[w].at # "forget"

LEMMA OwnSteps ==
  ASSUME FlowInv, NEW w \in Workers
  PROVE  /\ \A r : Account!Goes(w, r) => Own(w)
         /\ \A s : Account!To(w, s) => Own(w)
         /\ \A lost : Account!FailsBy(w, lost) => Own(w)
         /\ \A v : Account!Ends(w, v) => Own(w)
         /\ \A v : Account!Reports(w, v) => Own(w)
         /\ \A kind, keys, r : Account!Begins(w, kind, keys, r) => Own(w)
  <1>1. \A r : Account!Goes(w, r) => Own(w)
    BY DEF Account!Goes, Own
  <1>2. \A v : Account!Ends(w, v) => Own(w)
    <2> SUFFICES ASSUME NEW v, Account!Ends(w, v) PROVE Own(w)
      OBVIOUS
    <2>1. req' = [req EXCEPT ![w] = Ended(req[w], v)]
      BY DEF Account!Ends, Ended, FlowInv
    <2>2. QED
      BY <2>1 DEF Own
  <1>3. \A kind, keys, r : Account!Begins(w, kind, keys, r) => Own(w)
    BY DEF Account!Begins, Own
  <1>4. QED
    BY <1>1, <1>2, <1>3, Zenon DEF Account!To, Account!FailsBy, Account!Reports

LEMMA KeptSteps ==
  ASSUME FlowInv
  PROVE  /\ UNCHANGED Account!router => Kept
         /\ UNCHANGED account => Kept
         /\ account.id = 0 => Kept
         /\ \A c : Account!CertRevoked(c) => Kept
         /\ Account!AccountBecomes([account EXCEPT !.disabled = TRUE]) => Kept
         /\ \A id : Account!AccountGone(id) /\ account.id # id => Kept
  BY DEF Kept, Account!router, Account!CertRevoked, Account!AccountBecomes, Account!AccountGone,
         FlowInv, World, WorldTyped

LEMMA PlainCreate ==
  ASSUME FlowInv, NEW w \in Workers,
         \/ Account!ReviewCreate(w) \/ Account!EnsureRate(w) \/ Account!PutAccount(w)
         \/ Account!WhichId(w) \/ Account!StoreSettings(w) \/ Account!ProvisionFirst(w)
         \/ Account!RecordFirst(w) \/ Account!DeliverFirst(w) \/ Account!UndoCert(w)
         \/ Account!UndoneCert(w) \/ Account!Absent(w) \/ Account!Relist(w)
         \/ Account!RateLeft(w)
  PROVE  Plain(w)
  <1>1. CASE Account!ReviewCreate(w)
    <2>1. Own(w) /\ Kept
      BY <1>1, OwnSteps, KeptSteps, Zenon DEF Account!ReviewCreate
    <2>2. req[w].at = "idle"
      BY <1>1 DEF Account!ReviewCreate, Account!Begins
    <2>3. QED
      BY <2>1, <2>2 DEF Plain
  <1>2. CASE Account!EnsureRate(w)
    BY <1>2, OwnSteps, KeptSteps DEF Plain, Account!EnsureRate, Account!Create, Account!Request,
       Account!Fails
  <1>3. CASE Account!PutAccount(w)
    BY <1>3, OwnSteps, KeptSteps DEF Plain, Account!PutAccount, Account!Create, Account!Request,
       Account!Fails
  <1>4. CASE Account!WhichId(w)
    BY <1>4, OwnSteps, KeptSteps DEF Plain, Account!WhichId, Account!Create, Account!Reading,
       Account!Fails
  <1>5. CASE Account!StoreSettings(w)
    BY <1>5, OwnSteps, KeptSteps DEF Plain, Account!StoreSettings, Account!Create, Account!Fails
  <1>6. CASE Account!ProvisionFirst(w)
    BY <1>6, OwnSteps, KeptSteps DEF Plain, Account!ProvisionFirst, Account!Create,
       Account!Provision
  <1>7. CASE Account!RecordFirst(w)
    BY <1>7, OwnSteps, KeptSteps DEF Plain, Account!RecordFirst, Account!Create, Account!Fails
  <1>8. CASE Account!DeliverFirst(w)
    BY <1>8, OwnSteps, KeptSteps DEF Plain, Account!DeliverFirst, Account!Create, Account!Fails
  <1>9. CASE Account!UndoCert(w)
    BY <1>9, OwnSteps, KeptSteps DEF Plain, Account!UndoCert, Account!At, Account!Request
  <1>10. CASE Account!UndoneCert(w)
    BY <1>10, OwnSteps, KeptSteps DEF Plain, Account!UndoneCert, Account!At, Account!Reading
  <1>11. CASE Account!Absent(w)
    BY <1>11, OwnSteps, KeptSteps DEF Plain, Account!Absent, Account!At, Account!Reading
  <1>12. CASE Account!Relist(w)
    BY <1>12, OwnSteps, KeptSteps DEF Plain, Account!Relist, Account!At, Account!Reading
  <1>13. CASE Account!RateLeft(w)
    BY <1>13, OwnSteps, KeptSteps DEF Plain, Account!RateLeft, Account!At, Account!Reading
  <1>14. QED
    BY <1>1, <1>2, <1>3, <1>4, <1>5, <1>6, <1>7, <1>8, <1>9, <1>10, <1>11, <1>12, <1>13

LEMMA PlainOther ==
  ASSUME FlowInv, NEW w \in Workers,
         \/ Account!IssueStep(w) \/ Account!RevokeStep(w)
         \/ Account!DeleteStep(w) /\ req[w].at # "deleteAccount"
  PROVE  Plain(w)
  <1>1. CASE Account!ReviewIssue(w) \/ Account!ReviewDelete(w) \/ Account!ReviewRevoke(w)
    <2>1. Own(w) /\ Kept
      BY <1>1, OwnSteps, KeptSteps, Zenon DEF Account!ReviewIssue, Account!ReviewDelete,
         Account!ReviewRevoke
    <2>2. req[w].at = "idle"
      BY <1>1 DEF Account!ReviewIssue, Account!ReviewDelete, Account!ReviewRevoke, Account!Begins
    <2>3. QED
      BY <2>1, <2>2 DEF Plain
  <1>2. CASE Account!Issue(w)
    BY <1>2, OwnSteps, KeptSteps DEF Plain, Account!Issue, Account!Guarded, Account!Provision
  <1>3. CASE Account!IssueRecord(w) \/ Account!IssueDeliver(w)
    BY <1>3, OwnSteps, KeptSteps DEF Plain, Account!IssueRecord, Account!IssueDeliver,
       Account!Guarded
  <1>4. CASE Account!IssueUndo(w)
    BY <1>4, OwnSteps, KeptSteps DEF Plain, Account!IssueUndo, Account!Guarded, Account!Request
  <1>5. CASE Account!IssueUndone(w)
    BY <1>5, OwnSteps, KeptSteps DEF Plain, Account!IssueUndone, Account!Reading
  <1>6. CASE Account!IssueLocal(w)
    BY <1>6, OwnSteps, KeptSteps DEF Plain, Account!IssueLocal
  <1>7. CASE Account!Disable(w)
    BY <1>7, OwnSteps, KeptSteps DEF Plain, Account!Disable, Account!Guarded, Account!Request
  <1>8. CASE Account!Disabled(w)
    BY <1>8, OwnSteps, KeptSteps DEF Plain, Account!Disabled, Account!Reading
  <1>9. CASE Account!ListTunnels(w)
    BY <1>9, OwnSteps, KeptSteps DEF Plain, Account!ListTunnels, Account!Reading
  <1>10. CASE Account!Disconnect(w)
    BY <1>10, OwnSteps, KeptSteps DEF Plain, Account!Disconnect, Account!Guarded
  <1>11. CASE Account!Disconnected(w)
    BY <1>11, OwnSteps, KeptSteps DEF Plain, Account!Disconnected, Account!Reading
  <1>12. CASE Account!RevokeNext(w)
    BY <1>12, OwnSteps, KeptSteps DEF Plain, Account!RevokeNext, Account!Guarded, Account!Request
  <1>13. CASE Account!RevokedNext(w)
    BY <1>13, OwnSteps, KeptSteps DEF Plain, Account!RevokedNext
  <1>14. CASE Account!Gone(w)
    BY <1>14, OwnSteps, KeptSteps DEF Plain, Account!Gone, Account!Reading
  <1>15. CASE Account!Clear(w)
    BY <1>15, OwnSteps, KeptSteps DEF Plain, Account!Clear, Account!Guarded
  <1>16. CASE Account!Revoke(w)
    BY <1>16, OwnSteps, KeptSteps DEF Plain, Account!Revoke, Account!Request
  <1>17. CASE Account!Revoked(w)
    BY <1>17, OwnSteps, KeptSteps DEF Plain, Account!Revoked
  <1>18. ~(Account!DeleteAccount(w) /\ req[w].at # "deleteAccount")
    BY Zenon DEF Account!DeleteAccount, Account!Guarded
  <1>19. QED
    BY <1>1, <1>2, <1>3, <1>4, <1>5, <1>6, <1>7, <1>8, <1>9, <1>10, <1>11, <1>12, <1>13, <1>14,
       <1>15, <1>16, <1>17, <1>18 DEF Account!IssueStep, Account!DeleteStep, Account!RevokeStep

\* Only the compensation of its own creation, and a deletion, remove an account.
LEMMA RemovesOwn ==
  ASSUME Account!AccountAssumption, FlowInv, NEW w \in Workers,
         Account!UndoAccount(w) \/ Account!UndoFound(w), account.id # 0, account'.id # account.id
  PROVE  Own(w) /\ account.by = w
  <1>1. PICK r \in Workflows : r = req[w]
    BY FlowOK
  <1>2. /\ r.at \in Undone /\ UNCHANGED holder
        /\ Own(w) /\ Account!StillOwned(w) /\ r.id # 0 /\ account.id = r.id
    <2>1. CASE Account!UndoAccount(w)
      <3>1. Own(w) /\ (Kept \/ /\ req[w].id # 0 /\ Account!StillOwned(w)
                               /\ Account!AccountGone(req[w].id))
        BY <2>1, OwnSteps, KeptSteps DEF Account!UndoAccount, Account!Request
      <3>2. req[w].at = "undoAccount" /\ UNCHANGED holder
        BY <2>1 DEF Account!UndoAccount, Account!At, Account!Request, Account!Goes
      <3>3. QED
        BY <1>1, <3>1, <3>2, KeptSteps DEF Kept, Undone, Closing
    <2>2. CASE Account!UndoFound(w)
      <3>1. Own(w) /\ (Kept \/ (Account!StillOwned(w) /\ Account!AccountGone(req[w].id)))
        BY <2>2, OwnSteps, KeptSteps DEF Account!UndoFound, Account!Request
      <3>2. req[w].at = "undoFound" /\ UNCHANGED holder
        BY <2>2 DEF Account!UndoFound, Account!At, Account!Request, Account!Goes
      <3>3. req[w].id # 0
        BY <1>1, <3>2, FlowOK DEF FlowShape
      <3>4. QED
        BY <1>1, <3>1, <3>2, <3>3, KeptSteps DEF Kept, Undone, Closing
    <2>3. QED
      BY <2>1, <2>2
  <1>3. CreateOwns(w, r)
    BY <1>1, <1>2, Compensating
  <1>4. QED
    BY <1>2, <1>3 DEF CreateOwns

\* The four steps that Plain leaves out belong to the worker as well.
LEMMA StepIsOwn ==
  ASSUME Account!AccountAssumption, FlowInv, NEW w \in Workers,
         \/ Account!CreateStep(w) \/ Account!IssueStep(w) \/ Account!DeleteStep(w)
         \/ Account!RevokeStep(w)
  PROVE  /\ Own(w)
         /\ \/ Plain(w)
            \/ Account!UndoAccount(w) \/ Account!UndoFound(w)
            \/ Account!Forget(w) /\ Kept
            \/ req[w].at = "deleteAccount"
  <1>1. CASE Account!CreateStep(w)
    <2>1. CASE Account!UndoAccount(w) \/ Account!UndoFound(w)
      BY <2>1, OwnSteps DEF Account!UndoAccount, Account!UndoFound, Account!Request
    <2>2. CASE Account!Forget(w)
      BY <2>2, OwnSteps, KeptSteps DEF Account!Forget
    <2>3. CASE ~(Account!UndoAccount(w) \/ Account!UndoFound(w) \/ Account!Forget(w))
      BY <1>1, <2>3, PlainCreate DEF Account!CreateStep, Plain
    <2>4. QED
      BY <2>1, <2>2, <2>3
  <1>2. CASE Account!DeleteStep(w) /\ req[w].at = "deleteAccount"
    <2>1. CASE Account!DeleteAccount(w)
      BY <1>2, <2>1, OwnSteps DEF Account!DeleteAccount, Account!Guarded, Account!Request
    <2>2. CASE Account!ReviewDelete(w)
      BY <1>2, <2>2 DEF Account!ReviewDelete, Account!Begins
    <2>3. CASE \/ Account!Disable(w) \/ Account!Disconnect(w) \/ Account!Clear(w)
      BY <1>2, <2>3, Zenon DEF Account!Disable, Account!Disconnect, Account!Clear, Account!Guarded
    <2>4. CASE \/ Account!Disabled(w) \/ Account!ListTunnels(w) \/ Account!Disconnected(w)
               \/ Account!RevokedNext(w) \/ Account!Gone(w)
      BY <1>2, <2>4, Zenon DEF Account!Disabled, Account!ListTunnels, Account!Disconnected,
         Account!RevokedNext, Account!Gone
    <2>5. CASE Account!RevokeNext(w)
      BY <1>2, <2>5, Zenon DEF Account!RevokeNext, Account!Guarded
    <2>6. QED
      BY <1>2, <2>1, <2>2, <2>3, <2>4, <2>5 DEF Account!DeleteStep
  <1>3. CASE \/ Account!IssueStep(w) \/ Account!RevokeStep(w)
             \/ Account!DeleteStep(w) /\ req[w].at # "deleteAccount"
    BY <1>3, PlainOther DEF Plain
  <1>4. QED
    BY <1>1, <1>2, <1>3

\* What one step does to requests and account.
LEMMA StepActs ==
  ASSUME Account!AccountAssumption, FlowInv, Account!Next
  PROVE  \/ UNCHANGED req /\ Kept
         \/ \E w \in Workers :
              /\ Own(w)
              /\ \/ Plain(w)
                 \/ Account!UndoAccount(w) \/ Account!UndoFound(w)
                 \/ Account!Forget(w) /\ Kept
                 \/ req[w].at = "deleteAccount"
  <1>1. CASE Account!AdminAdds
    BY <1>1, KeptSteps DEF Account!AdminAdds
  <1>2. CASE \E t \in Tunnels : Account!Connects(t) \/ Account!Disconnects(t)
    BY <1>2, KeptSteps DEF Account!Connects, Account!Disconnects
  <1>3. ASSUME NEW w \in Workers, Account!LoseLock(w) PROVE UNCHANGED req /\ Kept
    BY <1>3, KeptSteps DEF Account!LoseLock
  <1>4. QED
    BY <1>1, <1>2, <1>3, StepIsOwn DEF Account!Next

LEMMA OwnOnly ==
  ASSUME FlowInv, NEW w \in Workers, Own(w), NEW v \in Workers, v # w
  PROVE  req'[v] = req[v]
  BY DEF Own, FlowInv

\* Compensation removes no account another administrator, or another request, made
\* (app.py:5194).
THEOREM ForeignAccountsAreLeft ==
  ASSUME Account!AccountAssumption PROVE Account!Spec => Account!ForeignAccountsStand
  <1>1. FlowInv /\ [Account!Next]_Account!vars
          => [Account!ForeignAccountsStandStep]_Account!vars
    <2> SUFFICES ASSUME FlowInv, Account!Next, NEW w \in Workers,
                        req[w].kind = "create", req[w] # req'[w],
                        account.id # 0, account'.id # account.id
                 PROVE  account.by = w
      BY Zenon DEF Account!ForeignAccountsStandStep
    <2>1. PICK v \in Workers :
            /\ Own(v)
            /\ \/ Plain(v)
               \/ Account!UndoAccount(v) \/ Account!UndoFound(v)
               \/ Account!Forget(v) /\ Kept
               \/ req[v].at = "deleteAccount"
      BY StepActs
    <2>2. v = w
      BY <2>1, OwnOnly
    <2>3. req[w].at # "deleteAccount"
      BY FlowOK DEF FlowShape, Account!DeleteStages
    <2>4. Account!UndoAccount(w) \/ Account!UndoFound(w)
      BY <2>1, <2>2, <2>3 DEF Plain, Kept
    <2>5. QED
      BY <2>4, RemovesOwn
  <1>2. QED
    BY <1>1, FlowInvariant, PTL DEF Account!Spec, Account!ForeignAccountsStand

\* A creation that set a rate and reports its recovery as verified left the rate profile as
\* it was found (app.py:5215-5240).
THEOREM RateIsAsBefore ==
  ASSUME Account!AccountAssumption
  PROVE  Account!Spec => [][Account!RateAsBeforeStep]_Account!vars
  <1>1. FlowInv /\ [Account!Next]_Account!vars => [Account!RateAsBeforeStep]_Account!vars
    <2> SUFFICES ASSUME FlowInv, Account!Next, NEW w \in Workers,
                        req[w].kind = "create", req[w].rate, req[w].at = "forget",
                        req'[w].verdict = "recovered"
                 PROVE  rateSet' = req[w].rateBefore
      BY Zenon DEF Account!RateAsBeforeStep
    <2>1. req[w].verdict = "none"
      BY FlowOK DEF FlowShape
    <2>2. PICK v \in Workers :
            /\ Own(v)
            /\ \/ Plain(v)
               \/ Account!UndoAccount(v) \/ Account!UndoFound(v)
               \/ Account!Forget(v) /\ Kept
               \/ req[v].at = "deleteAccount"
      BY <2>1, StepActs
    <2>3. v = w
      BY <2>1, <2>2, OwnOnly
    <2>4. ~Account!UndoAccount(w) /\ ~Account!UndoFound(w)
      BY Zenon DEF Account!UndoAccount, Account!UndoFound, Account!At
    <2>5. Account!Forget(w)
      BY <2>2, <2>3, <2>4 DEF Plain
    <2>6. PICK r \in Workflows : r = req[w] /\ r.at = "forget"
      BY FlowOK
    <2>7. r.recovery = "recovered" /\ Account!StillOwned(w)
      <3>1. req'[w].verdict = IF req[w].lost \/ (req[w].recovery = "recovered" /\ ~Account!Owned(w))
                              THEN "coordination" ELSE req[w].recovery
        BY <2>5, <2>6 DEF Account!Forget, Account!Reports, Account!Ends, FlowInv, Workflows
      <3>2. QED
        BY <2>6, <3>1 DEF Account!StillOwned
    <2>8. CreateOwns(w, r) /\ UNCHANGED rateSet
      <3>1. r.at \in Account!CreateStages /\ UNCHANGED rateSet
        BY <2>5, <2>6 DEF Account!CreateStages, Account!Forget, Account!router
      <3>2. Sure(w, r)
        BY <2>6, <2>7, <3>1, Creating DEF Sure, Account!StillOwned
      <3>3. QED
        BY <2>6, <3>1, <3>2, Creating
    <2>9. QED
      BY <2>6, <2>7, <2>8 DEF CreateOwns
  <1>2. QED
    BY <1>1, FlowInvariant, PTL DEF Account!Spec
=============================================================================
