------------------------ MODULE RequestHandlersProofs ------------------------
(***************************************************************************)
(* Proofs about RequestHandlers.  First CredentialChecks: what the login   *)
(* rate limiter and the handlers around it promise holds in every state,   *)
(* for any number of workers, any set of identities and any limits.  Then  *)
(* the other parts: what AccountProofs, HandlerProofs and                  *)
(* ReleasePromotionProofs prove of a component holds of its part of        *)
(* PartsSpec.                                                              *)
(***************************************************************************)
EXTENDS RequestHandlers, FiniteSetTheorems, TLAPS

-----------------------------------------------------------------------------
(* Checks of credentials: the inductive invariant *)
\* A request between its arrival and its answer: it holds a reservation exactly
\* while the password or the login it led to is being checked, nothing is done to
\* sessions before the revocation step, and that step is reached with the record of
\* an account's revocation written and, for the sessions of others, with a standing
\* that has been seen.
InOrder(r, c) ==
  /\ r \in Requests
  /\ r.at # "idle" => r.id \in Identities /\ r.answer = "none"
  /\ r.held => r.at \in {"verify", "commit"}
  /\ r.at \in {"verify", "commit"} => r.held
  /\ r.done = "no" \/ r.at \in {"idle", "close"}
  /\ r.at = "close" => r.done = "yes"
  /\ r.at = "recheck" /\ c => r.stood
  /\ r.at \in {"start", "revoke"} /\ r.kind # "revokeOthers" => r.stood
  /\ r.kind = "revokeAccount" /\ r.at \in {"revoke", "close"} => r.started
  /\ r.kind = "revokeAccount" /\ r.done # "no" => r.started
  /\ r.answer = "revoked" => r.done = "yes"
  /\ r.answer = "pending" => r.done = "later"
  /\ r.answer = "notRevoked" => r.done = "no"
Handling == \A w \in Workers : InOrder(req[w], capable)

\* A stamp stands for every rejected password, and no identity has more stamps and
\* checks under way than the limit.
WithinLimit ==
  \A i \in Identities : guessed[i] = recent[i] /\ recent[i] + reserved[i] <= Limit

\* What the limiter remembers is finite, and bounded.
Remembered == {i \in Identities : recent[i] > 0 \/ reserved[i] > 0 \/ i \in aged}
Memory == IsFiniteSet(Remembered) /\ Cardinality(Remembered) <= MaxTracked

\* At most one handler writes the aggregate record, which began a new count.
OneWriter ==
  /\ \A w \in Workers : req[w].at = "loginAudit" => loginAudit.writing
  /\ \A w, v \in Workers :
       req[w].at = "loginAudit" /\ req[v].at = "loginAudit" => w = v
  /\ loginAudit.writing => loginAudit.suppressed = 0
  /\ refused <= begun

LimiterInv == TypeOK /\ WithinLimit /\ SlotsAreHeld /\ Memory
AuditInv == OneWriter /\ RefusalsCounted /\ SilenceHasARecord
CredInv == LimiterInv /\ AuditInv /\ Handling

-----------------------------------------------------------------------------
(* Shapes of the steps *)

LEMMA CheckingCounted ==
  ASSUME NEW i
  PROVE  /\ IsFiniteSet(Checking(i)) /\ Cardinality(Checking(i)) \in Nat
         /\ IsFiniteSet(Checking(i)') /\ Cardinality(Checking(i)') \in Nat
  <1>1. Checking(i) \subseteq Workers /\ Checking(i)' \subseteq Workers
    BY DEF Checking
  <1>2. QED
    BY <1>1, NumberAssumption, FS_Subset, FS_CardinalityType

\* The reservations of the handlers that do not take or give one back.
LEMMA SameChecking ==
  ASSUME SlotsAreHeld, UNCHANGED reserved,
         \A w \in Workers : /\ req'[w].held = req[w].held
                            /\ req[w].held => req'[w].id = req[w].id
  PROVE  SlotsAreHeld'
  <1>1. ASSUME NEW i \in Identities
        PROVE  Checking(i)' = Checking(i)
    BY DEF Checking
  <1>2. QED
    BY <1>1 DEF SlotsAreHeld

\* A reservation is taken.
LEMMA OneMoreChecking ==
  ASSUME TypeOK, SlotsAreHeld, NEW w \in Workers, NEW i \in Identities, ~req[w].held,
         req'[w].held, req'[w].id = i, \A v \in Workers \ {w} : req'[v] = req[v],
         reserved' = [reserved EXCEPT ![i] = @ + 1]
  PROVE  SlotsAreHeld'
  <1>1. Checking(i)' = Checking(i) \cup {w} /\ w \notin Checking(i)
    BY DEF Checking
  <1>2. Cardinality(Checking(i)') = Cardinality(Checking(i)) + 1
    <2>1. IsFiniteSet(Checking(i))
      BY CheckingCounted
    <2>2. Cardinality(Checking(i) \cup {w}) = Cardinality(Checking(i)) + 1
      BY <1>1, <2>1, FS_AddElement
    <2>3. QED
      BY <1>1, <2>2
  <1>3. \A j \in Identities \ {i} : Checking(j)' = Checking(j)
    BY DEF Checking
  <1>4. ASSUME NEW j \in Identities
        PROVE  reserved'[j] = Cardinality(Checking(j)')
    <2>1. CASE j = i
      BY <1>2, <2>1 DEF SlotsAreHeld, TypeOK
    <2>2. CASE j # i
      BY <1>3, <2>2 DEF SlotsAreHeld, TypeOK
    <2>3. QED
      BY <2>1, <2>2
  <1>5. QED
    BY <1>4 DEF SlotsAreHeld

\* A reservation is given back.
LEMMA OneCheckLess ==
  ASSUME TypeOK, SlotsAreHeld, NEW w \in Workers, NEW i \in Identities, req[w].held,
         req[w].id = i, ~req'[w].held, \A v \in Workers \ {w} : req'[v] = req[v],
         reserved' = [reserved EXCEPT ![i] = @ - 1]
  PROVE  SlotsAreHeld' /\ reserved[i] > 0
  <1>1. Checking(i)' = Checking(i) \ {w} /\ w \in Checking(i)
    BY DEF Checking
  <1>2. Cardinality(Checking(i)') = Cardinality(Checking(i)) - 1
    <2>1. IsFiniteSet(Checking(i))
      BY CheckingCounted
    <2>2. Cardinality(Checking(i) \ {w}) = Cardinality(Checking(i)) - 1
      BY <1>1, <2>1, FS_RemoveElement
    <2>3. QED
      BY <1>1, <2>2
  <1>3. \A j \in Identities \ {i} : Checking(j)' = Checking(j)
    BY DEF Checking
  <1>4. ASSUME NEW j \in Identities
        PROVE  reserved'[j] = Cardinality(Checking(j)')
    <2>1. CASE j = i
      BY <1>2, <2>1 DEF SlotsAreHeld, TypeOK
    <2>2. CASE j # i
      BY <1>3, <2>2 DEF SlotsAreHeld, TypeOK
    <2>3. QED
      BY <2>1, <2>2
  <1>5. reserved[i] = Cardinality(Checking(i)) /\ Cardinality(Checking(i)) # 0
    BY <1>1, CheckingCounted, FS_EmptySet DEF SlotsAreHeld
  <1>6. QED
    BY <1>4, <1>5, CheckingCounted DEF SlotsAreHeld

\* What the limiter remembers stays within its bound when nothing new is remembered.
LEMMA NothingNew ==
  ASSUME Memory, Remembered' \subseteq Remembered
  PROVE  Memory'
  <1>1. /\ IsFiniteSet(Remembered) /\ Cardinality(Remembered) <= MaxTracked
        /\ IsFiniteSet(Remembered') /\ Cardinality(Remembered') <= Cardinality(Remembered)
        /\ Cardinality(Remembered) \in Nat /\ Cardinality(Remembered') \in Nat
    BY FS_Subset, FS_CardinalityType DEF Memory
  <1>2. QED
    BY <1>1, NumberAssumption DEF Memory

\* A handler moves on: its request is the one the step gives it, the others' stay.
LEMMA OneGoes ==
  ASSUME TypeOK, NEW w \in Workers, NEW r, Goes(w, r)
  PROVE  req'[w] = r /\ \A v \in Workers \ {w} : req'[v] = req[v]
  <1>1. QED
    BY DEF Goes, TypeOK

LEMMA GoesInOrder ==
  ASSUME TypeOK, Handling, NEW w \in Workers, NEW r, Goes(w, r), UNCHANGED capable,
         InOrder(r, capable)
  PROVE  Handling' /\ req' \in [Workers -> Requests]
  <1>1. req'[w] = r /\ \A v \in Workers \ {w} : req'[v] = req[v]
    BY OneGoes
  <1>2. ASSUME NEW v \in Workers
        PROVE  InOrder(req'[v], capable')
    <2>1. CASE v = w
      BY <1>1, <2>1
    <2>2. CASE v # w
      BY <1>1, <2>2 DEF Handling
    <2>3. QED
      BY <2>1, <2>2
  <1>3. r \in Requests
    BY DEF InOrder
  <1>4. req' \in [Workers -> Requests]
    BY <1>3 DEF Goes, TypeOK
  <1>5. QED
    BY <1>2, <1>4 DEF Handling

\* The limiter when no attempt begins or ends.
LEMMA LimiterUntouched ==
  ASSUME LimiterInv, UNCHANGED limiter,
         \A w \in Workers : /\ req'[w].held = req[w].held
                            /\ req[w].held => req'[w].id = req[w].id
  PROVE  WithinLimit' /\ SlotsAreHeld' /\ Memory'
  <1>1. SlotsAreHeld'
    BY SameChecking DEF LimiterInv, limiter
  <1>2. Remembered' = Remembered
    BY DEF Remembered, limiter
  <1>3. QED
    BY <1>1, <1>2 DEF LimiterInv, limiter, Memory, WithinLimit

\* The audits when no refusal is counted or written down.
LEMMA AuditsUntouched ==
  ASSUME TypeOK, AuditInv, UNCHANGED <<audits, begun>>, NEW w \in Workers, NEW r, Goes(w, r),
         r.at # "loginAudit"
  PROVE  AuditInv'
  <1>1. req'[w] = r /\ \A v \in Workers \ {w} : req'[v] = req[v]
    BY OneGoes
  <1>2. OneWriter'
    BY <1>1 DEF AuditInv, OneWriter, audits
  <1>3. RefusalsCounted' /\ SilenceHasARecord'
    BY DEF AuditInv, RefusalsCounted, SilenceHasARecord, audits
  <1>4. QED
    BY <1>2, <1>3 DEF AuditInv

\* A handler that moves on and leaves the limiter and the audits alone.
LEMMA OnlyGoes ==
  ASSUME CredInv, UNCHANGED <<limiter, audits, capable, begun>>, mishaps' \in 0..MaxMishaps,
         NEW w \in Workers, NEW r, Goes(w, r), InOrder(r, capable), r.at # "loginAudit",
         r.held = req[w].held, r.held => r.id = req[w].id
  PROVE  CredInv'
  <1>1. TypeOK /\ Handling /\ LimiterInv /\ AuditInv
    BY DEF CredInv, LimiterInv
  <1>2. req'[w] = r /\ \A v \in Workers \ {w} : req'[v] = req[v]
    BY <1>1, OneGoes
  <1>3. Handling' /\ req' \in [Workers -> Requests]
    BY <1>1, GoesInOrder
  <1>4. WithinLimit' /\ SlotsAreHeld' /\ Memory'
    BY <1>1, <1>2, LimiterUntouched
  <1>5. AuditInv'
    BY <1>1, AuditsUntouched
  <1>6. TypeOK'
    BY <1>1, <1>3 DEF TypeOK, limiter, audits
  <1>7. QED
    BY <1>3, <1>4, <1>5, <1>6 DEF CredInv, LimiterInv

\* finish: the attempt is over, and has left a stamp, none, or wiped them.
LEMMA FinishOK ==
  ASSUME TypeOK, WithinLimit, SlotsAreHeld, Memory, NEW w \in Workers, req[w].held,
         req[w].id \in Identities, NEW result \in {"failed", "verified", "open"},
         Finish(w, result), ~req'[w].held, \A v \in Workers \ {w} : req'[v] = req[v]
  PROVE  /\ SlotsAreHeld' /\ WithinLimit' /\ Memory'
         /\ recent' \in [Identities -> 0..Limit] /\ aged' \subseteq Identities
         /\ reserved' \in [Identities -> 0..Limit] /\ guessed' \in [Identities -> 0..Limit]
  <1> SUFFICES ASSUME NEW i \in Identities, i = req[w].id
               PROVE  /\ SlotsAreHeld' /\ WithinLimit' /\ Memory'
                      /\ recent' \in [Identities -> 0..Limit] /\ aged' \subseteq Identities
                      /\ reserved' \in [Identities -> 0..Limit]
                      /\ guessed' \in [Identities -> 0..Limit]
    OBVIOUS
  <1>1. reserved' = [reserved EXCEPT ![i] = @ - 1] /\ aged' \subseteq aged
    BY DEF Finish
  <1>2. SlotsAreHeld' /\ reserved[i] > 0
    BY <1>1, OneCheckLess
  <1>3. /\ recent \in [Identities -> 0..Limit] /\ reserved \in [Identities -> 0..Limit]
        /\ guessed \in [Identities -> 0..Limit] /\ Limit \in Nat
        /\ guessed[i] = recent[i] /\ recent[i] + reserved[i] <= Limit
    BY NumberAssumption DEF TypeOK, WithinLimit
  <1>4. \E n \in Nat : /\ recent' = [recent EXCEPT ![i] = n]
                       /\ guessed' = [guessed EXCEPT ![i] = n]
                       /\ n <= recent[i] + 1
    <2>1. CASE result = "failed"
      <3>1. [failed |-> recent[i] + 1, verified |-> 0, open |-> recent[i]][result]
              = recent[i] + 1
        BY <2>1
      <3>2. recent' = [recent EXCEPT ![i] = recent[i] + 1]
        BY <3>1 DEF Finish
      <3>3. guessed' = [guessed EXCEPT ![i] = recent[i] + 1]
        BY <1>3, <2>1 DEF Finish
      <3> recent[i] + 1 \in Nat /\ recent[i] + 1 <= recent[i] + 1
        BY <1>3
      <3> WITNESS recent[i] + 1 \in Nat
      <3>4. QED
        BY <3>2, <3>3
    <2>2. CASE result = "verified"
      <3>1. [failed |-> recent[i] + 1, verified |-> 0, open |-> recent[i]][result] = 0
        BY <2>2
      <3>2. recent' = [recent EXCEPT ![i] = 0]
        BY <3>1 DEF Finish
      <3>3. guessed' = [guessed EXCEPT ![i] = 0]
        BY <2>2 DEF Finish
      <3> 0 \in Nat /\ 0 <= recent[i] + 1
        BY <1>3
      <3> WITNESS 0 \in Nat
      <3>4. QED
        BY <3>2, <3>3
    <2>3. CASE result = "open"
      <3>1. [failed |-> recent[i] + 1, verified |-> 0, open |-> recent[i]][result] = recent[i]
        BY <2>3
      <3>2. recent' = [recent EXCEPT ![i] = recent[i]]
        BY <3>1 DEF Finish
      <3>3. guessed' = [guessed EXCEPT ![i] = recent[i]]
        BY <1>3, <2>3 DEF Finish
      <3> recent[i] \in Nat /\ recent[i] <= recent[i] + 1
        BY <1>3
      <3> WITNESS recent[i] \in Nat
      <3>4. QED
        BY <3>2, <3>3
    <2>4. QED
      BY <2>1, <2>2, <2>3
  <1>5. /\ recent'[i] \in 0..Limit /\ reserved'[i] = reserved[i] - 1 /\ guessed'[i] = recent'[i]
        /\ recent'[i] + reserved'[i] <= Limit
    BY <1>1, <1>2, <1>3, <1>4
  <1>6. \A j \in Identities \ {i} : /\ recent'[j] = recent[j] /\ reserved'[j] = reserved[j]
                                    /\ guessed'[j] = guessed[j]
    BY <1>1, <1>3, <1>4
  <1>7. WithinLimit'
    BY <1>5, <1>6 DEF WithinLimit
  <1>8. /\ recent' \in [Identities -> 0..Limit] /\ reserved' \in [Identities -> 0..Limit]
        /\ guessed' \in [Identities -> 0..Limit]
    BY <1>1, <1>2, <1>3, <1>4, <1>5
  <1>9. Remembered' \subseteq Remembered
    BY <1>1, <1>2, <1>6 DEF Remembered
  <1>10. QED
    BY <1>1, <1>2, <1>7, <1>8, <1>9, NothingNew DEF TypeOK

-----------------------------------------------------------------------------
(* The handlers, step by step *)

LEMMA SpendOK ==
  ASSUME TypeOK, Smooth \/ Mishap
  PROVE  mishaps' \in 0..MaxMishaps
  <1>1. QED
    BY NumberAssumption DEF TypeOK, Smooth, Mishap

\* A request that ends, field by field.
LEMMA EndFields ==
  ASSUME NEW r \in Requests, NEW answer \in Answers
  PROVE  /\ Ends(r, answer) \in Requests
         /\ Ends(r, answer).kind = r.kind /\ Ends(r, answer).id = Nobody
         /\ Ends(r, answer).at = "idle" /\ Ends(r, answer).held = r.held
         /\ Ends(r, answer).stood = FALSE /\ Ends(r, answer).done = r.done
         /\ Ends(r, answer).started = r.started /\ Ends(r, answer).answer = answer
  <1>1. QED
    BY DEF Requests, Ends, Stages, Answers

\* A handler ends without having done anything new to sessions.
LEMMA EndsInOrder ==
  ASSUME Handling, NEW w \in Workers, req[w].at # "idle", req[w].done = "no", ~req[w].held,
         NEW answer \in Answers \ {"revoked", "pending"}
  PROVE  /\ InOrder(Ends(req[w], answer), capable) /\ ~Ends(req[w], answer).held
         /\ Ends(req[w], answer).held = req[w].held
         /\ Ends(req[w], answer).at = "idle"
  <1> DEFINE r == req[w]
             e == Ends(r, answer)
  <1>1. InOrder(r, capable)
    BY DEF Handling
  <1>2. r \in Requests
    BY <1>1 DEF InOrder
  <1>3. /\ e \in Requests /\ e.at = "idle" /\ e.held = r.held /\ e.done = r.done
        /\ e.answer = answer
    BY <1>2, EndFields
  <1> HIDE DEF e, r
  <1>4. ~r.held /\ r.done = "no" /\ answer \notin {"revoked", "pending"}
    BY DEF r
  <1>5. InOrder(e, capable)
    BY <1>3, <1>4 DEF InOrder
  <1>6. QED
    BY <1>3, <1>4, <1>5 DEF e, r

LEMMA RotateOK ==
  ASSUME CredInv, NEW w \in Workers, Rotate(w)
  PROVE  CredInv'
  <1>1. InOrder(req[w], capable) /\ req[w].at = "rotate" /\ Handling /\ TypeOK
    BY DEF CredInv, LimiterInv, Handling, Rotate
  <1>2. req[w].done = "no" /\ ~req[w].held
    BY <1>1 DEF InOrder
  <1>3. PICK answer \in {"rotated", "denied", "unavailable"} : Goes(w, Ends(req[w], answer))
    BY DEF Rotate
  <1>4. /\ InOrder(Ends(req[w], answer), capable) /\ ~Ends(req[w], answer).held
        /\ Ends(req[w], answer).held = req[w].held
        /\ Ends(req[w], answer).at = "idle"
    BY <1>1, <1>2, EndsInOrder DEF Answers
  <1>5. mishaps' \in 0..MaxMishaps
    BY <1>1, SpendOK DEF Rotate
  <1>6. QED
    BY <1>3, <1>4, <1>5, OnlyGoes DEF Rotate

LEMMA RecheckOK ==
  ASSUME CredInv, NEW w \in Workers, Recheck(w)
  PROVE  CredInv'
  <1>1. InOrder(req[w], capable) /\ req[w].at = "recheck" /\ Handling /\ TypeOK
    BY DEF CredInv, LimiterInv, Handling, Recheck
  <1>2. /\ req[w].done = "no" /\ ~req[w].held /\ req[w].answer = "none"
        /\ req[w].id \in Identities
    BY <1>1 DEF InOrder
  <1>3. mishaps' \in 0..MaxMishaps
    BY <1>1, SpendOK DEF Recheck
  <1>4. CASE Goes(w, Ends(req[w], "notRevoked"))
    <2>1. /\ InOrder(Ends(req[w], "notRevoked"), capable) /\ ~Ends(req[w], "notRevoked").held
          /\ Ends(req[w], "notRevoked").held = req[w].held
          /\ Ends(req[w], "notRevoked").at = "idle"
      BY <1>1, <1>2, EndsInOrder DEF Answers
    <2>2. QED
      BY <1>3, <1>4, <2>1, OnlyGoes DEF Recheck
  <1>5. ASSUME NEW at \in {"start", "revoke"}, StillManages(w),
               at = IF req[w].kind = "revokeAccount" THEN "start" ELSE "revoke",
               Goes(w, [req[w] EXCEPT !.at = at])
        PROVE  CredInv'
    <2> DEFINE r == [req[w] EXCEPT !.at = at]
    <2>1. r = [kind |-> req[w].kind, id |-> req[w].id, at |-> at, held |-> req[w].held,
               stood |-> req[w].stood, done |-> "no", started |-> req[w].started,
               answer |-> "none"]
      BY <1>1, <1>2 DEF InOrder, Requests
    <2>2. capable => req[w].stood
      BY <1>1 DEF InOrder
    <2>3. capable \/ req[w].kind = "revokeOthers"
      BY <1>5 DEF StillManages
    <2>4. r \in Requests
      BY <1>1 DEF InOrder, Requests, Stages
    <2>5. InOrder(r, capable)
      BY <1>2, <1>5, <2>1, <2>2, <2>3, <2>4 DEF InOrder
    <2>6. r.at # "loginAudit" /\ r.held = req[w].held /\ r.id = req[w].id
      BY <2>1
    <2>7. QED
      BY <1>3, <1>5, <2>5, <2>6, OnlyGoes DEF Recheck
  <1>6. QED
    BY <1>4, <1>5 DEF Recheck

LEMMA StartRecordOK ==
  ASSUME CredInv, NEW w \in Workers, StartRecord(w)
  PROVE  CredInv'
  <1>1. InOrder(req[w], capable) /\ req[w].at = "start" /\ Handling /\ TypeOK
    BY DEF CredInv, LimiterInv, Handling, StartRecord
  <1>2. /\ req[w].done = "no" /\ ~req[w].held /\ req[w].answer = "none"
        /\ req[w].id \in Identities
    BY <1>1 DEF InOrder
  <1>3. mishaps' \in 0..MaxMishaps
    BY <1>1, SpendOK DEF StartRecord
  <1>4. CASE Goes(w, Unstarted(req[w]))
    <2>1. /\ InOrder(Ends(req[w], "notRevoked"), capable) /\ ~Ends(req[w], "notRevoked").held
          /\ Ends(req[w], "notRevoked").held = req[w].held
          /\ Ends(req[w], "notRevoked").at = "idle"
      BY <1>1, <1>2, EndsInOrder DEF Answers
    <2>2. QED
      BY <1>3, <1>4, <2>1, OnlyGoes DEF StartRecord, Unstarted
  <1>5. CASE Goes(w, [req[w] EXCEPT !.at = "revoke", !.started = TRUE])
    <2> DEFINE r == [req[w] EXCEPT !.at = "revoke", !.started = TRUE]
    <2>1. /\ r.kind = req[w].kind /\ r.id = req[w].id /\ r.at = "revoke" /\ r.held = req[w].held
          /\ r.stood = req[w].stood /\ r.done = "no" /\ r.started = TRUE /\ r.answer = "none"
      BY <1>1, <1>2 DEF InOrder, Requests
    <2>2. req[w].kind # "revokeOthers" => req[w].stood
      BY <1>1 DEF InOrder
    <2>3. r \in Requests
      BY <1>1 DEF InOrder, Requests, Stages
    <2>4. InOrder(r, capable)
      BY <1>2, <2>1, <2>2, <2>3 DEF InOrder
    <2>5. r.at # "loginAudit" /\ r.held = req[w].held /\ r.id = req[w].id
      BY <2>1
    <2>6. QED
      BY <1>3, <1>5, <2>4, <2>5, OnlyGoes DEF StartRecord
  <1>6. QED
    BY <1>4, <1>5 DEF StartRecord

LEMMA RevokeOK ==
  ASSUME CredInv, NEW w \in Workers, Revoke(w)
  PROVE  CredInv'
  <1>1. InOrder(req[w], capable) /\ req[w].at = "revoke" /\ Handling /\ TypeOK
    BY DEF CredInv, LimiterInv, Handling, Revoke
  <1>2. /\ req[w].done = "no" /\ ~req[w].held /\ req[w].answer = "none"
        /\ req[w].id \in Identities
        /\ req[w].kind = "revokeAccount" => req[w].started
    BY <1>1 DEF InOrder
  <1>3. mishaps' \in 0..MaxMishaps
    BY <1>1, SpendOK DEF Revoke
  <1>4. CASE Goes(w, Ends(req[w], "notRevoked"))
    <2>1. /\ InOrder(Ends(req[w], "notRevoked"), capable) /\ ~Ends(req[w], "notRevoked").held
          /\ Ends(req[w], "notRevoked").held = req[w].held
          /\ Ends(req[w], "notRevoked").at = "idle"
      BY <1>1, <1>2, EndsInOrder DEF Answers
    <2>2. QED
      BY <1>3, <1>4, <2>1, OnlyGoes DEF Revoke
  <1>5. CASE Goes(w, [req[w] EXCEPT !.done = "yes", !.at = "close"])
    <2> DEFINE r == [req[w] EXCEPT !.done = "yes", !.at = "close"]
    <2>1. /\ r.kind = req[w].kind /\ r.id = req[w].id /\ r.at = "close" /\ r.held = req[w].held
          /\ r.stood = req[w].stood /\ r.done = "yes" /\ r.started = req[w].started
          /\ r.answer = "none"
      BY <1>1, <1>2 DEF InOrder, Requests
    <2>2. r \in Requests
      BY <1>1 DEF InOrder, Requests, Stages
    <2>3. InOrder(r, capable)
      BY <1>2, <2>1, <2>2 DEF InOrder
    <2>4. r.at # "loginAudit" /\ r.held = req[w].held /\ r.id = req[w].id
      BY <2>1
    <2>5. QED
      BY <1>3, <1>5, <2>3, <2>4, OnlyGoes DEF Revoke
  <1>6. CASE req[w].kind = "revokeAccount" /\ Goes(w, Postponed(req[w]))
    <2> DEFINE r == Postponed(req[w])
    <2>1. /\ r.kind = req[w].kind /\ r.id = Nobody /\ r.at = "idle" /\ r.held = req[w].held
          /\ r.stood = FALSE /\ r.done = "later" /\ r.started = req[w].started
          /\ r.answer = "pending"
      BY <1>1 DEF InOrder, Requests, Postponed, Ends
    <2>2. r \in Requests
      BY <1>1 DEF InOrder, Requests, Stages, Answers, Postponed, Ends
    <2>3. InOrder(r, capable)
      BY <1>2, <1>6, <2>1, <2>2 DEF InOrder
    <2>4. r.at # "loginAudit" /\ r.held = req[w].held /\ ~r.held
      BY <1>2, <2>1
    <2>5. QED
      BY <1>3, <1>6, <2>3, <2>4, OnlyGoes DEF Revoke
  <1>7. QED
    BY <1>4, <1>5, <1>6 DEF Revoke

LEMMA CloseOK ==
  ASSUME CredInv, NEW w \in Workers, Close(w)
  PROVE  CredInv'
  <1>1. InOrder(req[w], capable) /\ req[w].at = "close" /\ TypeOK
    BY DEF CredInv, LimiterInv, Handling, Close
  <1>2. /\ req[w].done = "yes" /\ ~req[w].held /\ req[w].answer = "none"
        /\ req[w].kind = "revokeAccount" => req[w].started
    BY <1>1 DEF InOrder
  <1>3. mishaps' \in 0..MaxMishaps
    BY <1>1, SpendOK DEF Close
  <1>4. PICK answer \in {"revoked", "error"} : Goes(w, Ends(req[w], answer))
    BY DEF Close
  <1>5. req[w] \in Requests /\ answer \in Answers
    BY <1>1 DEF InOrder, Answers
  <1>6. InOrder(Ends(req[w], answer), capable)
    BY <1>1, <1>2, <1>5, EndFields DEF InOrder
  <1>7. Ends(req[w], answer).at = "idle" /\ Ends(req[w], answer).held = req[w].held
    BY <1>5, EndFields
  <1>8. Ends(req[w], answer).at # "loginAudit" /\ ~Ends(req[w], answer).held
    BY <1>2, <1>7
  <1>9. QED
    BY <1>3, <1>4, <1>6, <1>7, <1>8, OnlyGoes DEF Close

-----------------------------------------------------------------------------
(* The handlers that hold a reservation *)

\* A handler that gives its reservation back.
LEMMA FinishGoes ==
  ASSUME CredInv, UNCHANGED <<audits, capable, begun>>, mishaps' \in 0..MaxMishaps,
         NEW w \in Workers, NEW r, Goes(w, r), InOrder(r, capable), r.at # "loginAudit",
         req[w].held, ~r.held,
         NEW result \in {"failed", "verified", "open"}, Finish(w, result)
  PROVE  CredInv'
  <1>1. TypeOK /\ Handling /\ WithinLimit /\ SlotsAreHeld /\ Memory /\ AuditInv
    BY DEF CredInv, LimiterInv
  <1>2. req'[w] = r /\ \A v \in Workers \ {w} : req'[v] = req[v]
    BY <1>1, OneGoes
  <1>3. Handling' /\ req' \in [Workers -> Requests]
    BY <1>1, GoesInOrder
  <1>4. req[w].id \in Identities
    BY <1>1 DEF Handling, InOrder
  <1>5. /\ SlotsAreHeld' /\ WithinLimit' /\ Memory'
        /\ recent' \in [Identities -> 0..Limit] /\ aged' \subseteq Identities
        /\ reserved' \in [Identities -> 0..Limit] /\ guessed' \in [Identities -> 0..Limit]
    BY <1>1, <1>2, <1>4, FinishOK
  <1>6. AuditInv'
    BY <1>1, AuditsUntouched
  <1>7. TypeOK'
    BY <1>1, <1>3, <1>5 DEF TypeOK, audits
  <1>8. QED
    BY <1>3, <1>5, <1>6, <1>7 DEF CredInv, LimiterInv

\* Such a handler's answer, when it did nothing to sessions.
LEMMA ReleasesInOrder ==
  ASSUME Handling, NEW w \in Workers, req[w].held,
         NEW answer \in Answers \ {"revoked", "pending"},
         NEW r, r = [Ends(req[w], answer) EXCEPT !.held = FALSE]
  PROVE  InOrder(r, capable) /\ ~r.held /\ r.at = "idle"
  <1>1. InOrder(req[w], capable) /\ req[w] \in Requests /\ req[w].done = "no"
    BY DEF Handling, InOrder
  <1> DEFINE e == Ends(req[w], answer)
  <1>2. /\ e \in Requests /\ e.kind = req[w].kind /\ e.at = "idle" /\ e.stood = FALSE
        /\ e.done = "no" /\ e.answer = answer
    BY <1>1, EndFields
  <1> HIDE DEF e
  <1>3. r = [e EXCEPT !.held = FALSE]
    BY DEF e
  <1>4. /\ r \in Requests /\ r.kind = e.kind /\ r.at = e.at /\ r.held = FALSE /\ r.done = e.done
        /\ r.answer = e.answer
    BY <1>2, <1>3 DEF Requests
  <1>5. QED
    BY <1>2, <1>4 DEF InOrder

LEMMA UnverifiedOK ==
  ASSUME CredInv, NEW w \in Workers, Unverified(w)
  PROVE  CredInv'
  <1>1. TypeOK /\ Handling /\ req[w].held
    BY DEF CredInv, LimiterInv, Handling, InOrder, Unverified
  <1>2. mishaps' \in 0..MaxMishaps
    BY <1>1, SpendOK DEF Unverified
  <1>3. PICK answer \in {"rejected", "denied", "unavailable", "error"},
             result \in {"failed", "open"} :
           Goes(w, [Ends(req[w], answer) EXCEPT !.held = FALSE]) /\ Finish(w, result)
    BY DEF Unverified
  <1> DEFINE r == [Ends(req[w], answer) EXCEPT !.held = FALSE]
  <1>4. answer \in Answers \ {"revoked", "pending"}
    BY DEF Answers
  <1>5. InOrder(r, capable) /\ ~r.held /\ r.at = "idle"
    BY <1>1, <1>4, ReleasesInOrder
  <1> HIDE DEF r
  <1>6. Goes(w, r)
    BY <1>3 DEF r
  <1>7. QED
    BY <1>1, <1>2, <1>3, <1>5, <1>6, FinishGoes DEF Unverified

LEMMA CommitLoginOK ==
  ASSUME CredInv, NEW w \in Workers, CommitLogin(w)
  PROVE  CredInv'
  <1>1. TypeOK /\ Handling /\ req[w].held
    BY DEF CredInv, LimiterInv, Handling, InOrder, CommitLogin
  <1>2. mishaps' \in 0..MaxMishaps
    BY <1>1, SpendOK DEF CommitLogin
  <1>3. PICK answer \in {"signedIn", "denied", "limited", "unavailable"},
             result \in {"verified", "open"} :
           Goes(w, [Ends(req[w], answer) EXCEPT !.held = FALSE]) /\ Finish(w, result)
    BY DEF CommitLogin
  <1> DEFINE r == [Ends(req[w], answer) EXCEPT !.held = FALSE]
  <1>4. answer \in Answers \ {"revoked", "pending"}
    BY DEF Answers
  <1>5. InOrder(r, capable) /\ ~r.held /\ r.at = "idle"
    BY <1>1, <1>4, ReleasesInOrder
  <1> HIDE DEF r
  <1>6. Goes(w, r)
    BY <1>3 DEF r
  <1>7. QED
    BY <1>1, <1>2, <1>3, <1>5, <1>6, FinishGoes DEF CommitLogin

LEMMA VerifiedOK ==
  ASSUME CredInv, NEW w \in Workers, Verified(w)
  PROVE  CredInv'
  <1>1. /\ TypeOK /\ Handling /\ InOrder(req[w], capable) /\ req[w].at = "verify"
        /\ capable \in BOOLEAN
    BY DEF CredInv, LimiterInv, Handling, Verified, TypeOK
  <1>2. /\ req[w] \in Requests /\ req[w].held /\ req[w].done = "no" /\ req[w].answer = "none"
        /\ req[w].id \in Identities
    BY <1>1 DEF InOrder
  <1>3. mishaps' \in 0..MaxMishaps
    BY <1>1, SpendOK DEF Verified
  <1>4. CASE req[w].kind = "login"
    <2> DEFINE r == [req[w] EXCEPT !.at = "commit"]
    <2>1. /\ r \in Requests /\ r.kind = req[w].kind /\ r.id = req[w].id /\ r.at = "commit"
          /\ r.held = req[w].held /\ r.done = "no" /\ r.answer = "none"
      BY <1>2 DEF Requests, Stages
    <2> HIDE DEF r
    <2>2. InOrder(r, capable)
      BY <1>2, <1>4, <2>1 DEF InOrder
    <2>3. Goes(w, r)
      BY <1>4 DEF Verified, r
    <2>4. QED
      BY <1>3, <1>4, <2>1, <2>2, <2>3, OnlyGoes DEF Verified
  <1>5. CASE req[w].kind # "login"
    <2> DEFINE r == [req[w] EXCEPT !.held = FALSE, !.stood = capable]
    <2>1. /\ r \in Requests /\ r.kind = req[w].kind /\ r.id = req[w].id /\ r.at = "verify"
          /\ r.held = FALSE /\ r.stood = capable /\ r.done = "no" /\ r.answer = "none"
      BY <1>1, <1>2 DEF Requests
    <2>2. \/ Goes(w, [r EXCEPT !.at = "rotate"]) \/ Goes(w, [r EXCEPT !.at = "recheck"])
          \/ Goes(w, Ends(r, "error"))
      BY <1>5 DEF Verified
    <2> HIDE DEF r
    <2>3. Finish(w, "verified") /\ UNCHANGED <<audits, capable, begun>>
      BY <1>5 DEF Verified
    <2>4. ASSUME NEW at \in {"rotate", "recheck"}, Goes(w, [r EXCEPT !.at = at])
          PROVE  CredInv'
      <3> DEFINE n == [r EXCEPT !.at = at]
      <3>1. /\ n \in Requests /\ n.kind = r.kind /\ n.id = r.id /\ n.at = at
            /\ n.held = FALSE /\ n.stood = capable /\ n.done = "no" /\ n.answer = "none"
        BY <2>1 DEF Requests, Stages
      <3> HIDE DEF n
      <3>2. InOrder(n, capable)
        BY <1>2, <2>1, <3>1 DEF InOrder
      <3>3. Goes(w, n)
        BY <2>4 DEF n
      <3>4. QED
        BY <1>2, <1>3, <2>3, <3>1, <3>2, <3>3, FinishGoes
    <2>5. CASE Goes(w, Ends(r, "error"))
      <3> DEFINE n == Ends(r, "error")
      <3>1. /\ n \in Requests /\ n.kind = r.kind /\ n.at = "idle"
            /\ n.held = FALSE /\ n.done = "no" /\ n.answer = "error"
        <4>1. "error" \in Answers
          BY DEF Answers
        <4>2. QED
          BY <2>1, <4>1, EndFields
      <3> HIDE DEF n
      <3>2. InOrder(n, capable)
        BY <3>1 DEF InOrder
      <3>3. Goes(w, n)
        BY <2>5 DEF n
      <3>4. QED
        BY <1>2, <1>3, <2>3, <3>1, <3>2, <3>3, FinishGoes
    <2>6. QED
      BY <2>2, <2>4, <2>5
  <1>6. QED
    BY <1>4, <1>5

-----------------------------------------------------------------------------
(* The audits of refusals *)

LEMMA WriteLoginAuditOK ==
  ASSUME CredInv, NEW w \in Workers, WriteLoginAudit(w)
  PROVE  CredInv'
  <1>1. /\ TypeOK /\ Handling /\ LimiterInv /\ AuditInv /\ req[w].at = "loginAudit"
        /\ req[w] \in Requests /\ req[w].done = "no" /\ ~req[w].held
    BY DEF CredInv, LimiterInv, Handling, InOrder, WriteLoginAudit
  <1>2. mishaps' \in 0..MaxMishaps
    BY <1>1, SpendOK DEF WriteLoginAudit
  <1>3. PICK answer \in {"limited", "unavailable"} : Goes(w, Ends(req[w], answer))
    BY DEF WriteLoginAudit
  <1> DEFINE r == Ends(req[w], answer)
  <1>4. InOrder(r, capable) /\ ~r.held /\ r.held = req[w].held /\ r.at = "idle"
    <2>1. answer \in Answers \ {"revoked", "pending"}
      BY DEF Answers
    <2>2. QED
      BY <1>1, <2>1, EndsInOrder
  <1> HIDE DEF r
  <1>5. Goes(w, r)
    BY <1>3 DEF r
  <1>6. req'[w] = r /\ \A v \in Workers \ {w} : req'[v] = req[v]
    BY <1>1, <1>5, OneGoes
  <1>7. Handling' /\ req' \in [Workers -> Requests]
    BY <1>1, <1>4, <1>5, GoesInOrder DEF WriteLoginAudit
  <1>8. WithinLimit' /\ SlotsAreHeld' /\ Memory'
    BY <1>1, <1>4, <1>6, LimiterUntouched DEF WriteLoginAudit
  <1>9. /\ loginAudit.writing /\ loginAudit.suppressed = 0 /\ refused <= begun
        /\ loginAudit.taken \in 0..MaxRequests /\ loginAudit.during \in 0..MaxRequests
        /\ loginAudit.near \in BOOLEAN /\ begun \in 0..MaxRequests
        /\ onRecord \in 0..MaxRequests /\ refused \in 0..MaxRequests
        /\ refused = onRecord + loginAudit.taken + loginAudit.during + 1
    BY <1>1 DEF AuditInv, OneWriter, TypeOK, RefusalsCounted
  <1>10. ASSUME NEW ok \in BOOLEAN
         PROVE  /\ Recorded(ok) \in [near : BOOLEAN, writing : BOOLEAN,
                                     suppressed : 0..MaxRequests, taken : 0..MaxRequests,
                                     during : 0..MaxRequests]
                /\ Recorded(ok).writing = FALSE /\ Recorded(ok).taken = 0
                /\ Recorded(ok).during = 0
                /\ ok => Recorded(ok).suppressed = loginAudit.during
                /\ ~ok => Recorded(ok).suppressed = loginAudit.taken + loginAudit.during + 1
    <2>1. loginAudit \in [near : BOOLEAN, writing : BOOLEAN, suppressed : 0..MaxRequests,
                          taken : 0..MaxRequests, during : 0..MaxRequests]
      BY <1>1 DEF TypeOK
    <2>2. loginAudit.taken + loginAudit.during + 1 \in 0..MaxRequests
      BY <1>9, NumberAssumption
    <2>3. PICK n \in 0..MaxRequests :
             n = IF ok THEN loginAudit.during ELSE loginAudit.taken + loginAudit.during + 1
      BY <1>9, <2>2
    <2>4. Recorded(ok) = [loginAudit EXCEPT !.writing = FALSE, !.taken = 0, !.during = 0,
                                            !.suppressed = n]
      BY <2>3 DEF Recorded
    <2>5. 0 \in 0..MaxRequests
      BY NumberAssumption
    <2>6. /\ Recorded(ok) \in [near : BOOLEAN, writing : BOOLEAN,
                               suppressed : 0..MaxRequests, taken : 0..MaxRequests,
                               during : 0..MaxRequests]
          /\ Recorded(ok).writing = FALSE /\ Recorded(ok).taken = 0
          /\ Recorded(ok).during = 0 /\ Recorded(ok).suppressed = n
      BY <2>1, <2>4, <2>5
    <2>7. QED
      BY <2>3, <2>6
  <1>11. /\ loginAudit' \in [near : BOOLEAN, writing : BOOLEAN, suppressed : 0..MaxRequests,
                             taken : 0..MaxRequests, during : 0..MaxRequests]
         /\ loginAudit'.writing = FALSE /\ loginAudit'.taken = 0 /\ loginAudit'.during = 0
         /\ onRecord' \in 0..MaxRequests
         /\ refused = onRecord' + loginAudit'.suppressed
    <2>1. CASE loginAudit' = Recorded(TRUE) /\ onRecord' = onRecord + loginAudit.taken + 1
      <3>1. Recorded(TRUE).suppressed = loginAudit.during
        BY <1>10
      <3>2. loginAudit'.suppressed = loginAudit.during
        BY <2>1, <3>1
      <3>3. onRecord' \in 0..MaxRequests /\ refused = onRecord' + loginAudit'.suppressed
        <4>1. onRecord' = onRecord + loginAudit.taken + 1 /\ MaxRequests \in Nat
          BY <2>1, NumberAssumption
        <4>2. /\ loginAudit.taken \in 0..MaxRequests /\ loginAudit.during \in 0..MaxRequests
              /\ onRecord \in 0..MaxRequests /\ refused \in 0..MaxRequests
              /\ refused = onRecord + loginAudit.taken + loginAudit.during + 1
          BY <1>9
        <4>3. QED
          BY <3>2, <4>1, <4>2
      <3>4. QED
        BY <1>10, <2>1, <3>3
    <2>2. CASE loginAudit' = Recorded(FALSE) /\ onRecord' = onRecord
      <3>1. Recorded(FALSE).suppressed = loginAudit.taken + loginAudit.during + 1
        BY <1>10
      <3>2. loginAudit'.suppressed = loginAudit.taken + loginAudit.during + 1
        BY <2>2, <3>1
      <3>3. onRecord' \in 0..MaxRequests /\ refused = onRecord' + loginAudit'.suppressed
        <4>1. onRecord' = onRecord /\ MaxRequests \in Nat
          BY <2>2, NumberAssumption
        <4>2. /\ loginAudit.taken \in 0..MaxRequests /\ loginAudit.during \in 0..MaxRequests
              /\ onRecord \in 0..MaxRequests /\ refused \in 0..MaxRequests
              /\ refused = onRecord + loginAudit.taken + loginAudit.during + 1
          BY <1>9
        <4>3. QED
          BY <3>2, <4>1, <4>2
      <3>4. QED
        BY <1>10, <2>2, <3>3
    <2>3. QED
      BY <2>1, <2>2 DEF WriteLoginAudit
  <1>12. OneWriter'
    <2>1. \A v \in Workers \ {w} : req[v].at # "loginAudit"
      BY <1>1 DEF AuditInv, OneWriter
    <2>2. \A v \in Workers : req'[v].at # "loginAudit"
      BY <1>4, <1>6, <2>1
    <2>3. QED
      BY <1>9, <1>11, <2>2 DEF OneWriter, WriteLoginAudit
  <1>13. RefusalsCounted' /\ SilenceHasARecord'
    BY <1>1, <1>9, <1>11 DEF RefusalsCounted, SilenceHasARecord, AuditInv, WriteLoginAudit, TypeOK
  <1>14. TypeOK'
    BY <1>1, <1>2, <1>7, <1>11 DEF TypeOK, WriteLoginAudit, limiter
  <1>15. QED
    BY <1>7, <1>8, <1>12, <1>13, <1>14 DEF CredInv, LimiterInv, AuditInv

LEMMA WriteAdminAuditOK ==
  ASSUME CredInv, NEW w \in Workers, WriteAdminAudit(w)
  PROVE  CredInv'
  <1>1. /\ TypeOK /\ Handling /\ LimiterInv /\ AuditInv /\ req[w].at = "adminAudit"
        /\ req[w] \in Requests /\ req[w].done = "no" /\ ~req[w].held
    BY DEF CredInv, LimiterInv, Handling, InOrder, WriteAdminAudit
  <1>2. mishaps' \in 0..MaxMishaps
    BY <1>1, SpendOK DEF WriteAdminAudit
  <1> DEFINE r == Ends(req[w], "limited")
  <1>3. InOrder(r, capable) /\ ~r.held /\ r.held = req[w].held /\ r.at = "idle"
    <2>1. "limited" \in Answers \ {"revoked", "pending"}
      BY DEF Answers
    <2>2. QED
      BY <1>1, <2>1, EndsInOrder
  <1>4. Goes(w, r)
    BY DEF WriteAdminAudit
  <1> HIDE DEF r
  <1>5. req'[w] = r /\ \A v \in Workers \ {w} : req'[v] = req[v]
    BY <1>1, <1>4, OneGoes
  <1>6. Handling' /\ req' \in [Workers -> Requests]
    BY <1>1, <1>3, <1>4, GoesInOrder DEF WriteAdminAudit
  <1>7. WithinLimit' /\ SlotsAreHeld' /\ Memory'
    BY <1>1, <1>3, <1>5, LimiterUntouched DEF WriteAdminAudit
  <1>8. OneWriter' /\ RefusalsCounted'
    BY <1>1, <1>3, <1>5 DEF AuditInv, OneWriter, RefusalsCounted, WriteAdminAudit
  <1>9. /\ adminAudit' \in [near : BOOLEAN, writing : BOOLEAN] /\ adminRecorded' \in BOOLEAN
        /\ SilenceHasARecord'
    <2>1. CASE adminAudit' = AdminRecorded(TRUE) /\ adminRecorded' = TRUE
      BY <2>1 DEF AdminRecorded, SilenceHasARecord
    <2>2. CASE adminAudit' = AdminRecorded(FALSE) /\ UNCHANGED adminRecorded
      BY <1>1, <2>2 DEF AdminRecorded, SilenceHasARecord, TypeOK
    <2>3. QED
      BY <2>1, <2>2 DEF WriteAdminAudit
  <1>10. TypeOK'
    BY <1>1, <1>2, <1>6, <1>9 DEF TypeOK, WriteAdminAudit, limiter
  <1>11. QED
    BY <1>6, <1>7, <1>8, <1>9, <1>10 DEF CredInv, LimiterInv, AuditInv

-----------------------------------------------------------------------------
(* A request begins *)

\* The history is pruned, and the attempt takes a slot if there is one.
LEMMA SlotTaken ==
  ASSUME LimiterInv, NEW w \in Workers, NEW i \in Identities, MayReserve(i),
         ~req[w].held, req'[w].held, req'[w].id = i,
         \A v \in Workers \ {w} : req'[v] = req[v],
         reserved' = [reserved EXCEPT ![i] = @ + 1], aged' = {},
         UNCHANGED <<recent, guessed>>
  PROVE  WithinLimit' /\ SlotsAreHeld' /\ Memory' /\ reserved' \in [Identities -> 0..Limit]
  <1>1. TypeOK /\ WithinLimit /\ SlotsAreHeld /\ Memory
    BY DEF LimiterInv
  <1>2. SlotsAreHeld'
    BY <1>1, OneMoreChecking
  <1>3. /\ recent \in [Identities -> 0..Limit] /\ reserved \in [Identities -> 0..Limit]
        /\ recent[i] + reserved[i] < Limit /\ Limit \in Nat
    BY <1>1, NumberAssumption DEF TypeOK, MayReserve
  <1>4. /\ reserved'[i] = reserved[i] + 1
        /\ \A j \in Identities \ {i} : reserved'[j] = reserved[j]
    BY <1>3
  <1>5. reserved' \in [Identities -> 0..Limit]
    BY <1>3
  <1>6. WithinLimit'
    BY <1>1, <1>3, <1>4 DEF WithinLimit
  <1>7. Tracked \subseteq Remembered /\ Remembered' \subseteq Tracked \cup {i}
    BY <1>4 DEF Tracked, Remembered
  <1>8. IsFiniteSet(Tracked) /\ Cardinality(Tracked) \in Nat
    BY <1>1, <1>7, FS_Subset, FS_CardinalityType DEF Memory
  <1>9. Memory'
    <2>1. CASE i \in Tracked
      BY <1>1, <1>7, <2>1, NothingNew
    <2>2. CASE i \notin Tracked
      <3>1. Cardinality(Tracked) < MaxTracked
        BY <2>2 DEF MayReserve
      <3>2. /\ IsFiniteSet(Tracked \cup {i})
            /\ Cardinality(Tracked \cup {i}) = Cardinality(Tracked) + 1
        BY <1>8, <2>2, FS_AddElement
      <3>3. /\ IsFiniteSet(Remembered') /\ Cardinality(Remembered') \in Nat
            /\ Cardinality(Remembered') <= Cardinality(Tracked \cup {i})
        BY <1>7, <3>2, FS_Subset, FS_CardinalityType
      <3>4. QED
        BY <1>8, <3>1, <3>2, <3>3, NumberAssumption DEF Memory
    <2>3. QED
      BY <2>1, <2>2
  <1>10. QED
    BY <1>2, <1>5, <1>6, <1>9

\* The attempt is refused: the history is pruned all the same.
LEMMA SlotRefused ==
  ASSUME LimiterInv, aged' = {}, UNCHANGED <<reserved, recent, guessed>>,
         \A w \in Workers : /\ req'[w].held = req[w].held
                            /\ req[w].held => req'[w].id = req[w].id
  PROVE  WithinLimit' /\ SlotsAreHeld' /\ Memory'
  <1>1. SlotsAreHeld'
    BY SameChecking DEF LimiterInv
  <1>2. Remembered' \subseteq Remembered
    BY DEF Remembered
  <1>3. Memory'
    BY <1>2, NothingNew DEF LimiterInv
  <1>4. WithinLimit'
    BY DEF LimiterInv, WithinLimit
  <1>5. QED
    BY <1>1, <1>3, <1>4

\* A refused login is counted, or begins a record of the refusals.
LEMMA RefusalOK ==
  ASSUME TypeOK, OneWriter, RefusalsCounted, refused' = refused + 1, begun' = begun + 1,
         begun < MaxRequests, loginAudit' = Refusal, UNCHANGED onRecord
  PROVE  /\ loginAudit' \in [near : BOOLEAN, writing : BOOLEAN, suppressed : 0..MaxRequests,
                             taken : 0..MaxRequests, during : 0..MaxRequests]
         /\ ~loginAudit'.writing => loginAudit'.taken = 0 /\ loginAudit'.during = 0
         /\ loginAudit'.writing => loginAudit'.suppressed = 0
         /\ loginAudit.writing => loginAudit'.writing
         /\ refused' <= begun' /\ refused' \in 0..MaxRequests /\ RefusalsCounted'
  <1>1. /\ loginAudit \in [near : BOOLEAN, writing : BOOLEAN, suppressed : 0..MaxRequests,
                           taken : 0..MaxRequests, during : 0..MaxRequests]
        /\ onRecord \in 0..MaxRequests /\ refused \in 0..MaxRequests
        /\ begun \in 0..MaxRequests /\ refused <= begun /\ MaxRequests \in Nat
        /\ loginAudit.writing => loginAudit.suppressed = 0
        /\ ~loginAudit.writing => loginAudit.taken = 0 /\ loginAudit.during = 0
    BY NumberAssumption DEF TypeOK, OneWriter
  <1>2. refused' <= begun' /\ refused' \in 0..MaxRequests
    BY <1>1
  <1>3. CASE loginAudit.writing
    <2>1. refused = onRecord + loginAudit.taken + loginAudit.during + 1
      BY <1>1, <1>3 DEF RefusalsCounted
    <2>2. loginAudit.during + 1 \in 0..MaxRequests
      BY <1>1, <1>2, <2>1
    <2>3. loginAudit' = [loginAudit EXCEPT !.during = @ + 1]
      BY <1>3 DEF Refusal
    <2>4. /\ loginAudit' \in [near : BOOLEAN, writing : BOOLEAN, suppressed : 0..MaxRequests,
                              taken : 0..MaxRequests, during : 0..MaxRequests]
          /\ loginAudit'.writing = TRUE /\ loginAudit'.suppressed = 0
          /\ loginAudit'.taken = loginAudit.taken /\ loginAudit'.during = loginAudit.during + 1
      BY <1>1, <1>3, <2>2, <2>3
    <2>5. RefusalsCounted'
      BY <1>1, <2>1, <2>4 DEF RefusalsCounted
    <2>6. QED
      BY <1>2, <2>4, <2>5
  <1>4. CASE loginAudit.near /\ ~loginAudit.writing
    <2>1. refused = onRecord + loginAudit.suppressed
      BY <1>1, <1>4 DEF RefusalsCounted
    <2>2. loginAudit.suppressed + 1 \in 0..MaxRequests
      BY <1>1, <1>2, <2>1
    <2>3. loginAudit' = [loginAudit EXCEPT !.suppressed = @ + 1]
      BY <1>4 DEF Refusal
    <2>4. /\ loginAudit' \in [near : BOOLEAN, writing : BOOLEAN, suppressed : 0..MaxRequests,
                              taken : 0..MaxRequests, during : 0..MaxRequests]
          /\ loginAudit'.writing = FALSE
          /\ loginAudit'.suppressed = loginAudit.suppressed + 1
          /\ loginAudit'.taken = 0 /\ loginAudit'.during = 0
      BY <1>1, <1>4, <2>2, <2>3
    <2>5. RefusalsCounted'
      BY <1>1, <2>1, <2>4 DEF RefusalsCounted
    <2>6. QED
      BY <1>2, <1>4, <2>4, <2>5
  <1>5. CASE ~loginAudit.near /\ ~loginAudit.writing
    <2>1. refused = onRecord + loginAudit.suppressed
      BY <1>1, <1>5 DEF RefusalsCounted
    <2>2. loginAudit' = [near |-> TRUE, writing |-> TRUE, suppressed |-> 0,
                         taken |-> loginAudit.suppressed, during |-> 0]
      BY <1>5 DEF Refusal
    <2>3. RefusalsCounted'
      BY <1>1, <2>1, <2>2 DEF RefusalsCounted
    <2>4. QED
      BY <1>1, <1>2, <1>5, <2>2, <2>3
  <1>6. QED
    BY <1>1, <1>3, <1>4, <1>5

\* A new request, field by field, and in order where Begin leaves it.
NewRequest(kind, i) == [NoRequest EXCEPT !.kind = kind, !.id = i]
LEMMA NewRequestFields ==
  ASSUME NEW kind \in Kinds, NEW i \in Identities
  PROVE  /\ NewRequest(kind, i) \in Requests /\ NewRequest(kind, i).id = i
         /\ NewRequest(kind, i).held = FALSE /\ NewRequest(kind, i).done = "no"
         /\ NewRequest(kind, i).answer = "none"
  <1>1. QED
    BY DEF NewRequest, NoRequest, Requests, Stages, Answers

LEMMA NewInOrder ==
  ASSUME NEW n \in Requests, NEW i \in Identities, n.id = i, n.held = FALSE, n.done = "no",
         n.answer = "none", NEW r,
         \/ r = [n EXCEPT !.at = "verify", !.held = TRUE]
         \/ r = [n EXCEPT !.at = "loginAudit"] \/ r = [n EXCEPT !.at = "adminAudit"]
  PROVE  r \in Requests /\ InOrder(r, capable) /\ r.id = i /\ r.done = "no"
  <1>1. /\ r \in Requests /\ r.id = i /\ r.done = "no" /\ r.answer = "none"
        /\ r.held => r.at = "verify"
        /\ r.at \in {"verify", "loginAudit", "adminAudit"}
        /\ r.at = "verify" => r.held
    BY DEF Requests, Stages
  <1>2. QED
    BY <1>1 DEF InOrder

\* What Begin makes of the request, in each of its outcomes.
LEMMA BeginOutcomes ==
  ASSUME TypeOK, NEW w \in Workers, NEW kind \in Kinds, NEW i \in Identities,
         Begin(w, kind, i)
  PROVE  \E r \in Requests :
           /\ Goes(w, r) /\ InOrder(r, capable) /\ r.done = "no"
           /\ \/ MayReserve(i) /\ r.held /\ r.id = i /\ r.at = "verify"
                 /\ reserved' = [reserved EXCEPT ![i] = @ + 1] /\ UNCHANGED audits
              \/ /\ ~r.held /\ UNCHANGED reserved
                 /\ \/ /\ r.at # "loginAudit" \/ (Refusal.writing /\ ~loginAudit.writing)
                       /\ refused' = refused + 1 /\ loginAudit' = Refusal
                       /\ UNCHANGED <<adminAudit, onRecord, adminRecorded>>
                    \/ /\ r.at # "loginAudit"
                       /\ \/ UNCHANGED adminAudit
                          \/ adminAudit' = [near |-> TRUE, writing |-> TRUE]
                       /\ UNCHANGED <<loginAudit, refused, onRecord, adminRecorded>>
  <1> DEFINE n == NewRequest(kind, i)
             e == Ends(n, "limited")
  <1>1. /\ n \in Requests /\ n.id = i /\ n.held = FALSE /\ n.done = "no" /\ n.answer = "none"
    BY NewRequestFields
  <1>2. /\ e \in Requests /\ InOrder(e, capable) /\ ~e.held /\ e.at = "idle" /\ e.done = "no"
    <2> HIDE DEF n
    <2>1. "limited" \in Answers
      BY DEF Answers
    <2>2. /\ e \in Requests /\ e.at = "idle" /\ e.held = FALSE /\ e.done = "no"
          /\ e.answer = "limited"
      BY <1>1, <2>1, EndFields
    <2> HIDE DEF e
    <2>3. QED
      BY <2>2 DEF InOrder
  <1>3. CASE /\ MayReserve(i) /\ reserved' = [reserved EXCEPT ![i] = @ + 1]
             /\ Goes(w, [n EXCEPT !.at = "verify", !.held = TRUE]) /\ UNCHANGED audits
    <2> HIDE DEF n
    <2> DEFINE r == [n EXCEPT !.at = "verify", !.held = TRUE]
    <2>1. r.held /\ r.at = "verify"
      BY <1>1 DEF Requests
    <2>2. r \in Requests /\ InOrder(r, capable) /\ r.id = i /\ r.done = "no"
      BY <1>1, NewInOrder
    <2> HIDE DEF r
    <2>3. Goes(w, r)
      BY <1>3 DEF r
    <2>4. QED
      BY <1>3, <2>1, <2>2, <2>3
  <1>4. CASE UNCHANGED reserved /\ Goes(w, e)
             /\ \/ /\ refused' = refused + 1 /\ loginAudit' = Refusal
                   /\ UNCHANGED <<adminAudit, onRecord, adminRecorded>>
                \/ UNCHANGED <<loginAudit, adminAudit, refused, onRecord, adminRecorded>>
    <2> HIDE DEF e
    <2>1. QED
      BY <1>2, <1>4
  <1>5. CASE /\ UNCHANGED reserved /\ Goes(w, [n EXCEPT !.at = "loginAudit"])
             /\ Refusal.writing /\ ~loginAudit.writing
             /\ refused' = refused + 1 /\ loginAudit' = Refusal
             /\ UNCHANGED <<adminAudit, onRecord, adminRecorded>>
    <2> HIDE DEF n
    <2> DEFINE r == [n EXCEPT !.at = "loginAudit"]
    <2>1. r.held = FALSE
      BY <1>1 DEF Requests
    <2>2. r \in Requests /\ InOrder(r, capable) /\ r.done = "no"
      BY <1>1, NewInOrder
    <2> HIDE DEF r
    <2>3. Goes(w, r)
      BY <1>5 DEF r
    <2>4. QED
      BY <1>5, <2>1, <2>2, <2>3
  <1>6. CASE /\ UNCHANGED reserved /\ Goes(w, [n EXCEPT !.at = "adminAudit"])
             /\ adminAudit' = [near |-> TRUE, writing |-> TRUE]
             /\ UNCHANGED <<loginAudit, refused, onRecord, adminRecorded>>
    <2> HIDE DEF n
    <2> DEFINE r == [n EXCEPT !.at = "adminAudit"]
    <2>1. r.held = FALSE /\ r.at = "adminAudit"
      BY <1>1 DEF Requests, Stages
    <2>2. r \in Requests /\ InOrder(r, capable) /\ r.done = "no"
      BY <1>1, NewInOrder
    <2> HIDE DEF r
    <2>3. Goes(w, r)
      BY <1>6 DEF r
    <2>4. QED
      BY <1>6, <2>1, <2>2, <2>3
  <1>7. QED
    BY <1>3, <1>4, <1>5, <1>6 DEF Begin, audits, NewRequest

LEMMA BeginOK ==
  ASSUME CredInv, NEW w \in Workers, NEW kind \in Kinds, NEW i \in Identities,
         Begin(w, kind, i)
  PROVE  CredInv'
  <1>1. /\ TypeOK /\ Handling /\ LimiterInv /\ AuditInv /\ req[w].at = "idle" /\ ~req[w].held
        /\ OneWriter /\ RefusalsCounted /\ SilenceHasARecord
    BY DEF CredInv, LimiterInv, AuditInv, Handling, InOrder, Begin
  <1>2. /\ begun' = begun + 1 /\ begun < MaxRequests /\ aged' = {} /\ UNCHANGED mishaps
        /\ UNCHANGED <<recent, capable, guessed>>
    BY DEF Begin, Smooth
  <1>3. begun' \in 0..MaxRequests
    BY <1>1, <1>2, NumberAssumption DEF TypeOK
  <1>4. PICK r \in Requests :
           /\ Goes(w, r) /\ InOrder(r, capable) /\ r.done = "no"
           /\ \/ MayReserve(i) /\ r.held /\ r.id = i /\ r.at = "verify"
                 /\ reserved' = [reserved EXCEPT ![i] = @ + 1] /\ UNCHANGED audits
              \/ /\ ~r.held /\ UNCHANGED reserved
                 /\ \/ /\ r.at # "loginAudit" \/ (Refusal.writing /\ ~loginAudit.writing)
                       /\ refused' = refused + 1 /\ loginAudit' = Refusal
                       /\ UNCHANGED <<adminAudit, onRecord, adminRecorded>>
                    \/ /\ r.at # "loginAudit"
                       /\ \/ UNCHANGED adminAudit
                          \/ adminAudit' = [near |-> TRUE, writing |-> TRUE]
                       /\ UNCHANGED <<loginAudit, refused, onRecord, adminRecorded>>
    BY <1>1, BeginOutcomes
  <1>5. req'[w] = r /\ \A v \in Workers \ {w} : req'[v] = req[v]
    BY <1>1, <1>4, OneGoes
  <1>6. Handling' /\ req' \in [Workers -> Requests]
    BY <1>1, <1>2, <1>4, GoesInOrder
  <1>7. ~r.held /\ UNCHANGED reserved => WithinLimit' /\ SlotsAreHeld' /\ Memory'
    <2> SUFFICES ASSUME ~r.held, UNCHANGED reserved
                 PROVE  WithinLimit' /\ SlotsAreHeld' /\ Memory'
      OBVIOUS
    <2>1. r.held = req[w].held
      BY <1>1, <1>4 DEF Requests, TypeOK
    <2>2. QED
      BY <1>1, <1>2, <1>5, <2>1, SlotRefused
  <1>8. CASE MayReserve(i) /\ r.held /\ r.id = i /\ r.at = "verify"
             /\ reserved' = [reserved EXCEPT ![i] = @ + 1] /\ UNCHANGED audits
    <2>1. WithinLimit' /\ SlotsAreHeld' /\ Memory' /\ reserved' \in [Identities -> 0..Limit]
      BY <1>1, <1>2, <1>5, <1>8, SlotTaken
    <2>2. OneWriter'
      BY <1>1, <1>2, <1>3, <1>5, <1>8 DEF OneWriter, audits, TypeOK
    <2>3. RefusalsCounted' /\ SilenceHasARecord'
      BY <1>1, <1>8 DEF RefusalsCounted, SilenceHasARecord, audits
    <2>4. TypeOK'
      BY <1>1, <1>2, <1>3, <1>6, <1>8, <2>1 DEF TypeOK, audits
    <2>5. QED
      BY <1>6, <2>1, <2>2, <2>3, <2>4 DEF CredInv, LimiterInv, AuditInv
  <1>9. CASE /\ ~r.held /\ UNCHANGED reserved
             /\ r.at # "loginAudit" \/ (Refusal.writing /\ ~loginAudit.writing)
             /\ refused' = refused + 1 /\ loginAudit' = Refusal
             /\ UNCHANGED <<adminAudit, onRecord, adminRecorded>>
    <2>1. /\ loginAudit' \in [near : BOOLEAN, writing : BOOLEAN, suppressed : 0..MaxRequests,
                              taken : 0..MaxRequests, during : 0..MaxRequests]
          /\ ~loginAudit'.writing => loginAudit'.taken = 0 /\ loginAudit'.during = 0
          /\ loginAudit'.writing => loginAudit'.suppressed = 0
          /\ loginAudit.writing => loginAudit'.writing
          /\ refused' <= begun' /\ refused' \in 0..MaxRequests /\ RefusalsCounted'
      BY <1>1, <1>2, <1>9, RefusalOK
    <2>2. OneWriter'
      <3>1. ASSUME NEW v \in Workers, req'[v].at = "loginAudit"
            PROVE  loginAudit'.writing
        BY <1>1, <1>5, <1>9, <2>1, <3>1 DEF OneWriter
      <3>2. ASSUME NEW u \in Workers, NEW v \in Workers, req'[u].at = "loginAudit",
                   req'[v].at = "loginAudit"
            PROVE  u = v
        BY <1>1, <1>5, <1>9, <3>2 DEF OneWriter
      <3>3. QED
        BY <2>1, <3>1, <3>2 DEF OneWriter
    <2>3. SilenceHasARecord'
      BY <1>1, <1>9 DEF SilenceHasARecord
    <2>4. TypeOK'
      BY <1>1, <1>2, <1>3, <1>6, <1>9, <2>1 DEF TypeOK
    <2>5. QED
      BY <1>6, <1>7, <1>9, <2>1, <2>2, <2>3, <2>4 DEF CredInv, LimiterInv, AuditInv
  <1>10. CASE /\ ~r.held /\ UNCHANGED reserved /\ r.at # "loginAudit"
              /\ UNCHANGED adminAudit \/ adminAudit' = [near |-> TRUE, writing |-> TRUE]
              /\ UNCHANGED <<loginAudit, refused, onRecord, adminRecorded>>
    <2>1. OneWriter'
      BY <1>1, <1>2, <1>3, <1>5, <1>10 DEF OneWriter, TypeOK
    <2>2. RefusalsCounted' /\ SilenceHasARecord'
      BY <1>1, <1>10 DEF RefusalsCounted, SilenceHasARecord
    <2>3. TypeOK'
      <3>1. adminAudit' \in [near : BOOLEAN, writing : BOOLEAN]
        <4>1. CASE UNCHANGED adminAudit
          BY <1>1, <4>1 DEF TypeOK
        <4>2. CASE adminAudit' = [near |-> TRUE, writing |-> TRUE]
          BY <4>2
        <4>3. QED
          BY <1>10, <4>1, <4>2
      <3>2. QED
        BY <1>1, <1>2, <1>3, <1>6, <1>10, <3>1 DEF TypeOK
    <2>4. QED
      BY <1>6, <1>7, <1>10, <2>1, <2>2, <2>3 DEF CredInv, LimiterInv, AuditInv
  <1>11. QED
    BY <1>4, <1>8, <1>9, <1>10

-----------------------------------------------------------------------------
(* Time, and RouterOS *)

LEMMA WindowPassesOK ==
  ASSUME CredInv, NEW i \in Identities, WindowPasses(i)
  PROVE  CredInv'
  <1>1. /\ TypeOK /\ WithinLimit /\ SlotsAreHeld /\ Memory /\ AuditInv /\ Handling
    BY DEF CredInv, LimiterInv
  <1>2. /\ recent \in [Identities -> 0..Limit] /\ recent[i] > 0 /\ Limit \in Nat
        /\ guessed \in [Identities -> 0..Limit] /\ guessed[i] = recent[i]
        /\ reserved \in [Identities -> 0..Limit]
    BY <1>1, NumberAssumption DEF TypeOK, WithinLimit, WindowPasses
  <1>3. /\ recent' = [recent EXCEPT ![i] = @ - 1] /\ guessed' = [guessed EXCEPT ![i] = @ - 1]
        /\ aged' = aged \cup {i}
        /\ UNCHANGED <<reserved, audits, capable, req, begun, mishaps>>
    BY DEF WindowPasses
  <1>4. /\ recent' \in [Identities -> 0..Limit] /\ guessed' \in [Identities -> 0..Limit]
        /\ recent'[i] = recent[i] - 1 /\ guessed'[i] = guessed[i] - 1
        /\ \A j \in Identities \ {i} : recent'[j] = recent[j] /\ guessed'[j] = guessed[j]
    BY <1>2, <1>3
  <1>5. WithinLimit'
    BY <1>1, <1>2, <1>3, <1>4 DEF WithinLimit
  <1>6. Remembered' \subseteq Remembered
    BY <1>2, <1>3, <1>4 DEF Remembered
  <1>7. SlotsAreHeld' /\ Memory'
    BY <1>1, <1>3, <1>6, SameChecking, NothingNew
  <1>8. AuditInv' /\ Handling'
    BY <1>1, <1>3
       DEF AuditInv, OneWriter, RefusalsCounted, SilenceHasARecord, audits, Handling
  <1>9. TypeOK'
    BY <1>1, <1>3, <1>4 DEF TypeOK, audits
  <1>10. QED
    BY <1>5, <1>7, <1>8, <1>9 DEF CredInv, LimiterInv

LEMMA IntervalPassesOK ==
  ASSUME CredInv, LoginIntervalPasses \/ AdminIntervalPasses
  PROVE  CredInv'
  <1>1. TypeOK /\ LimiterInv /\ AuditInv /\ Handling
    BY DEF CredInv, LimiterInv
  <1>2. UNCHANGED <<limiter, refused, onRecord, capable, req, begun, mishaps>>
    BY DEF LoginIntervalPasses, AdminIntervalPasses
  <1>3. WithinLimit' /\ SlotsAreHeld' /\ Memory' /\ Handling'
    BY <1>1, <1>2, LimiterUntouched DEF Handling
  <1>4. CASE LoginIntervalPasses
    <2>1. /\ loginAudit' = [loginAudit EXCEPT !.near = FALSE]
          /\ UNCHANGED <<adminAudit, adminRecorded>>
      BY <1>4 DEF LoginIntervalPasses
    <2>2. loginAudit \in [near : BOOLEAN, writing : BOOLEAN, suppressed : 0..MaxRequests,
                          taken : 0..MaxRequests, during : 0..MaxRequests]
      BY <1>1 DEF TypeOK
    <2>3. /\ loginAudit' \in [near : BOOLEAN, writing : BOOLEAN, suppressed : 0..MaxRequests,
                              taken : 0..MaxRequests, during : 0..MaxRequests]
          /\ loginAudit'.writing = loginAudit.writing /\ loginAudit'.taken = loginAudit.taken
          /\ loginAudit'.suppressed = loginAudit.suppressed
          /\ loginAudit'.during = loginAudit.during
      BY <2>1, <2>2
    <2>4. AuditInv'
      BY <1>1, <1>2, <2>1, <2>3 DEF AuditInv, OneWriter, RefusalsCounted, SilenceHasARecord
    <2>5. TypeOK'
      BY <1>1, <1>2, <2>1, <2>3 DEF TypeOK, limiter
    <2>6. QED
      BY <1>3, <2>4, <2>5 DEF CredInv, LimiterInv
  <1>5. CASE AdminIntervalPasses
    <2>1. /\ adminAudit' \in [near : BOOLEAN, writing : BOOLEAN] /\ ~adminAudit'.near
          /\ adminRecorded' = FALSE /\ UNCHANGED loginAudit
      BY <1>1, <1>5 DEF AdminIntervalPasses, TypeOK
    <2>2. AuditInv'
      BY <1>1, <1>2, <2>1 DEF AuditInv, OneWriter, RefusalsCounted, SilenceHasARecord
    <2>3. TypeOK'
      BY <1>1, <1>2, <2>1 DEF TypeOK, limiter
    <2>4. QED
      BY <1>3, <2>2, <2>3 DEF CredInv, LimiterInv
  <1>6. QED
    BY <1>4, <1>5

\* The account's role changes: whoever is past the check of its password has seen
\* the new one too.
LEMMA ChangeRoleOK ==
  ASSUME CredInv, ChangeRole
  PROVE  CredInv'
  <1>1. TypeOK /\ LimiterInv /\ AuditInv /\ Handling
    BY DEF CredInv, LimiterInv
  <1>2. /\ capable' \in BOOLEAN /\ mishaps' \in 0..MaxMishaps
        /\ UNCHANGED <<limiter, audits, begun>>
    BY <1>1, SpendOK DEF ChangeRole
  <1>3. ASSUME NEW w \in Workers
        PROVE  /\ InOrder(req'[w], capable') /\ req'[w].held = req[w].held
               /\ req'[w].id = req[w].id /\ req'[w].at = req[w].at
    <2>1. InOrder(req[w], capable) /\ req[w] \in Requests
      BY <1>1 DEF Handling, InOrder
    <2>2. CASE req[w].at \in {"recheck", "start", "revoke"}
      <3>1. req'[w] = [req[w] EXCEPT !.stood = @ \/ capable']
        BY <2>2 DEF ChangeRole
      <3>2. (req[w].stood \/ capable') \in BOOLEAN
        OBVIOUS
      <3>3. /\ req'[w] \in Requests /\ req'[w].kind = req[w].kind /\ req'[w].id = req[w].id
            /\ req'[w].at = req[w].at /\ req'[w].held = req[w].held
            /\ req'[w].done = req[w].done /\ req'[w].started = req[w].started
            /\ req'[w].answer = req[w].answer
            /\ (req[w].stood => req'[w].stood) /\ (capable' => req'[w].stood)
        BY <2>1, <3>1, <3>2 DEF Requests
      <3>4. QED
        BY <2>1, <2>2, <3>3 DEF InOrder
    <2>3. CASE req[w].at \notin {"recheck", "start", "revoke"}
      <3>1. req'[w] = req[w]
        BY <2>3 DEF ChangeRole
      <3>2. QED
        BY <2>1, <2>3, <3>1 DEF InOrder
    <2>4. QED
      BY <2>2, <2>3
  <1>4. Handling' /\ req' \in [Workers -> Requests]
    <2>1. \A w \in Workers : req'[w] \in Requests
      BY <1>3 DEF InOrder
    <2>2. req' = [w \in Workers |-> req'[w]]
      BY DEF ChangeRole
    <2>3. QED
      BY <1>3, <2>1, <2>2 DEF Handling
  <1>5. WithinLimit' /\ SlotsAreHeld' /\ Memory'
    BY <1>1, <1>2, <1>3, LimiterUntouched
  <1>6. AuditInv'
    BY <1>1, <1>2, <1>3 DEF AuditInv, OneWriter, RefusalsCounted, SilenceHasARecord, audits
  <1>7. TypeOK'
    BY <1>1, <1>2, <1>4 DEF TypeOK, limiter, audits
  <1>8. QED
    BY <1>4, <1>5, <1>6, <1>7 DEF CredInv, LimiterInv

-----------------------------------------------------------------------------
(* The theorems *)

LEMMA InitOK == Init => CredInv
  <1> SUFFICES ASSUME Init PROVE CredInv
    OBVIOUS
  <1>1. NoRequest \in Requests /\ InOrder(NoRequest, TRUE)
    BY DEF NoRequest, Requests, Stages, Answers, InOrder
  <1>2. Handling /\ req \in [Workers -> Requests]
    BY <1>1 DEF Init, Handling
  <1>3. TypeOK
    <2>1. /\ 0 \in 0..Limit /\ 0 \in 0..MaxRequests /\ 0 \in 0..MaxMishaps
      BY NumberAssumption
    <2>2. /\ recent \in [Identities -> 0..Limit] /\ reserved \in [Identities -> 0..Limit]
          /\ guessed \in [Identities -> 0..Limit]
      BY <2>1 DEF Init
    <2>3. /\ loginAudit \in [near : BOOLEAN, writing : BOOLEAN, suppressed : 0..MaxRequests,
                              taken : 0..MaxRequests, during : 0..MaxRequests]
          /\ loginAudit.taken = 0 /\ loginAudit.during = 0
          /\ adminAudit \in [near : BOOLEAN, writing : BOOLEAN]
      BY <2>1 DEF Init
    <2>4. QED
      BY <1>2, <2>1, <2>2, <2>3 DEF Init, TypeOK
  <1>4. WithinLimit
    BY NumberAssumption DEF Init, WithinLimit
  <1>5. SlotsAreHeld
    <2>1. \A i \in Identities : Checking(i) = {}
      BY DEF Init, Checking, NoRequest
    <2>2. QED
      BY <2>1, FS_EmptySet DEF Init, SlotsAreHeld
  <1>6. Memory
    <2>1. Remembered = {}
      BY DEF Init, Remembered
    <2>2. QED
      BY <2>1, FS_EmptySet, NumberAssumption DEF Memory
  <1>7. OneWriter /\ SilenceHasARecord
    BY DEF Init, OneWriter, SilenceHasARecord, NoRequest
  <1>8. RefusalsCounted
    BY DEF Init, RefusalsCounted
  <1>9. QED
    BY <1>2, <1>3, <1>4, <1>5, <1>6, <1>7, <1>8 DEF CredInv, LimiterInv, AuditInv

LEMMA NextOK == CredInv /\ [Next]_vars => CredInv'
  <1> SUFFICES ASSUME CredInv, [Next]_vars
               PROVE  CredInv'
    OBVIOUS
  <1>1. CASE Next
    BY <1>1, BeginOK, WriteLoginAuditOK, WriteAdminAuditOK, UnverifiedOK, VerifiedOK,
       CommitLoginOK, RotateOK, RecheckOK, StartRecordOK, RevokeOK, CloseOK, WindowPassesOK,
       IntervalPassesOK, ChangeRoleOK DEF Next
  <1>2. CASE UNCHANGED vars
    <2>1. \A i \in Identities : Checking(i)' = Checking(i)
      BY <1>2 DEF vars, Checking
    <2>2. SlotsAreHeld' /\ Remembered' = Remembered
      BY <1>2, <2>1 DEF vars, SlotsAreHeld, Remembered, CredInv, LimiterInv
    <2>3. QED
      BY <1>2, <2>2
         DEF vars, CredInv, LimiterInv, AuditInv, Handling, TypeOK, WithinLimit, Memory,
             OneWriter, RefusalsCounted, SilenceHasARecord
  <1>3. QED
    BY <1>1, <1>2

LEMMA InvGuards == CredInv => CredentialsAreGuarded
  <1> SUFFICES ASSUME CredInv PROVE CredentialsAreGuarded
    OBVIOUS
  <1>1. TypeOK /\ WithinLimit /\ SlotsAreHeld /\ Memory /\ AuditInv /\ Handling
    BY DEF CredInv, LimiterInv
  <1>2. GuessesBounded
    BY <1>1 DEF GuessesBounded, WithinLimit, SlotsAreHeld
  <1>3. MemoryBounded
    BY <1>1 DEF MemoryBounded, Memory, Remembered
  <1>4. AnswersAreHonest
    BY <1>1 DEF AnswersAreHonest, Handling, InOrder
  <1>5. QED
    BY <1>1, <1>2, <1>3, <1>4 DEF CredentialsAreGuarded, AuditInv

\* However requests interleave and whatever fails, the limiter and the handlers
\* around it keep their promises: an identity's rejected passwords and checks under
\* way stay within the limit, no reservation leaks, the limiter's memory is bounded,
\* refused logins are counted, and the answers of revocations are true.
THEOREM CredentialsGuarded == Spec => []CredentialsAreGuarded
  <1>1. Spec => []CredInv
    BY InitOK, NextOK, PTL DEF Spec
  <1>2. QED
    BY <1>1, InvGuards, PTL

\* Only the revocation step does anything to sessions.
LEMMA DoneWhenRevoked ==
  ASSUME CredInv, Next, NEW w \in Workers, req[w].done = "no", req'[w].done # "no"
  PROVE  req[w].at = "revoke"
  <1>1. TypeOK /\ req[w] \in Requests /\ InOrder(req[w], capable)
    BY DEF CredInv, LimiterInv, Handling, InOrder
  <1>2. ASSUME NEW r, Goes(w, r), r.done = "no"
        PROVE  FALSE
    BY <1>1, <1>2, OneGoes
  <1>3. ASSUME NEW answer, Goes(w, Ends(req[w], answer)) PROVE FALSE
    <2>1. Ends(req[w], answer).done = "no"
      BY <1>1 DEF Ends, Requests
    <2>2. QED
      BY <1>2, <1>3, <2>1
  <1>4. ASSUME NEW answer, Goes(w, [Ends(req[w], answer) EXCEPT !.held = FALSE]) PROVE FALSE
    <2>1. [Ends(req[w], answer) EXCEPT !.held = FALSE].done = "no"
      BY <1>1 DEF Ends, Requests
    <2>2. QED
      BY <1>2, <1>4, <2>1
  <1>5. ASSUME NEW at, Goes(w, [req[w] EXCEPT !.at = at]) PROVE FALSE
    <2>1. [req[w] EXCEPT !.at = at].done = "no"
      BY <1>1 DEF Requests
    <2>2. QED
      BY <1>2, <1>5, <2>1
  <1>6. ASSUME NEW kind \in Kinds, NEW i \in Identities, Begin(w, kind, i) PROVE FALSE
    BY <1>1, <1>2, <1>6, BeginOutcomes
  <1>7. ~Verified(w)
    <2> SUFFICES ASSUME Verified(w) PROVE FALSE
      OBVIOUS
    <2> DEFINE r == [req[w] EXCEPT !.held = FALSE, !.stood = capable]
    <2>1. r.done = "no" /\ r \in Requests
      BY <1>1 DEF Requests, CredInv, LimiterInv, TypeOK
    <2>2. \/ \E at \in {"rotate", "recheck"} : Goes(w, [r EXCEPT !.at = at])
          \/ Goes(w, Ends(r, "error")) \/ Goes(w, [req[w] EXCEPT !.at = "commit"])
      BY DEF Verified
    <2> HIDE DEF r
    <2>3. /\ \A at \in {"rotate", "recheck"} : [r EXCEPT !.at = at].done = "no"
          /\ Ends(r, "error").done = "no"
      BY <2>1 DEF Ends, Requests
    <2>4. QED
      BY <1>2, <1>5, <2>2, <2>3
  <1>8. ~StartRecord(w)
    <2>1. [req[w] EXCEPT !.at = "revoke", !.started = TRUE].done = "no"
      BY <1>1 DEF Requests
    <2>2. QED
      BY <1>2, <1>3, <2>1 DEF StartRecord, Unstarted
  <1>9. ~Close(w)
    BY <1>1 DEF Close, InOrder
  <1>10. /\ ~WriteLoginAudit(w) /\ ~WriteAdminAudit(w) /\ ~Rotate(w)
    BY <1>3 DEF WriteLoginAudit, WriteAdminAudit, Rotate
  <1>11. ~Unverified(w) /\ ~CommitLogin(w)
    BY <1>4 DEF Unverified, CommitLogin
  <1>12. ~Recheck(w)
    BY <1>3, <1>5 DEF Recheck
  <1>13. /\ ~\E v \in Workers \ {w} :
              \/ \E kind \in Kinds, i \in Identities : Begin(v, kind, i)
              \/ WriteLoginAudit(v) \/ WriteAdminAudit(v)
              \/ Unverified(v) \/ Verified(v) \/ CommitLogin(v) \/ Rotate(v)
              \/ Recheck(v) \/ StartRecord(v) \/ Revoke(v) \/ Close(v)
    <2>1. ASSUME NEW v \in Workers \ {w}, NEW r, Goes(v, r) PROVE FALSE
      BY <1>1, <2>1, OneGoes
    <2>2. ASSUME NEW v \in Workers \ {w}, NEW kind \in Kinds, NEW i \in Identities,
                 Begin(v, kind, i)
          PROVE  FALSE
      BY <1>1, <2>1, <2>2, BeginOutcomes
    <2>3. QED
      BY <2>1, <2>2
         DEF WriteLoginAudit, WriteAdminAudit, Unverified, Verified, CommitLogin, Rotate,
             Recheck, StartRecord, Revoke, Close
  <1>14. ~(\E i \in Identities : WindowPasses(i)) /\ ~LoginIntervalPasses /\ ~AdminIntervalPasses
    BY DEF WindowPasses, LoginIntervalPasses, AdminIntervalPasses
  <1>15. ~ChangeRole
    <2>1. [req[w] EXCEPT !.stood = @ \/ capable'].done = "no"
      BY <1>1 DEF Requests
    <2>2. QED
      BY <2>1 DEF ChangeRole
  <1>16. Revoke(w)
    BY <1>6, <1>7, <1>8, <1>9, <1>10, <1>11, <1>12, <1>13, <1>14, <1>15 DEF Next
  <1>17. QED
    BY <1>16 DEF Revoke

\* Nobody's sessions are revoked by an administrator whose account has not been
\* able to manage sessions at any time since the password was right.
THEOREM StandingSeen == Spec => RevokesWithStanding
  <1>1. ASSUME CredInv, Next
        PROVE  RevokesWithStandingStep
    <2> SUFFICES ASSUME NEW w \in Workers, req'[w].done # "no", req[w].done = "no",
                        req[w].kind # "revokeOthers"
                 PROVE  req[w].stood
      BY DEF RevokesWithStandingStep
    <2>1. InOrder(req[w], capable) /\ TypeOK
      BY <1>1 DEF CredInv, LimiterInv, Handling
    <2>2. req[w].at = "revoke"
      BY <1>1, DoneWhenRevoked
    <2>3. QED
      BY <2>1, <2>2 DEF InOrder
  <1>2. CredInv /\ [Next]_vars => [RevokesWithStandingStep]_vars
    BY <1>1
  <1>3. Spec => []CredInv
    BY InitOK, NextOK, PTL DEF Spec
  <1>4. QED
    BY <1>2, <1>3, PTL DEF Spec, RevokesWithStanding

-----------------------------------------------------------------------------
(* The components side by side *)
(* What the parts of RequestHandlers promise is proved of the components in *)
(* modules of their own, each about an instance of the component with       *)
(* variables of its own.  Here these are the variables of the part: the two *)
(* instances are the same formulas (Same..., which expand every definition  *)
(* of both), and PartsSpec implies the component's specification (...Part). *)

\* The parts do not change.
LEMMA OtherParts == ASSUME NEW c, part # c, [PartsNext]_partVars PROVE part' # c
  BY DEF PartsNext, partVars

\* The login limiter and the handlers around it are a part as they stand, so that
\* CredentialsGuarded and StandingSeen hold of PartsSpec too.
LEMMA CredentialsPart == PartsSpec => Spec
  <1>1. PartsInit => Init
    BY DEF PartsInit
  <1>2. [PartsNext]_partVars => [Next]_vars
    BY DEF PartsNext, partVars
  <1>3. QED
    BY <1>1, <1>2, PTL DEF PartsSpec, Spec

OfReleases == INSTANCE ReleasePromotionProofs WITH
    None <- NoImage, MaxMishaps <- MaxReleaseMishaps, box <- x1, stable <- x2, pending <- x3,
    lastGood <- x4, failure <- x5, updater <- x6, window <- x7, job <- x8, outcome <- x9,
    soaked <- x10, steady <- x11, served <- x12, touched <- x13, manual <- x14,
    mishaps <- x15, releases <- x16, promotions <- x17

LEMMA SameReleasesSteps == Release!Next <=> OfReleases!Next
  BY Zenon DEF
     Release!routerVars, Release!ghosts, Release!bounds, Release!Boxes, Release!Checks,
     Release!Idle, Release!NoRun, Release!NoWindow, Release!Running, Release!CanBeReady,
     Release!Boxed, Release!Publish, Release!ByHand, Release!RollbackLastGood,
     Release!ClearFailure, Release!updaterOnly, Release!Quarantined, Release!Staged,
     Release!BeginRun, Release!PollCanary, Release!SoakSample, Release!Soak, Release!Stage,
     Release!RollBackCanary, Release!InterruptRun, Release!evidenceOnly, Release!BeginCollection,
     Release!SampleBoth, Release!Eligible, Release!controllerOnly, Release!End, Release!Go,
     Release!BeginPromotion, Release!Matches, Release!StagedRecord, Release!Check, Release!P,
     Release!Target, Release!LeaveDeploy, Release!Raise, Release!RollbackMatches, Release!Find,
     Release!Accepted, Release!Effect, Release!Then, Release!Command, Release!Arrived,
     Release!Await, Release!PromotedReady, Release!Probe, Release!Write, Release!RecordPromotion,
     Release!Look, Release!PriorReady, Release!RequirePrior, Release!ResetLastGood,
     Release!Quarantine, Release!Killed, Release!Settles, Release!Next, OfReleases!routerVars,
     OfReleases!ghosts, OfReleases!bounds, OfReleases!Boxes, OfReleases!Checks, OfReleases!Idle,
     OfReleases!NoRun, OfReleases!NoWindow, OfReleases!Running, OfReleases!CanBeReady,
     OfReleases!Boxed, OfReleases!Publish, OfReleases!ByHand, OfReleases!RollbackLastGood,
     OfReleases!ClearFailure, OfReleases!updaterOnly, OfReleases!Quarantined, OfReleases!Staged,
     OfReleases!BeginRun, OfReleases!PollCanary, OfReleases!SoakSample, OfReleases!Soak,
     OfReleases!Stage, OfReleases!RollBackCanary, OfReleases!InterruptRun,
     OfReleases!evidenceOnly, OfReleases!BeginCollection, OfReleases!SampleBoth,
     OfReleases!Eligible, OfReleases!controllerOnly, OfReleases!End, OfReleases!Go,
     OfReleases!BeginPromotion, OfReleases!Matches, OfReleases!StagedRecord, OfReleases!Check,
     OfReleases!P, OfReleases!Target, OfReleases!LeaveDeploy, OfReleases!Raise,
     OfReleases!RollbackMatches, OfReleases!Find, OfReleases!Accepted, OfReleases!Effect,
     OfReleases!Then, OfReleases!Command, OfReleases!Arrived, OfReleases!Await,
     OfReleases!PromotedReady, OfReleases!Probe, OfReleases!Write, OfReleases!RecordPromotion,
     OfReleases!Look, OfReleases!PriorReady, OfReleases!RequirePrior, OfReleases!ResetLastGood,
     OfReleases!Quarantine, OfReleases!Killed, OfReleases!Settles, OfReleases!Next

LEMMA SameReleases ==
  /\ (Release!Init <=> OfReleases!Init)
  /\ Release!vars = OfReleases!vars
  /\ (Release!TypeOK <=> OfReleases!TypeOK)
  /\ (Release!PromotedWasSoaked <=> OfReleases!PromotedWasSoaked)
  /\ (Release!LastGoodServed <=> OfReleases!LastGoodServed)
  /\ (Release!OutcomeHonest <=> OfReleases!OutcomeHonest)
  <1> USE DEF
       Release!routerVars, Release!ghosts, Release!bounds, Release!vars, Release!Boxes,
       Release!Stages, Release!Checks, Release!DeploySteps, Release!Points, Release!Idle,
       Release!NoRun, Release!NoWindow, Release!Running, Release!TypeOK, Release!Init, Release!P,
       Release!LastGoodServed, Release!Writing, Release!PromotedWasSoaked, Release!OutcomeHonest,
       OfReleases!routerVars, OfReleases!ghosts, OfReleases!bounds, OfReleases!vars,
       OfReleases!Boxes, OfReleases!Stages, OfReleases!Checks, OfReleases!DeploySteps,
       OfReleases!Points, OfReleases!Idle, OfReleases!NoRun, OfReleases!NoWindow,
       OfReleases!Running, OfReleases!TypeOK, OfReleases!Init, OfReleases!P,
       OfReleases!LastGoodServed, OfReleases!Writing, OfReleases!PromotedWasSoaked,
       OfReleases!OutcomeHonest
  <1>1. Release!Init <=> OfReleases!Init
    BY Zenon
  <1>2. Release!vars = OfReleases!vars
    BY Zenon
  <1>3. Release!TypeOK <=> OfReleases!TypeOK
    BY Zenon
  <1>4. Release!PromotedWasSoaked <=> OfReleases!PromotedWasSoaked
    BY Zenon
  <1>5. Release!LastGoodServed <=> OfReleases!LastGoodServed
    BY Zenon
  <1>6. Release!OutcomeHonest <=> OfReleases!OutcomeHonest
    BY Zenon
  <1>7. QED
    BY <1>1, <1>2, <1>3, <1>4, <1>5, <1>6, Zenon

LEMMA ReleasesPart ==
  PartsSpec /\ part = "release" => OfReleases!Spec /\ [](part = "release")
  <1> DEFINE Here == part = "release"
  <1>1. PartsInit /\ Here => OfReleases!Init
    BY SameReleases DEF PartsInit
  <1>2. Here /\ [PartsNext]_partVars => Here' /\ [OfReleases!Next]_OfReleases!vars
    <2>1. Release!vars' = OfReleases!vars'
      BY Zenon DEF Release!vars, Release!routerVars, Release!ghosts, Release!bounds,
         OfReleases!vars, OfReleases!routerVars, OfReleases!ghosts, OfReleases!bounds
    <2>2. Here /\ PartsNext => Here' /\ Release!Next
      BY DEF PartsNext, Elsewhere
    <2>3. UNCHANGED partVars => UNCHANGED Release!vars
      BY DEF partVars, Release!vars, Release!routerVars, Release!ghosts, Release!bounds
    <2>4. QED
      BY <2>1, <2>2, <2>3, SameReleases, SameReleasesSteps DEF partVars
  <1>3. QED
    BY <1>1, <1>2, PTL DEF PartsSpec, OfReleases!Spec

\* What is promoted was soaked, and what is recorded of it is so
\* (promote_routeros_release.py 289-445).
THEOREM PromotionsAreSafe == PartsSpec => []PromotionIsSafe
  <1> DEFINE Here == part = "release"
  <1>1. ~Here /\ [PartsNext]_partVars => ~Here'
    BY OtherParts
  <1>2. OfReleases!ReleaseAssumption
    BY HandlersAssumption DEF Release!ReleaseAssumption, OfReleases!ReleaseAssumption
  <1>3. ~Here => PromotionIsSafe
    BY DEF PromotionIsSafe
  <1>4. OfReleases!TypeOK /\ OfReleases!PromotedWasSoaked /\ OfReleases!LastGoodServed /\
        OfReleases!OutcomeHonest
        => PromotionIsSafe
    BY SameReleases DEF PromotionIsSafe
  <1>5. QED
    BY <1>1, <1>2, <1>3, <1>4, ReleasesPart, OfReleases!TypeCorrect, OfReleases!OnlySoaked,
       OfReleases!LastGoodHasRun, OfReleases!AnswersHold, PTL DEF PartsSpec

OfHandlers == INSTANCE HandlerProofs WITH
    Threads <- LockRequests, Keys <- LockKeys, Clients <- Workers, Sessions <- Logins,
    Kinds <- MigrationKinds, MaxRequests <- MaxMigrationRequests,
    MaxMishaps <- MaxMigrationMishaps, at <- x1, keeps <- x2, wants <- x3, got <- x4,
    half <- x5, lease <- x6, coordinated <- x7, items <- x1, overdue <- x2, closed <- x3,
    made <- x4, published <- x5, step <- x6, delivered <- x7, wrong <- x8, takes <- x9,
    managed <- x1, old <- x2, cert <- x3, sessions <- x4, row <- x5, local <- x6,
    reviews <- x7, issuing <- x8, req <- x9, bridged <- x10, begun <- x11, mishaps <- x12,
    live <- x17, sockets <- x17, ledger <- x17, total <- x17, login <- x17, leaked <- x17

LEMMA SameSharesSteps == Share!Next <=> OfHandlers!Share!Next
  BY Zenon DEF
     Share!Held, Share!Fresh, Share!Purged, Share!Without, Share!With, Share!Put, Share!Open,
     Share!Publish, Share!AfterWrong, Share!AfterRight, Share!Take, Share!Available,
     Share!Landing, Share!Lapse, Share!Unlock, Share!PurgeThread, Share!Close, Share!Next,
     OfHandlers!Share!Held, OfHandlers!Share!Fresh, OfHandlers!Share!Purged,
     OfHandlers!Share!Without, OfHandlers!Share!With, OfHandlers!Share!Put,
     OfHandlers!Share!Open, OfHandlers!Share!Publish, OfHandlers!Share!AfterWrong,
     OfHandlers!Share!AfterRight, OfHandlers!Share!Take, OfHandlers!Share!Available,
     OfHandlers!Share!Landing, OfHandlers!Share!Lapse, OfHandlers!Share!Unlock,
     OfHandlers!Share!PurgeThread, OfHandlers!Share!Close, OfHandlers!Share!Next

LEMMA SameShares ==
  /\ (Share!Init <=> OfHandlers!Share!Init)
  /\ Share!vars = OfHandlers!Share!vars
  /\ (Share!TypeOK <=> OfHandlers!Share!TypeOK)
  /\ (Share!DownloadsBounded <=> OfHandlers!Share!DownloadsBounded)
  /\ (Share!WrongCodesLock <=> OfHandlers!Share!WrongCodesLock)
  /\ (Share!NothingLateStep <=> OfHandlers!Share!NothingLateStep)
  /\ (Share!LinksAreHonestStep <=> OfHandlers!Share!LinksAreHonestStep)
  <1> USE DEF
       Share!vars, Share!Held, Share!Item, Share!Fresh, Share!Points, Share!Answers,
       Share!TypeOK, Share!Resting, Share!Init, Share!DownloadsBounded, Share!NothingLateStep,
       Share!WrongCodesLock, Share!LinksAreHonestStep, OfHandlers!Share!vars,
       OfHandlers!Share!Held, OfHandlers!Share!Item, OfHandlers!Share!Fresh,
       OfHandlers!Share!Points, OfHandlers!Share!Answers, OfHandlers!Share!TypeOK,
       OfHandlers!Share!Resting, OfHandlers!Share!Init, OfHandlers!Share!DownloadsBounded,
       OfHandlers!Share!NothingLateStep, OfHandlers!Share!WrongCodesLock,
       OfHandlers!Share!LinksAreHonestStep
  <1>1. Share!Init <=> OfHandlers!Share!Init
    BY Zenon
  <1>2. Share!vars = OfHandlers!Share!vars
    BY Zenon
  <1>3. Share!TypeOK <=> OfHandlers!Share!TypeOK
    BY Zenon
  <1>4. Share!DownloadsBounded <=> OfHandlers!Share!DownloadsBounded
    BY Zenon
  <1>5. Share!WrongCodesLock <=> OfHandlers!Share!WrongCodesLock
    BY Zenon
  <1>6. Share!NothingLateStep <=> OfHandlers!Share!NothingLateStep
    BY Zenon
  <1>7. Share!LinksAreHonestStep <=> OfHandlers!Share!LinksAreHonestStep
    BY Zenon
  <1>8. QED
    BY <1>1, <1>2, <1>3, <1>4, <1>5, <1>6, <1>7, Zenon

LEMMA SharesPart ==
  PartsSpec /\ part = "shares" => OfHandlers!Share!Spec /\ [](part = "shares")
  <1> DEFINE Here == part = "shares"
  <1>1. PartsInit /\ Here => OfHandlers!Share!Init
    BY SameShares DEF PartsInit
  <1>2. Here /\ [PartsNext]_partVars => Here' /\ [OfHandlers!Share!Next]_OfHandlers!Share!vars
    <2>1. Share!vars' = OfHandlers!Share!vars'
      BY Zenon DEF Share!vars, OfHandlers!Share!vars
    <2>2. Here /\ PartsNext => Here' /\ Share!Next
      BY DEF PartsNext, Elsewhere
    <2>3. UNCHANGED partVars => UNCHANGED Share!vars
      BY DEF partVars, Share!vars
    <2>4. QED
      BY <2>1, <2>2, <2>3, SameShares, SameSharesSteps DEF partVars
  <1>3. QED
    BY <1>1, <1>2, PTL DEF PartsSpec, OfHandlers!Share!Spec

\* Shares are downloaded within their limits, and links are what was said of them
\* (app.py 737-890).
THEOREM SharesAreKept == PartsSpec => SharesAreLimited
  <1> DEFINE Here == part = "shares"
  <1>1. ~Here /\ [PartsNext]_partVars => ~Here'
    BY OtherParts
  <1>2. OfHandlers!Share!ShareAssumption /\ Shares # {}
    BY HandlersAssumption DEF Share!ShareAssumption, OfHandlers!Share!ShareAssumption
  <1>3. OfHandlers!Share!TypeOK /\ OfHandlers!Share!DownloadsBounded /\
        OfHandlers!Share!WrongCodesLock
        => Share!TypeOK /\ Share!DownloadsBounded /\ Share!WrongCodesLock
    BY SameShares
  <1>4. /\ Here /\ [PartsNext]_partVars
        /\ [OfHandlers!Share!NothingLateStep]_OfHandlers!Share!vars
        /\ [OfHandlers!Share!LinksAreHonestStep]_OfHandlers!Share!vars
        => [Here => Share!NothingLateStep /\ Share!LinksAreHonestStep]_partVars
    <2>1. Share!vars' = OfHandlers!Share!vars'
      BY Zenon DEF Share!vars, OfHandlers!Share!vars
    <2>2. Here /\ PartsNext /\ UNCHANGED Share!vars => UNCHANGED partVars
      BY DEF PartsNext, Elsewhere, partVars, vars, Share!vars, Kept15, Kept13, Kept12, Kept11,
         Kept9
    <2>3. QED
      BY <2>1, <2>2, SameShares
  <1>5. ~Here /\ [PartsNext]_partVars
        => [Here => Share!NothingLateStep /\ Share!LinksAreHonestStep]_partVars
    OBVIOUS
  <1>6. QED
    BY <1>1, <1>2, <1>3, <1>4, <1>5, SharesPart, OfHandlers!SharesHaveTypes,
       OfHandlers!DownloadsAreBounded, OfHandlers!WrongCodesAreLocked, OfHandlers!NothingIsLate,
       OfHandlers!LinksTellTheTruth, PTL DEF PartsSpec, SharesAreLimited,
       OfHandlers!Share!NothingLate, OfHandlers!Share!LinksAreHonest

LEMMA SameMigrationSteps == Retire!Next <=> OfHandlers!Retire!Next
  BY Zenon DEF
     Retire!None, Retire!router, Retire!NoRow, Retire!Idle, Retire!Smooth, Retire!Mishap,
     Retire!Goes, Retire!Ends, Retire!Certificates, Retire!Active, Retire!BeginIssue,
     Retire!Issue, Retire!Replaced, Retire!Record, Retire!Undo, Retire!BeginStep,
     Retire!CheckCertificates, Retire!ListSessions, Retire!Imported, Retire!TestCounts,
     Retire!RecordStep, Retire!MayRetire, Retire!BeginRetire, Retire!Review, Retire!SendRevoke,
     Retire!ShownRevoked, Retire!Outcome, Retire!ReadBack, Retire!StoreRetired, Retire!Connect,
     Retire!Disconnect, Retire!RevokeReplacement, Retire!Next, OfHandlers!Retire!None,
     OfHandlers!Retire!router, OfHandlers!Retire!NoRow, OfHandlers!Retire!Idle,
     OfHandlers!Retire!Smooth, OfHandlers!Retire!Mishap, OfHandlers!Retire!Goes,
     OfHandlers!Retire!Ends, OfHandlers!Retire!Certificates, OfHandlers!Retire!Active,
     OfHandlers!Retire!BeginIssue, OfHandlers!Retire!Issue, OfHandlers!Retire!Replaced,
     OfHandlers!Retire!Record, OfHandlers!Retire!Undo, OfHandlers!Retire!BeginStep,
     OfHandlers!Retire!CheckCertificates, OfHandlers!Retire!ListSessions,
     OfHandlers!Retire!Imported, OfHandlers!Retire!TestCounts, OfHandlers!Retire!RecordStep,
     OfHandlers!Retire!MayRetire, OfHandlers!Retire!BeginRetire, OfHandlers!Retire!Review,
     OfHandlers!Retire!SendRevoke, OfHandlers!Retire!ShownRevoked, OfHandlers!Retire!Outcome,
     OfHandlers!Retire!ReadBack, OfHandlers!Retire!StoreRetired, OfHandlers!Retire!Connect,
     OfHandlers!Retire!Disconnect, OfHandlers!Retire!RevokeReplacement, OfHandlers!Retire!Next

LEMMA SameMigration ==
  /\ (Retire!Init <=> OfHandlers!Retire!Init)
  /\ Retire!vars = OfHandlers!Retire!vars
  /\ (Retire!TypeOK <=> OfHandlers!Retire!TypeOK)
  /\ (Retire!TestsFollowImports <=> OfHandlers!Retire!TestsFollowImports)
  /\ (Retire!RetiredIsRevoked <=> OfHandlers!Retire!RetiredIsRevoked)
  /\ (Retire!RetirementLeavesAWay <=> OfHandlers!Retire!RetirementLeavesAWay)
  <1> USE DEF
       Retire!None, Retire!vars, Retire!Sides, Retire!NoRow, Retire!Points, Retire!Idle,
       Retire!TypeOK, Retire!Init, Retire!TestsFollowImports, Retire!RetiredIsRevoked,
       Retire!RetirementLeavesAWay, OfHandlers!Retire!None, OfHandlers!Retire!vars,
       OfHandlers!Retire!Sides, OfHandlers!Retire!NoRow, OfHandlers!Retire!Points,
       OfHandlers!Retire!Idle, OfHandlers!Retire!TypeOK, OfHandlers!Retire!Init,
       OfHandlers!Retire!TestsFollowImports, OfHandlers!Retire!RetiredIsRevoked,
       OfHandlers!Retire!RetirementLeavesAWay
  <1>1. Retire!Init <=> OfHandlers!Retire!Init
    BY Zenon
  <1>2. Retire!vars = OfHandlers!Retire!vars
    BY Zenon
  <1>3. Retire!TypeOK <=> OfHandlers!Retire!TypeOK
    BY Zenon
  <1>4. Retire!TestsFollowImports <=> OfHandlers!Retire!TestsFollowImports
    BY Zenon
  <1>5. Retire!RetiredIsRevoked <=> OfHandlers!Retire!RetiredIsRevoked
    BY Zenon
  <1>6. Retire!RetirementLeavesAWay <=> OfHandlers!Retire!RetirementLeavesAWay
    BY Zenon
  <1>7. QED
    BY <1>1, <1>2, <1>3, <1>4, <1>5, <1>6, Zenon

LEMMA MigrationPart ==
  PartsSpec /\ part = "migration" => OfHandlers!Retire!Spec /\ [](part = "migration")
  <1> DEFINE Here == part = "migration"
  <1>1. PartsInit /\ Here => OfHandlers!Retire!Init
    BY SameMigration DEF PartsInit
  <1>2. Here /\ [PartsNext]_partVars => Here' /\ [OfHandlers!Retire!Next]_OfHandlers!Retire!vars
    <2>1. Retire!vars' = OfHandlers!Retire!vars'
      BY Zenon DEF Retire!vars, OfHandlers!Retire!vars
    <2>2. Here /\ PartsNext => Here' /\ Retire!Next
      BY DEF PartsNext, Elsewhere
    <2>3. UNCHANGED partVars => UNCHANGED Retire!vars
      BY DEF partVars, Retire!vars
    <2>4. QED
      BY <2>1, <2>2, <2>3, SameMigration, SameMigrationSteps DEF partVars
  <1>3. QED
    BY <1>1, <1>2, PTL DEF PartsSpec, OfHandlers!Retire!Spec

\* A certificate is retired when its replacement was tested and leaves a way in
\* (store.py 1117-1187, app.py 8134-8246).
THEOREM AccessIsKept == PartsSpec => []MigrationKeepsAccess
  <1> DEFINE Here == part = "migration"
  <1>1. ~Here /\ [PartsNext]_partVars => ~Here'
    BY OtherParts
  <1>2. OfHandlers!BoundsAreNumbers
    BY HandlersAssumption DEF OfHandlers!BoundsAreNumbers
  <1>3. ~Here => MigrationKeepsAccess
    BY DEF MigrationKeepsAccess
  <1>4. OfHandlers!Retire!TypeOK /\ OfHandlers!Retire!TestsFollowImports /\
        OfHandlers!Retire!RetiredIsRevoked /\ OfHandlers!Retire!RetirementLeavesAWay
        => MigrationKeepsAccess
    BY SameMigration DEF MigrationKeepsAccess
  <1>5. QED
    BY <1>1, <1>2, <1>3, <1>4, MigrationPart, OfHandlers!MigrationHasTypes,
       OfHandlers!TestsStandOnImports, OfHandlers!RetirementsAreHonest, PTL DEF PartsSpec

LEMMA SameLocksSteps == Lock!Next <=> OfHandlers!Lock!Next
  BY Zenon DEF
     Lock!Gate, Lock!AllKeys, Lock!IsNext, Lock!HoldsStripe, Lock!InTheWay, Lock!StripeFree,
     Lock!After, Lock!Takes, Lock!Without, Lock!LetGo, Lock!Behind, Lock!Begin, Lock!TakeStripe,
     Lock!LeaseFree, Lock!TakeLease, Lock!GiveUp, Lock!Ungate, Lock!Leave, Lock!Step, Lock!Next,
     OfHandlers!Lock!Gate, OfHandlers!Lock!AllKeys, OfHandlers!Lock!IsNext,
     OfHandlers!Lock!HoldsStripe, OfHandlers!Lock!InTheWay, OfHandlers!Lock!StripeFree,
     OfHandlers!Lock!After, OfHandlers!Lock!Takes, OfHandlers!Lock!Without,
     OfHandlers!Lock!LetGo, OfHandlers!Lock!Behind, OfHandlers!Lock!Begin,
     OfHandlers!Lock!TakeStripe, OfHandlers!Lock!LeaseFree, OfHandlers!Lock!TakeLease,
     OfHandlers!Lock!GiveUp, OfHandlers!Lock!Ungate, OfHandlers!Lock!Leave, OfHandlers!Lock!Step,
     OfHandlers!Lock!Next

LEMMA SameLocks ==
  /\ (Lock!Init <=> OfHandlers!Lock!Init)
  /\ Lock!vars = OfHandlers!Lock!vars
  /\ (Lock!TypeOK <=> OfHandlers!Lock!TypeOK)
  /\ (Lock!KeyHeldOnce <=> OfHandlers!Lock!KeyHeldOnce)
  /\ (Lock!WaitsLeadOut <=> OfHandlers!Lock!WaitsLeadOut)
  <1> USE DEF
       Lock!Gate, Lock!AllKeys, Lock!vars, Lock!TypeOK, Lock!Init, Lock!IsNext, Lock!HoldsStripe,
       Lock!InTheWay, Lock!KeyHeldOnce, Lock!WaitsFor, Lock!Distance, Lock!WaitsLeadOut,
       OfHandlers!Lock!Gate, OfHandlers!Lock!AllKeys, OfHandlers!Lock!vars,
       OfHandlers!Lock!TypeOK, OfHandlers!Lock!Init, OfHandlers!Lock!IsNext,
       OfHandlers!Lock!HoldsStripe, OfHandlers!Lock!InTheWay, OfHandlers!Lock!KeyHeldOnce,
       OfHandlers!Lock!WaitsFor, OfHandlers!Lock!Distance, OfHandlers!Lock!WaitsLeadOut
  <1>1. Lock!Init <=> OfHandlers!Lock!Init
    BY Zenon
  <1>2. Lock!vars = OfHandlers!Lock!vars
    BY Zenon
  <1>3. Lock!TypeOK <=> OfHandlers!Lock!TypeOK
    BY Zenon
  <1>4. Lock!KeyHeldOnce <=> OfHandlers!Lock!KeyHeldOnce
    BY Zenon
  <1>5. Lock!WaitsLeadOut <=> OfHandlers!Lock!WaitsLeadOut
    BY Zenon
  <1>6. QED
    BY <1>1, <1>2, <1>3, <1>4, <1>5, Zenon

LEMMA LocksPart ==
  PartsSpec /\ part = "locks" => OfHandlers!Lock!Spec /\ [](part = "locks")
  <1> DEFINE Here == part = "locks"
  <1>1. PartsInit /\ Here => OfHandlers!Lock!Init
    BY SameLocks DEF PartsInit
  <1>2. Here /\ [PartsNext]_partVars => Here' /\ [OfHandlers!Lock!Next]_OfHandlers!Lock!vars
    <2>1. Lock!vars' = OfHandlers!Lock!vars'
      BY Zenon DEF Lock!vars, OfHandlers!Lock!vars
    <2>2. Here /\ PartsNext => Here' /\ Lock!Next
      BY DEF PartsNext, Elsewhere
    <2>3. UNCHANGED partVars => UNCHANGED Lock!vars
      BY DEF partVars, Lock!vars
    <2>4. QED
      BY <2>1, <2>2, <2>3, SameLocks, SameLocksSteps DEF partVars
  <1>3. QED
    BY <1>1, <1>2, PTL DEF PartsSpec, OfHandlers!Lock!Spec

\* Keys are held once and waiting for them leads out (app.py 944-980).
THEOREM LocksAreFree == PartsSpec => []LocksLeadOut
  <1> DEFINE Here == part = "locks"
  <1>1. ~Here /\ [PartsNext]_partVars => ~Here'
    BY OtherParts
  <1>2. OfHandlers!Lock!LockAssumption
    BY HandlersAssumption DEF Lock!LockAssumption, Lock!AllKeys, Lock!Gate,
       OfHandlers!Lock!LockAssumption, OfHandlers!Lock!AllKeys, OfHandlers!Lock!Gate
  <1>3. ~Here => LocksLeadOut
    BY DEF LocksLeadOut
  <1>4. OfHandlers!Lock!TypeOK /\ OfHandlers!Lock!KeyHeldOnce /\ OfHandlers!Lock!WaitsLeadOut
        => LocksLeadOut
    BY SameLocks DEF LocksLeadOut
  <1>5. QED
    BY <1>1, <1>2, <1>3, <1>4, LocksPart, OfHandlers!TypeCorrect, OfHandlers!KeysAreExclusive,
       OfHandlers!NoCircularWait, PTL DEF PartsSpec

OfAccounts == INSTANCE AccountProofs WITH
    Provisioners <- Workers, mishaps <- x1, cert <- x2, holder <- x3, req <- x4,
    begun <- x5, account <- x6, rateSet <- x7, tunnels <- x8, made <- x9, nextId <- x10,
    device <- x11, settings <- x12, registered <- x13, job <- x3, files <- x4,
    nextFile <- x5, live <- x2, disabled <- x6, rowOf <- x7, named <- x8, openedBy <- x9,
    password <- x10, shutOut <- x11, online <- x2, profile <- x7, revoked <- x8,
    closed <- x9, assigned <- x10, touched <- x11

LEMMA SameTunnelsSteps == Session!Next <=> OfAccounts!Tunnel!Next
  BY Zenon DEF
     Session!sessions, Session!account, Session!Opened, Session!RowsOf, Session!Idle,
     Session!Mishap, Session!Smooth, Session!Goes, Session!To, Session!Ended, Session!Answers,
     Session!Begins, Session!Locks, Session!Looks, Session!RowCleared, Session!LoseLock,
     Session!ReviewUpdate, Session!ReviewSuspend, Session!ReviewRestore, Session!Patched,
     Session!Unpatched, Session!Patch, Session!Newcomers, Session!Capture, Session!OnRow,
     Session!Check, Session!Drop, Session!Unmarked, Session!Incomplete, Session!Nameless,
     Session!Unresolved, Session!Summary, Session!LastLook, Session!LostDrop, Session!Confirm,
     Session!ReadBack, Session!Cut, Session!LeftOver, Session!Count, Session!ReviewTerminate,
     Session!Terminate, Session!Still, Session!Poll, Session!Connect, Session!Disconnect,
     Session!Update, Session!Access, Session!Termination, Session!Next, Session!Cardinality,
     OfAccounts!Tunnel!sessions, OfAccounts!Tunnel!account, OfAccounts!Tunnel!Opened,
     OfAccounts!Tunnel!RowsOf, OfAccounts!Tunnel!Idle, OfAccounts!Tunnel!Mishap,
     OfAccounts!Tunnel!Smooth, OfAccounts!Tunnel!Goes, OfAccounts!Tunnel!To,
     OfAccounts!Tunnel!Ended, OfAccounts!Tunnel!Answers, OfAccounts!Tunnel!Begins,
     OfAccounts!Tunnel!Locks, OfAccounts!Tunnel!Looks, OfAccounts!Tunnel!RowCleared,
     OfAccounts!Tunnel!LoseLock, OfAccounts!Tunnel!ReviewUpdate, OfAccounts!Tunnel!ReviewSuspend,
     OfAccounts!Tunnel!ReviewRestore, OfAccounts!Tunnel!Patched, OfAccounts!Tunnel!Unpatched,
     OfAccounts!Tunnel!Patch, OfAccounts!Tunnel!Newcomers, OfAccounts!Tunnel!Capture,
     OfAccounts!Tunnel!OnRow, OfAccounts!Tunnel!Check, OfAccounts!Tunnel!Drop,
     OfAccounts!Tunnel!Unmarked, OfAccounts!Tunnel!Incomplete, OfAccounts!Tunnel!Nameless,
     OfAccounts!Tunnel!Unresolved, OfAccounts!Tunnel!Summary, OfAccounts!Tunnel!LastLook,
     OfAccounts!Tunnel!LostDrop, OfAccounts!Tunnel!Confirm, OfAccounts!Tunnel!ReadBack,
     OfAccounts!Tunnel!Cut, OfAccounts!Tunnel!LeftOver, OfAccounts!Tunnel!Count,
     OfAccounts!Tunnel!ReviewTerminate, OfAccounts!Tunnel!Terminate, OfAccounts!Tunnel!Still,
     OfAccounts!Tunnel!Poll, OfAccounts!Tunnel!Connect, OfAccounts!Tunnel!Disconnect,
     OfAccounts!Tunnel!Update, OfAccounts!Tunnel!Access, OfAccounts!Tunnel!Termination,
     OfAccounts!Tunnel!Next, OfAccounts!Tunnel!Cardinality

LEMMA SameTunnels ==
  /\ (Session!Init <=> OfAccounts!Tunnel!Init)
  /\ Session!vars = OfAccounts!Tunnel!vars
  /\ (Session!TypeOK <=> OfAccounts!Tunnel!TypeOK)
  /\ (Session!RevokedButForReusedRows <=> OfAccounts!Tunnel!RevokedButForReusedRows)
  /\ (Session!SuspendedStaysOut <=> OfAccounts!Tunnel!SuspendedStaysOut)
  /\ (Session!TerminatedIsGone <=> OfAccounts!Tunnel!TerminatedIsGone)
  <1> USE DEF
       Session!vars, Session!Sessions, Session!Opened, Session!RowsOf, Session!Stages,
       Session!Statuses, Session!Verdicts, Session!TypeOK, Session!Idle, Session!Init,
       Session!OpenedBefore, Session!RevokedButForReusedRows, Session!SuspendedStaysOut,
       Session!TerminatedIsGone, OfAccounts!Tunnel!vars, OfAccounts!Tunnel!Sessions,
       OfAccounts!Tunnel!Opened, OfAccounts!Tunnel!RowsOf, OfAccounts!Tunnel!Stages,
       OfAccounts!Tunnel!Statuses, OfAccounts!Tunnel!Verdicts, OfAccounts!Tunnel!TypeOK,
       OfAccounts!Tunnel!Idle, OfAccounts!Tunnel!Init, OfAccounts!Tunnel!OpenedBefore,
       OfAccounts!Tunnel!RevokedButForReusedRows, OfAccounts!Tunnel!SuspendedStaysOut,
       OfAccounts!Tunnel!TerminatedIsGone
  <1>1. Session!Init <=> OfAccounts!Tunnel!Init
    BY Zenon
  <1>2. Session!vars = OfAccounts!Tunnel!vars
    BY Zenon
  <1>3. Session!TypeOK <=> OfAccounts!Tunnel!TypeOK
    BY Zenon
  <1>4. Session!RevokedButForReusedRows <=> OfAccounts!Tunnel!RevokedButForReusedRows
    BY Zenon
  <1>5. Session!SuspendedStaysOut <=> OfAccounts!Tunnel!SuspendedStaysOut
    BY Zenon
  <1>6. Session!TerminatedIsGone <=> OfAccounts!Tunnel!TerminatedIsGone
    BY Zenon
  <1>7. QED
    BY <1>1, <1>2, <1>3, <1>4, <1>5, <1>6, Zenon

LEMMA TunnelsPart ==
  PartsSpec /\ part = "sessions" => OfAccounts!Tunnel!Spec /\ [](part = "sessions")
  <1> DEFINE Here == part = "sessions"
  <1>1. PartsInit /\ Here => OfAccounts!Tunnel!Init
    BY SameTunnels DEF PartsInit
  <1>2. Here /\ [PartsNext]_partVars => Here' /\ [OfAccounts!Tunnel!Next]_OfAccounts!Tunnel!vars
    <2>1. Session!vars' = OfAccounts!Tunnel!vars'
      BY Zenon DEF Session!vars, Session!sessions, Session!account, OfAccounts!Tunnel!vars,
         OfAccounts!Tunnel!sessions, OfAccounts!Tunnel!account
    <2>2. Here /\ PartsNext => Here' /\ Session!Next
      BY DEF PartsNext, Elsewhere
    <2>3. UNCHANGED partVars => UNCHANGED Session!vars
      BY DEF partVars, Session!vars, Session!sessions, Session!account
    <2>4. QED
      BY <2>1, <2>2, <2>3, SameTunnels, SameTunnelsSteps DEF partVars
  <1>3. QED
    BY <1>1, <1>2, PTL DEF PartsSpec, OfAccounts!Tunnel!Spec

\* Tunnels end with what they were opened by and stay ended (app.py 5921-6054,
\* 7293-7505, 8283-8431).
THEOREM TunnelsAreEnded == PartsSpec => []TunnelsEnd
  <1> DEFINE Here == part = "sessions"
  <1>1. ~Here /\ [PartsNext]_partVars => ~Here'
    BY OtherParts
  <1>2. OfAccounts!TunnelLimits /\ Nobody \notin Workers
    BY HandlersAssumption DEF OfAccounts!TunnelLimits, Account!AccountAssumption
  <1>3. ~Here => TunnelsEnd
    BY DEF TunnelsEnd
  <1>4. OfAccounts!Tunnel!TypeOK /\ OfAccounts!Tunnel!RevokedButForReusedRows /\
        OfAccounts!Tunnel!SuspendedStaysOut /\ OfAccounts!Tunnel!TerminatedIsGone
        => TunnelsEnd
    BY SameTunnels DEF TunnelsEnd
  <1>5. QED
    BY <1>1, <1>2, <1>3, <1>4, TunnelsPart, OfAccounts!TunnelsHaveTypes,
       OfAccounts!OldPasswordIsOut, OfAccounts!EndedStaysEnded, PTL DEF PartsSpec

LEMMA SameBulkSteps == Several!Next <=> OfAccounts!Several!Next
  BY Zenon DEF
     Several!router, Several!store, Several!Certs, Several!SomeTemplate, Several!Idle,
     Several!Mishap, Several!Smooth, Several!Turn, Several!Owned, Several!Goes, Several!To,
     Several!Untouched, Several!Outcome, Several!LeavesWith, Several!Unfinished,
     Several!Dispossessed, Several!Crashes, Several!Change, Several!Reads, Several!Review,
     Several!Open, Several!ReviewSuspend, Several!ReviewRevoke, Several!Has,
     Several!ReviewTemplate, Several!NextAccount, Several!TurnLost, Several!AllDone,
     Several!Patch, Several!ReadBack, Several!Cut, Several!Count, Several!StillOwned,
     Several!Settle, Several!ThisDevice, Several!Revoke, Several!Revoked, Several!Rate,
     Several!Assign, Several!Confirmed, Several!ReadProfile, Several!LoseLock, Several!Restore,
     Several!Connect, Several!Disconnect, Several!Next, OfAccounts!Several!router,
     OfAccounts!Several!store, OfAccounts!Several!Certs, OfAccounts!Several!SomeTemplate,
     OfAccounts!Several!Idle, OfAccounts!Several!Mishap, OfAccounts!Several!Smooth,
     OfAccounts!Several!Turn, OfAccounts!Several!Owned, OfAccounts!Several!Goes,
     OfAccounts!Several!To, OfAccounts!Several!Untouched, OfAccounts!Several!Outcome,
     OfAccounts!Several!LeavesWith, OfAccounts!Several!Unfinished,
     OfAccounts!Several!Dispossessed, OfAccounts!Several!Crashes, OfAccounts!Several!Change,
     OfAccounts!Several!Reads, OfAccounts!Several!Review, OfAccounts!Several!Open,
     OfAccounts!Several!ReviewSuspend, OfAccounts!Several!ReviewRevoke, OfAccounts!Several!Has,
     OfAccounts!Several!ReviewTemplate, OfAccounts!Several!NextAccount,
     OfAccounts!Several!TurnLost, OfAccounts!Several!AllDone, OfAccounts!Several!Patch,
     OfAccounts!Several!ReadBack, OfAccounts!Several!Cut, OfAccounts!Several!Count,
     OfAccounts!Several!StillOwned, OfAccounts!Several!Settle, OfAccounts!Several!ThisDevice,
     OfAccounts!Several!Revoke, OfAccounts!Several!Revoked, OfAccounts!Several!Rate,
     OfAccounts!Several!Assign, OfAccounts!Several!Confirmed, OfAccounts!Several!ReadProfile,
     OfAccounts!Several!LoseLock, OfAccounts!Several!Restore, OfAccounts!Several!Connect,
     OfAccounts!Several!Disconnect, OfAccounts!Several!Next

LEMMA SameBulk ==
  /\ (Several!Init <=> OfAccounts!Several!Init)
  /\ Several!vars = OfAccounts!Several!vars
  /\ (Several!TypeOK <=> OfAccounts!Several!TypeOK)
  /\ (Several!ChangesAreReported <=> OfAccounts!Several!ChangesAreReported)
  /\ (Several!VerifiedWhenSaidStep <=> OfAccounts!Several!VerifiedWhenSaidStep)
  /\ (Several!StoreFollowsRouterStep <=> OfAccounts!Several!StoreFollowsRouterStep)
  <1> USE DEF
       Several!vars, Several!Certs, Several!Stages, Several!Outcomes, Several!Verdicts,
       Several!TypeOK, Several!SomeTemplate, Several!Idle, Several!Init,
       Several!ChangesAreReported, Several!VerifiedWhenSaidStep, Several!StoreFollowsRouterStep,
       OfAccounts!Several!vars, OfAccounts!Several!Certs, OfAccounts!Several!Stages,
       OfAccounts!Several!Outcomes, OfAccounts!Several!Verdicts, OfAccounts!Several!TypeOK,
       OfAccounts!Several!SomeTemplate, OfAccounts!Several!Idle, OfAccounts!Several!Init,
       OfAccounts!Several!ChangesAreReported, OfAccounts!Several!VerifiedWhenSaidStep,
       OfAccounts!Several!StoreFollowsRouterStep
  <1>1. Several!Init <=> OfAccounts!Several!Init
    BY Zenon
  <1>2. Several!vars = OfAccounts!Several!vars
    BY Zenon
  <1>3. Several!TypeOK <=> OfAccounts!Several!TypeOK
    BY Zenon
  <1>4. Several!ChangesAreReported <=> OfAccounts!Several!ChangesAreReported
    BY Zenon
  <1>5. Several!VerifiedWhenSaidStep <=> OfAccounts!Several!VerifiedWhenSaidStep
    BY Zenon
  <1>6. Several!StoreFollowsRouterStep <=> OfAccounts!Several!StoreFollowsRouterStep
    BY Zenon
  <1>7. QED
    BY <1>1, <1>2, <1>3, <1>4, <1>5, <1>6, Zenon

LEMMA BulkPart ==
  PartsSpec /\ part = "bulk" => OfAccounts!Several!Spec /\ [](part = "bulk")
  <1> DEFINE Here == part = "bulk"
  <1>1. PartsInit /\ Here => OfAccounts!Several!Init
    BY SameBulk DEF PartsInit
  <1>2. Here /\ [PartsNext]_partVars => Here' /\ [OfAccounts!Several!Next]_OfAccounts!Several!vars
    <2>1. Several!vars' = OfAccounts!Several!vars'
      BY Zenon DEF Several!vars, Several!router, Several!store, OfAccounts!Several!vars,
         OfAccounts!Several!router, OfAccounts!Several!store
    <2>2. Here /\ PartsNext => Here' /\ Several!Next
      BY DEF PartsNext, Elsewhere
    <2>3. UNCHANGED partVars => UNCHANGED Several!vars
      BY DEF partVars, Several!vars, Several!router, Several!store
    <2>4. QED
      BY <2>1, <2>2, <2>3, SameBulk, SameBulkSteps DEF partVars
  <1>3. QED
    BY <1>1, <1>2, PTL DEF PartsSpec, OfAccounts!Several!Spec

\* A bulk request answers with all it changed, says verified of what is, and the
\* store follows the router (app.py 6656-6818, 6990-7160).
THEOREM BulkIsTold == PartsSpec => BulkIsReported
  <1> DEFINE Here == part = "bulk"
  <1>1. ~Here /\ [PartsNext]_partVars => ~Here'
    BY OtherParts
  <1>2. OfAccounts!Several!BulkAssumption /\ MaxBulkRequests \in Nat /\ MaxBulkMishaps \in Nat
    BY HandlersAssumption DEF Several!BulkAssumption, OfAccounts!Several!BulkAssumption
  <1>3. OfAccounts!Several!TypeOK /\ OfAccounts!Several!ChangesAreReported
        => Several!TypeOK /\ Several!ChangesAreReported
    BY SameBulk
  <1>4. /\ Here /\ [PartsNext]_partVars
        /\ [OfAccounts!Several!VerifiedWhenSaidStep]_OfAccounts!Several!vars
        /\ [OfAccounts!Several!StoreFollowsRouterStep]_OfAccounts!Several!vars
        => [Here => Several!VerifiedWhenSaidStep /\ Several!StoreFollowsRouterStep]_partVars
    <2>1. Several!vars' = OfAccounts!Several!vars'
      BY Zenon DEF Several!vars, Several!router, Several!store, OfAccounts!Several!vars,
         OfAccounts!Several!router, OfAccounts!Several!store
    <2>2. Here /\ PartsNext /\ UNCHANGED Several!vars => UNCHANGED partVars
      BY DEF PartsNext, Elsewhere, partVars, vars, Several!vars, Several!router, Several!store,
         Kept15, Kept13, Kept12, Kept11
    <2>3. QED
      BY <2>1, <2>2, SameBulk
  <1>5. ~Here /\ [PartsNext]_partVars
        => [Here => Several!VerifiedWhenSaidStep /\ Several!StoreFollowsRouterStep]_partVars
    OBVIOUS
  <1>6. QED
    BY <1>1, <1>2, <1>3, <1>4, <1>5, BulkPart, OfAccounts!BulkHasTypes,
       OfAccounts!OutcomesTellAll, OfAccounts!VerifiedIsSo, OfAccounts!StoreIsBehind, PTL DEF
       PartsSpec, BulkIsReported, OfAccounts!Several!VerifiedWhenSaid,
       OfAccounts!Several!StoreFollowsRouter

LEMMA SameProvisioningSteps == Profile!Next <=> OfAccounts!Prov!Next
  BY Zenon DEF
     Profile!router, Profile!NoBaseline, Profile!NoProfile, Profile!Fresh, Profile!Mishap,
     Profile!Becomes, Profile!Failed, Profile!Read, Profile!Send, Profile!SendOrFail,
     Profile!CertBecomes, Profile!Written, Profile!Removed, Profile!Own, Profile!CaExports,
     Profile!Ids, Profile!Create, Profile!Locate, Profile!Sign, Profile!Trust, Profile!Export,
     Profile!Inventory, Profile!FindCa, Profile!DropCa, Profile!GoneCa, Profile!ExportCa,
     Profile!ReadCa, Profile!Baseline, Profile!ExportProfile, Profile!Matching, Profile!Identify,
     Profile!Verify, Profile!Unidentified, Profile!InventoryLeft, Profile!Ended,
     Profile!DropFile, Profile!GoneFile, Profile!FindCert, Profile!DropCert, Profile!GoneCert,
     Profile!Body, Profile!Cleanup, Profile!Next, Profile!Cardinality, OfAccounts!Prov!router,
     OfAccounts!Prov!NoBaseline, OfAccounts!Prov!NoProfile, OfAccounts!Prov!Fresh,
     OfAccounts!Prov!Mishap, OfAccounts!Prov!Becomes, OfAccounts!Prov!Failed,
     OfAccounts!Prov!Read, OfAccounts!Prov!Send, OfAccounts!Prov!SendOrFail,
     OfAccounts!Prov!CertBecomes, OfAccounts!Prov!Written, OfAccounts!Prov!Removed,
     OfAccounts!Prov!Own, OfAccounts!Prov!CaExports, OfAccounts!Prov!Ids, OfAccounts!Prov!Create,
     OfAccounts!Prov!Locate, OfAccounts!Prov!Sign, OfAccounts!Prov!Trust, OfAccounts!Prov!Export,
     OfAccounts!Prov!Inventory, OfAccounts!Prov!FindCa, OfAccounts!Prov!DropCa,
     OfAccounts!Prov!GoneCa, OfAccounts!Prov!ExportCa, OfAccounts!Prov!ReadCa,
     OfAccounts!Prov!Baseline, OfAccounts!Prov!ExportProfile, OfAccounts!Prov!Matching,
     OfAccounts!Prov!Identify, OfAccounts!Prov!Verify, OfAccounts!Prov!Unidentified,
     OfAccounts!Prov!InventoryLeft, OfAccounts!Prov!Ended, OfAccounts!Prov!DropFile,
     OfAccounts!Prov!GoneFile, OfAccounts!Prov!FindCert, OfAccounts!Prov!DropCert,
     OfAccounts!Prov!GoneCert, OfAccounts!Prov!Body, OfAccounts!Prov!Cleanup,
     OfAccounts!Prov!Next, OfAccounts!Prov!Cardinality

LEMMA SameProvisioning ==
  /\ (Profile!Init <=> OfAccounts!Prov!Init)
  /\ Profile!vars = OfAccounts!Prov!vars
  /\ (Profile!TypeOK <=> OfAccounts!Prov!TypeOK)
  /\ (Profile!ProfileIsOwn <=> OfAccounts!Prov!ProfileIsOwn)
  /\ (Profile!EndingsAreHonest <=> OfAccounts!Prov!EndingsAreHonest)
  /\ (Profile!OthersFilesStandStep <=> OfAccounts!Prov!OthersFilesStandStep)
  <1> USE DEF
       Profile!router, Profile!vars, Profile!NoBaseline, Profile!NoProfile, Profile!Stages,
       Profile!Results, Profile!File, Profile!TypeOK, Profile!Fresh, Profile!Init, Profile!Own,
       Profile!ProfileIsOwn, Profile!EndingsAreHonest, Profile!OthersFilesStandStep,
       OfAccounts!Prov!router, OfAccounts!Prov!vars, OfAccounts!Prov!NoBaseline,
       OfAccounts!Prov!NoProfile, OfAccounts!Prov!Stages, OfAccounts!Prov!Results,
       OfAccounts!Prov!File, OfAccounts!Prov!TypeOK, OfAccounts!Prov!Fresh, OfAccounts!Prov!Init,
       OfAccounts!Prov!Own, OfAccounts!Prov!ProfileIsOwn, OfAccounts!Prov!EndingsAreHonest,
       OfAccounts!Prov!OthersFilesStandStep
  <1>1. Profile!Init <=> OfAccounts!Prov!Init
    BY Zenon
  <1>2. Profile!vars = OfAccounts!Prov!vars
    BY Zenon
  <1>3. Profile!TypeOK <=> OfAccounts!Prov!TypeOK
    BY Zenon
  <1>4. Profile!ProfileIsOwn <=> OfAccounts!Prov!ProfileIsOwn
    BY Zenon
  <1>5. Profile!EndingsAreHonest <=> OfAccounts!Prov!EndingsAreHonest
    BY Zenon
  <1>6. Profile!OthersFilesStandStep <=> OfAccounts!Prov!OthersFilesStandStep
    BY Zenon
  <1>7. QED
    BY <1>1, <1>2, <1>3, <1>4, <1>5, <1>6, Zenon

LEMMA ProvisioningPart ==
  PartsSpec /\ part = "certificates" => OfAccounts!Prov!Spec /\ [](part = "certificates")
  <1> DEFINE Here == part = "certificates"
  <1>1. PartsInit /\ Here => OfAccounts!Prov!Init
    BY SameProvisioning DEF PartsInit
  <1>2. Here /\ [PartsNext]_partVars => Here' /\ [OfAccounts!Prov!Next]_OfAccounts!Prov!vars
    <2>1. Profile!vars' = OfAccounts!Prov!vars'
      BY Zenon DEF Profile!vars, Profile!router, OfAccounts!Prov!vars, OfAccounts!Prov!router
    <2>2. Here /\ PartsNext => Here' /\ Profile!Next
      BY DEF PartsNext, Elsewhere
    <2>3. UNCHANGED partVars => UNCHANGED Profile!vars
      BY DEF partVars, Profile!vars, Profile!router
    <2>4. QED
      BY <2>1, <2>2, <2>3, SameProvisioning, SameProvisioningSteps DEF partVars
  <1>3. QED
    BY <1>1, <1>2, PTL DEF PartsSpec, OfAccounts!Prov!Spec

\* A provisioning returns its own profile, says how it ended, and removes its own
\* files only (routeros.py 1040-1447).
THEOREM ProvisioningLeavesNothing == PartsSpec => ProvisioningIsClean
  <1> DEFINE Here == part = "certificates"
  <1>1. ~Here /\ [PartsNext]_partVars => ~Here'
    BY OtherParts
  <1>2. Nobody \notin Workers /\ MaxProfileMishaps \in Nat
    BY HandlersAssumption DEF Account!AccountAssumption
  <1>3. OfAccounts!Prov!TypeOK /\ OfAccounts!Prov!ProfileIsOwn /\
        OfAccounts!Prov!EndingsAreHonest
        => Profile!TypeOK /\ Profile!ProfileIsOwn /\ Profile!EndingsAreHonest
    BY SameProvisioning
  <1>4. /\ Here /\ [PartsNext]_partVars
        /\ [OfAccounts!Prov!OthersFilesStandStep]_OfAccounts!Prov!vars
        => [Here => Profile!OthersFilesStandStep]_partVars
    <2>1. Profile!vars' = OfAccounts!Prov!vars'
      BY Zenon DEF Profile!vars, Profile!router, OfAccounts!Prov!vars, OfAccounts!Prov!router
    <2>2. Here /\ PartsNext /\ UNCHANGED Profile!vars => UNCHANGED partVars
      BY DEF PartsNext, Elsewhere, partVars, vars, Profile!vars, Profile!router, Kept15, Kept13,
         Kept12, Kept11, Kept9, Kept7, Kept5
    <2>3. QED
      BY <2>1, <2>2, SameProvisioning
  <1>5. ~Here /\ [PartsNext]_partVars
        => [Here => Profile!OthersFilesStandStep]_partVars
    OBVIOUS
  <1>6. QED
    BY <1>1, <1>2, <1>3, <1>4, <1>5, ProvisioningPart, OfAccounts!ProvisioningHasTypes,
       OfAccounts!ReturnedProfileIsOwn, OfAccounts!EndingsSayWhatIsLeft,
       OfAccounts!OthersFilesAreLeft, PTL DEF PartsSpec, ProvisioningIsClean,
       OfAccounts!Prov!OthersFilesStand

LEMMA SameAccountsSteps == Account!Next <=> OfAccounts!Account!Next
  BY Zenon DEF
     Account!router, Account!store, Account!Ids, Account!Certs, Account!Gate, Account!Name,
     Account!IdKey, Account!Keys, Account!NoAccount, Account!Idle, Account!Mishap,
     Account!Smooth, Account!Owned, Account!Goes, Account!To, Account!Ends, Account!Reports,
     Account!Begins, Account!Holds, Account!Request, Account!Reading, Account!LoseLock,
     Account!Elsewhere, Account!AccountBecomes, Account!AccountAdded, Account!AccountGone,
     Account!CertRevoked, Account!Provision, Account!ReviewCreate, Account!FailsBy,
     Account!Fails, Account!Create, Account!EnsureRate, Account!PutAccount, Account!WhichId,
     Account!StoreSettings, Account!ProvisionFirst, Account!RecordFirst, Account!DeliverFirst,
     Account!StillOwned, Account!Noted, Account!At, Account!UndoCert, Account!UndoneCert,
     Account!UndoAccount, Account!Absent, Account!UndoFound, Account!Relist, Account!Recovery,
     Account!RateLeft, Account!Forget, Account!ReviewIssue, Account!Guarded, Account!Issue,
     Account!IssueRecord, Account!IssueDeliver, Account!IssueUndo, Account!IssueUndone,
     Account!IssueLocal, Account!ReviewDelete, Account!Disable, Account!Disabled,
     Account!ListTunnels, Account!Disconnect, Account!Disconnected, Account!RevokeNext,
     Account!RevokedNext, Account!DeleteAccount, Account!Gone, Account!Clear,
     Account!ReviewRevoke, Account!Revoke, Account!Revoked, Account!AdminAdds, Account!Connects,
     Account!Disconnects, Account!CreateStep, Account!IssueStep, Account!DeleteStep,
     Account!RevokeStep, Account!Next, OfAccounts!Account!router, OfAccounts!Account!store,
     OfAccounts!Account!Ids, OfAccounts!Account!Certs, OfAccounts!Account!Gate,
     OfAccounts!Account!Name, OfAccounts!Account!IdKey, OfAccounts!Account!Keys,
     OfAccounts!Account!NoAccount, OfAccounts!Account!Idle, OfAccounts!Account!Mishap,
     OfAccounts!Account!Smooth, OfAccounts!Account!Owned, OfAccounts!Account!Goes,
     OfAccounts!Account!To, OfAccounts!Account!Ends, OfAccounts!Account!Reports,
     OfAccounts!Account!Begins, OfAccounts!Account!Holds, OfAccounts!Account!Request,
     OfAccounts!Account!Reading, OfAccounts!Account!LoseLock, OfAccounts!Account!Elsewhere,
     OfAccounts!Account!AccountBecomes, OfAccounts!Account!AccountAdded,
     OfAccounts!Account!AccountGone, OfAccounts!Account!CertRevoked,
     OfAccounts!Account!Provision, OfAccounts!Account!ReviewCreate, OfAccounts!Account!FailsBy,
     OfAccounts!Account!Fails, OfAccounts!Account!Create, OfAccounts!Account!EnsureRate,
     OfAccounts!Account!PutAccount, OfAccounts!Account!WhichId, OfAccounts!Account!StoreSettings,
     OfAccounts!Account!ProvisionFirst, OfAccounts!Account!RecordFirst,
     OfAccounts!Account!DeliverFirst, OfAccounts!Account!StillOwned, OfAccounts!Account!Noted,
     OfAccounts!Account!At, OfAccounts!Account!UndoCert, OfAccounts!Account!UndoneCert,
     OfAccounts!Account!UndoAccount, OfAccounts!Account!Absent, OfAccounts!Account!UndoFound,
     OfAccounts!Account!Relist, OfAccounts!Account!Recovery, OfAccounts!Account!RateLeft,
     OfAccounts!Account!Forget, OfAccounts!Account!ReviewIssue, OfAccounts!Account!Guarded,
     OfAccounts!Account!Issue, OfAccounts!Account!IssueRecord, OfAccounts!Account!IssueDeliver,
     OfAccounts!Account!IssueUndo, OfAccounts!Account!IssueUndone, OfAccounts!Account!IssueLocal,
     OfAccounts!Account!ReviewDelete, OfAccounts!Account!Disable, OfAccounts!Account!Disabled,
     OfAccounts!Account!ListTunnels, OfAccounts!Account!Disconnect,
     OfAccounts!Account!Disconnected, OfAccounts!Account!RevokeNext,
     OfAccounts!Account!RevokedNext, OfAccounts!Account!DeleteAccount, OfAccounts!Account!Gone,
     OfAccounts!Account!Clear, OfAccounts!Account!ReviewRevoke, OfAccounts!Account!Revoke,
     OfAccounts!Account!Revoked, OfAccounts!Account!AdminAdds, OfAccounts!Account!Connects,
     OfAccounts!Account!Disconnects, OfAccounts!Account!CreateStep, OfAccounts!Account!IssueStep,
     OfAccounts!Account!DeleteStep, OfAccounts!Account!RevokeStep, OfAccounts!Account!Next

LEMMA SameAccounts ==
  /\ (Account!Init <=> OfAccounts!Account!Init)
  /\ Account!vars = OfAccounts!Account!vars
  /\ (Account!TypeOK <=> OfAccounts!Account!TypeOK)
  /\ (Account!DeletedIsGone <=> OfAccounts!Account!DeletedIsGone)
  /\ (Account!RecoveredTakesBack <=> OfAccounts!Account!RecoveredTakesBack)
  /\ (Account!RowsFollowRouter <=> OfAccounts!Account!RowsFollowRouter)
  /\ (Account!SettingsStay <=> OfAccounts!Account!SettingsStay)
  /\ (Account!ForeignAccountsStandStep <=> OfAccounts!Account!ForeignAccountsStandStep)
  /\ (Account!RateAsBeforeStep <=> OfAccounts!Account!RateAsBeforeStep)
  <1> USE DEF
       Account!store, Account!vars, Account!Ids, Account!Certs, Account!Gate, Account!Name,
       Account!IdKey, Account!Keys, Account!CreateStages, Account!IssueStages,
       Account!DeleteStages, Account!RevokeStages, Account!Verdicts, Account!TypeOK,
       Account!Idle, Account!Init, Account!DeletedIsGone, Account!SettingsStay,
       Account!RecoveredTakesBack, Account!RateAsBeforeStep, Account!RowsFollowRouter,
       Account!ForeignAccountsStandStep, OfAccounts!Account!store, OfAccounts!Account!vars,
       OfAccounts!Account!Ids, OfAccounts!Account!Certs, OfAccounts!Account!Gate,
       OfAccounts!Account!Name, OfAccounts!Account!IdKey, OfAccounts!Account!Keys,
       OfAccounts!Account!CreateStages, OfAccounts!Account!IssueStages,
       OfAccounts!Account!DeleteStages, OfAccounts!Account!RevokeStages,
       OfAccounts!Account!Verdicts, OfAccounts!Account!TypeOK, OfAccounts!Account!Idle,
       OfAccounts!Account!Init, OfAccounts!Account!DeletedIsGone,
       OfAccounts!Account!SettingsStay, OfAccounts!Account!RecoveredTakesBack,
       OfAccounts!Account!RateAsBeforeStep, OfAccounts!Account!RowsFollowRouter,
       OfAccounts!Account!ForeignAccountsStandStep
  <1>1. Account!Init <=> OfAccounts!Account!Init
    BY Zenon
  <1>2. Account!vars = OfAccounts!Account!vars
    BY Zenon
  <1>3. Account!TypeOK <=> OfAccounts!Account!TypeOK
    BY Zenon
  <1>4. Account!DeletedIsGone <=> OfAccounts!Account!DeletedIsGone
    BY Zenon
  <1>5. Account!RecoveredTakesBack <=> OfAccounts!Account!RecoveredTakesBack
    BY Zenon
  <1>6. Account!RowsFollowRouter <=> OfAccounts!Account!RowsFollowRouter
    BY Zenon
  <1>7. Account!SettingsStay <=> OfAccounts!Account!SettingsStay
    BY Zenon
  <1>8. Account!ForeignAccountsStandStep <=> OfAccounts!Account!ForeignAccountsStandStep
    BY Zenon
  <1>9. Account!RateAsBeforeStep <=> OfAccounts!Account!RateAsBeforeStep
    BY Zenon
  <1>10. QED
    BY <1>1, <1>2, <1>3, <1>4, <1>5, <1>6, <1>7, <1>8, <1>9, Zenon

LEMMA AccountsPart ==
  PartsSpec /\ part = "accounts" => OfAccounts!Account!Spec /\ [](part = "accounts")
  <1> DEFINE Here == part = "accounts"
  <1>1. PartsInit /\ Here => OfAccounts!Account!Init
    BY SameAccounts DEF PartsInit
  <1>2. Here /\ [PartsNext]_partVars => Here' /\ [OfAccounts!Account!Next]_OfAccounts!Account!vars
    <2>1. Account!vars' = OfAccounts!Account!vars'
      BY Zenon DEF Account!vars, Account!router, Account!store, OfAccounts!Account!vars,
         OfAccounts!Account!router, OfAccounts!Account!store
    <2>2. Here /\ PartsNext => Here' /\ Account!Next
      BY DEF PartsNext, Elsewhere
    <2>3. UNCHANGED partVars => UNCHANGED Account!vars
      BY DEF partVars, Account!vars, Account!router, Account!store
    <2>4. QED
      BY <2>1, <2>2, <2>3, SameAccounts, SameAccountsSteps DEF partVars
  <1>3. QED
    BY <1>1, <1>2, PTL DEF PartsSpec, OfAccounts!Account!Spec

\* What account workflows report is so, and what they undo was theirs (app.py
\* 5030-5247, 7565-8080).
THEOREM AccountsAreFollowed == PartsSpec => AccountsFollowRouter
  <1> DEFINE Here == part = "accounts"
  <1>1. ~Here /\ [PartsNext]_partVars => ~Here'
    BY OtherParts
  <1>2. OfAccounts!Account!AccountAssumption
    BY HandlersAssumption DEF Account!AccountAssumption, OfAccounts!Account!AccountAssumption
  <1>3. OfAccounts!Account!TypeOK /\ OfAccounts!Account!DeletedIsGone /\
        OfAccounts!Account!RecoveredTakesBack /\ OfAccounts!Account!RowsFollowRouter /\
        OfAccounts!Account!SettingsStay
        => Account!TypeOK /\ Account!DeletedIsGone /\ Account!RecoveredTakesBack /\
           Account!RowsFollowRouter /\ Account!SettingsStay
    BY SameAccounts
  <1>4. /\ Here /\ [PartsNext]_partVars
        /\ [OfAccounts!Account!ForeignAccountsStandStep]_OfAccounts!Account!vars
        /\ [OfAccounts!Account!RateAsBeforeStep]_OfAccounts!Account!vars
        => [Here => Account!ForeignAccountsStandStep /\ Account!RateAsBeforeStep]_partVars
    <2>1. Account!vars' = OfAccounts!Account!vars'
      BY Zenon DEF Account!vars, Account!router, Account!store, OfAccounts!Account!vars,
         OfAccounts!Account!router, OfAccounts!Account!store
    <2>2. Here /\ PartsNext /\ UNCHANGED Account!vars => UNCHANGED partVars
      BY DEF PartsNext, Elsewhere, partVars, vars, Account!vars, Account!router, Account!store,
         Kept15, Kept13
    <2>3. QED
      BY <2>1, <2>2, SameAccounts
  <1>5. ~Here /\ [PartsNext]_partVars
        => [Here => Account!ForeignAccountsStandStep /\ Account!RateAsBeforeStep]_partVars
    OBVIOUS
  <1>6. QED
    BY <1>1, <1>2, <1>3, <1>4, <1>5, AccountsPart, OfAccounts!AccountTyped,
       OfAccounts!DeletedStaysGone, OfAccounts!RecoveryIsVerified,
       OfAccounts!ClosedRowsAreRevoked, OfAccounts!SettingsOfRegistered,
       OfAccounts!ForeignAccountsAreLeft, OfAccounts!RateIsAsBefore, PTL DEF PartsSpec,
       AccountsFollowRouter, OfAccounts!Account!ForeignAccountsStand
=============================================================================
