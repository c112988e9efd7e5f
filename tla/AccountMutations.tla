-------------------------- MODULE AccountMutations --------------------------
(***************************************************************************)
(* The handlers of app.py that create a VPN account, issue a device        *)
(* profile for it, delete it, and revoke one device certificate.  Each is  *)
(* a sequence of RouterOS requests and dashboard writes with no            *)
(* transaction around it: any request may be refused, or take effect and   *)
(* lose its answer, any read may fail, a dashboard write may fail, and the *)
(* Redis lock may be lost on the way.  What a handler then does is part of *)
(* the model, with the verdict it reports.                                 *)
(*                                                                         *)
(* One VPN username.  Accounts that bear it at different times are told    *)
(* apart by their RouterOS ids.  provision_profile appears by what         *)
(* ProfileProvisioning shows of it, mutation_locks by what MutationLocks   *)
(* shows.  The assertion of a lock and the write it guards are one step.   *)
(***************************************************************************)
EXTENDS Naturals, FiniteSets

CONSTANTS Workers,     \* request threads
          Kinds,       \* requests the run sends
          Nobody,
          MaxRequests, MaxMishaps, MaxCerts,
          Tunnels      \* active sessions the account can have

VARIABLES account,  \* the PPP secret that bears the username; id 0: none
          rateSet,  \* the generated PPP rate profile exists with the limit
          tunnels,  \* its active sessions
          cert,     \* state of each client certificate on the router
          made,     \* the account each certificate was made for
          nextId,   \* the id RouterOS gives to the next account
          device,   \* the dashboard's device row of each certificate
          settings, \* the account whose email and controls are stored; 0: none
          registered, \* accounts whose creation was reported as a success
          holder,   \* who holds each lock
          req,      \* the request of each worker
          begun, mishaps

router == <<account, rateSet, tunnels, cert, made, nextId>>
store == <<device, settings>>
vars == <<account, rateSet, tunnels, cert, made, nextId, device, settings,
          registered, holder, req, begun, mishaps>>

AccountAssumption ==
  MaxRequests \in Nat /\ MaxMishaps \in Nat /\ MaxCerts \in Nat /\ Nobody \notin Workers

Ids == 1..(MaxRequests + 2)
Certs == 1..MaxCerts
Gate == <<"gate", 0>>
Name == <<"name", 0>>
IdKey(id) == <<"id", id>>
Keys == {Gate, Name} \cup {IdKey(id) : id \in Ids}
NoAccount == [id |-> 0, disabled |-> FALSE, by |-> Nobody]

CreateStages == {"rate", "put", "whichId", "store", "profile", "record", "deliver",
                 "undoCert", "undoneCert", "undoAccount", "absent", "undoFound",
                 "relist", "rateLeft", "forget"}
IssueStages == {"issue", "issueRecord", "issueDeliver", "issueUndo", "issueUndone",
                "issueLocal"}
DeleteStages == {"disable", "disabled", "listTunnels", "disconnect", "disconnected",
                 "revokeNext", "revokedNext", "deleteAccount", "gone", "clear"}
RevokeStages == {"revoke", "revoked"}
Verdicts == {"none", "success", "refused", "recovered", "partial", "unknown",
             "failed", "coordination"}

TypeOK ==
  /\ account \in [id : {0} \cup Ids, disabled : BOOLEAN, by : Workers \cup {Nobody}]
  /\ rateSet \in BOOLEAN
  /\ tunnels \subseteq Tunnels
  /\ cert \in [Certs -> {"none", "active", "revoked"}]
  /\ made \in [Certs -> {0} \cup Ids]
  /\ nextId \in 2..(MaxRequests + 3)
  /\ device \in [Certs -> {"none", "active", "revoked"}]
  /\ settings \in {0} \cup Ids
  /\ registered \subseteq Ids
  /\ holder \in [Keys -> Workers \cup {Nobody}]
  /\ req \in [Workers ->
       [kind : Kinds \cup {"none"},
        at : {"idle"} \cup CreateStages \cup IssueStages \cup DeleteStages \cup RevokeStages,
        keys : SUBSET Keys, id : {0} \cup Ids, cert : {0} \cup Certs,
        todo : SUBSET Certs, listed : SUBSET Tunnels, rate : BOOLEAN,
        rateBefore : BOOLEAN, confirmed : BOOLEAN, lost : BOOLEAN,
        certCleanup : {"verified", "mismatch", "unknown"},
        absent : {"yes", "no", "unknown"}, recovery : Verdicts, verdict : Verdicts]]
  /\ begun \in 0..MaxRequests
  /\ mishaps \in 0..MaxMishaps

Idle == [kind |-> "none", at |-> "idle", keys |-> {}, id |-> 0, cert |-> 0,
         todo |-> {}, listed |-> {}, rate |-> FALSE, rateBefore |-> FALSE,
         confirmed |-> FALSE, lost |-> FALSE, certCleanup |-> "verified",
         absent |-> "unknown", recovery |-> "none", verdict |-> "none"]

\* An account with one managed device, created by an earlier request.
Init ==
  /\ account = [id |-> 1, disabled |-> FALSE, by |-> Nobody]
  /\ rateSet \in BOOLEAN
  /\ tunnels = Tunnels
  /\ cert = [c \in Certs |-> IF c = 1 THEN "active" ELSE "none"]
  /\ made = [c \in Certs |-> IF c = 1 THEN 1 ELSE 0]
  /\ device = [c \in Certs |-> IF c = 1 THEN "active" ELSE "none"]
  /\ nextId = 2
  /\ settings = 1
  /\ registered = {1}
  /\ holder = [k \in Keys |-> Nobody]
  /\ req = [w \in Workers |-> Idle]
  /\ begun = 0 /\ mishaps = 0

-----------------------------------------------------------------------------
(* Steps of a handler.                                                     *)

Mishap == mishaps < MaxMishaps /\ mishaps' = mishaps + 1
Smooth == UNCHANGED mishaps

Owned(w) == \A k \in req[w].keys : holder[k] = w
Goes(w, r) == /\ req' = [req EXCEPT ![w] = r]
              /\ UNCHANGED <<holder, begun, registered>>
To(w, stage) == Goes(w, [req[w] EXCEPT !.at = stage])

\* The handler reports and leaves its locks.
Ends(w, verdict) ==
  /\ req' = [req EXCEPT ![w].at = "idle", ![w].verdict = verdict, ![w].keys = {}]
  /\ holder' = [k \in Keys |-> IF holder[k] = w THEN Nobody ELSE holder[k]]
  /\ UNCHANGED begun

Reports(w, verdict) == Ends(w, verdict) /\ UNCHANGED registered

Begins(w, kind, keys, r) ==
  /\ req[w].at = "idle" /\ begun < MaxRequests /\ kind \in Kinds
  /\ \A k \in keys : holder[k] = Nobody
  /\ begun' = begun + 1
  /\ req' = [req EXCEPT ![w] = r]

Holds(w, keys) == holder' = [k \in Keys |-> IF k \in keys THEN w ELSE holder[k]]

\* A change request: performed, performed and unanswered, or refused.
\* After is what the handler does with an answer, Broken with an error.
Request(Effect, After, Broken) ==
  \/ Effect /\ After /\ Smooth
  \/ (Effect \/ UNCHANGED router) /\ Broken /\ Mishap

Reading(After, Broken) ==
  UNCHANGED <<router, store>> /\ ((After /\ Smooth) \/ (Broken /\ Mishap))

\* Coordination lost: noticed at the next assertion.
LoseLock(w) ==
  /\ req[w].keys # {} /\ Owned(w)
  /\ \E k \in req[w].keys : holder' = [holder EXCEPT ![k] = Nobody]
  /\ Mishap
  /\ UNCHANGED <<router, store, registered, req, begun>>

Elsewhere == UNCHANGED <<rateSet, tunnels>>
AccountBecomes(a) == account' = a /\ Elsewhere /\ UNCHANGED <<cert, made>>
AccountAdded(by) ==
  /\ AccountBecomes([id |-> nextId, disabled |-> FALSE, by |-> by])
  /\ nextId' = nextId + 1
AccountGone(id) ==
  /\ AccountBecomes(IF account.id = id THEN NoAccount ELSE account)
  /\ UNCHANGED nextId
\* Mutant: the certificate is removed from the router's inventory.
CertRemoved(c) ==
  /\ cert' = [cert EXCEPT ![c] = "removed"]
  /\ Elsewhere /\ UNCHANGED <<account, made, nextId>>
CertRevoked(c) ==
  /\ cert' = [cert EXCEPT ![c] = IF @ = "active" THEN "revoked" ELSE @]
  /\ Elsewhere /\ UNCHANGED <<account, made, nextId>>

\* provision_profile: a certificate and its profile, or an error after which
\* nothing is left, or one after which the certificate may be left.
Provision(w, next, Broken) ==
  \E c \in Certs :
    LET Made == /\ cert' = [cert EXCEPT ![c] = "active"]
                /\ made' = [made EXCEPT ![c] = req[w].id]
                /\ Elsewhere /\ UNCHANGED <<account, nextId>>
    IN /\ cert[c] = "none" /\ \A d \in Certs : d < c => cert[d] # "none"
       /\ \/ Made /\ Goes(w, [req[w] EXCEPT !.cert = c, !.at = next]) /\ Smooth
          \/ (Made \/ UNCHANGED router) /\ Broken /\ Mishap

-----------------------------------------------------------------------------
(* Creating an account: _provision_user, under the gate and the username.  *)

\* The review is repeated under the locks: the name must be free.
ReviewCreate(w) ==
  \E rate \in BOOLEAN :
    /\ account.id = 0
    /\ Begins(w, "create", {Gate, Name},
         [Idle EXCEPT !.kind = "create", !.keys = {Gate, Name}, !.rate = rate,
                      !.rateBefore = rateSet, !.at = IF rate THEN "rate" ELSE "put"])
    /\ Holds(w, {Gate, Name})
    /\ UNCHANGED <<router, store, registered, mishaps>>

\* Any exception; a lost lock is told apart from the others.
FailsBy(w, lost) ==
  Goes(w, [req[w] EXCEPT !.lost = lost,
                         !.at = IF req[w].cert # 0 THEN "undoCert" ELSE "undoAccount"])
Fails(w) == FailsBy(w, FALSE)

Create(w, stage, Step) ==
  /\ req[w].kind = "create" /\ req[w].at = stage
  /\ IF Owned(w) THEN Step
     ELSE FailsBy(w, TRUE) /\ UNCHANGED <<router, store, mishaps>>

\* ensure_rate_profile reads the limit back, so a lost answer does no harm.
EnsureRate(w) ==
  LET Set == /\ rateSet' = TRUE
             /\ UNCHANGED <<account, tunnels, cert, made, nextId>>
  IN Create(w, "rate",
       /\ UNCHANGED store
       /\ Request(Set, To(w, "put"), Fails(w)))

\* PUT /ppp/secret: refused when the name is taken.  The answer may lack the id.
PutAccount(w) == Create(w, "put",
  /\ UNCHANGED store
  /\ IF account.id # 0 THEN UNCHANGED <<router, mishaps>> /\ Fails(w)
     ELSE \E told \in BOOLEAN :
            Request(AccountAdded(w),
              Goes(w, [req[w] EXCEPT !.confirmed = TRUE, !.id = IF told THEN nextId ELSE 0,
                                     !.at = IF told THEN "store" ELSE "whichId"]),
              Fails(w)))

WhichId(w) == Create(w, "whichId",
  Reading(IF account.id # 0
          THEN Goes(w, [req[w] EXCEPT !.id = account.id, !.at = "store"])
          ELSE Fails(w),
          Fails(w)))

StoreSettings(w) == Create(w, "store",
  /\ UNCHANGED <<router, device>>
  /\ \/ settings' = req[w].id /\ To(w, "profile") /\ Smooth
     \/ settings' \in {settings, req[w].id} /\ Fails(w) /\ Mishap)

ProvisionFirst(w) == Create(w, "profile",
  /\ UNCHANGED store
  /\ Provision(w, "record", \E lost \in BOOLEAN : FailsBy(w, lost)))

RecordFirst(w) ==
  LET Row == device' = [device EXCEPT ![req[w].cert] = "active"] IN
  Create(w, "record",
    /\ UNCHANGED <<router, settings>>
    /\ \/ Row /\ To(w, "deliver") /\ Smooth
       \/ (Row \/ UNCHANGED device) /\ Fails(w) /\ Mishap)

\* The success is audited, then the profile is sent.
DeliverFirst(w) == Create(w, "deliver",
  /\ UNCHANGED <<router, store>>
  /\ \/ /\ Ends(w, "success") /\ registered' = registered \cup {req[w].id} /\ Smooth
     \/ Fails(w) /\ Mishap)

-----------------------------------------------------------------------------
(* The compensation in _provision_user.                                    *)

\* cleanup_lock_owned: once lost, always lost.
StillOwned(w) == ~req[w].lost /\ Owned(w)
Noted(w) == [req[w] EXCEPT !.lost = ~StillOwned(w)]
At(w, stage) == req[w].kind = "create" /\ req[w].at = stage

UndoCert(w) ==
  LET next == [Noted(w) EXCEPT !.at = "undoneCert"] IN
  /\ At(w, "undoCert") /\ UNCHANGED store
  /\ IF StillOwned(w) THEN Request(CertRevoked(req[w].cert), Goes(w, next), Goes(w, next))
     ELSE /\ Goes(w, [Noted(w) EXCEPT !.certCleanup = "unknown", !.at = "undoAccount"])
          /\ UNCHANGED <<router, mishaps>>

\* Mutant: an accepted revocation is taken for a verified one.
UndoneUnread(w) ==
  /\ At(w, "undoneCert")
  /\ Goes(w, [Noted(w) EXCEPT !.certCleanup = "verified", !.at = "undoAccount"])
  /\ UNCHANGED <<router, store, mishaps>>
UndoneCert(w) ==
  LET next(c) == [Noted(w) EXCEPT !.certCleanup = c, !.at = "undoAccount"] IN
  /\ At(w, "undoneCert")
  /\ Reading(Goes(w, next(IF cert[req[w].cert] = "revoked" THEN "verified" ELSE "mismatch")),
             Goes(w, next("unknown")))

\* Only an account whose id is known is deleted.
UndoAccount(w) ==
  LET next == [Noted(w) EXCEPT !.at = "absent"] IN
  /\ At(w, "undoAccount") /\ UNCHANGED store
  /\ IF req[w].id # 0 /\ StillOwned(w)
     THEN Request(AccountGone(req[w].id), Goes(w, next), Goes(w, next))
     ELSE Goes(w, next) /\ UNCHANGED <<router, mishaps>>

\* Mutant: an account of that name is taken for the one that was asked for.
AbsentByName(w) ==
  LET next(yes) == [req[w] EXCEPT !.absent = yes, !.at = "rateLeft"] IN
  /\ At(w, "absent")
  /\ Reading(IF req[w].id # 0
             THEN Goes(w, next(IF account.id = req[w].id THEN "no" ELSE "yes"))
             ELSE IF account.id = 0 THEN Goes(w, next("yes"))
             ELSE Goes(w, [req[w] EXCEPT !.id = account.id, !.at = "undoFound"]),
             Goes(w, next("unknown")))

\* list_ovpn_users decides: by the id when it is known, else by the name.  An
\* account found by its name is deleted only when its creation was confirmed.
Absent(w) ==
  LET next(yes) == [req[w] EXCEPT !.absent = yes, !.at = "rateLeft"] IN
  /\ At(w, "absent")
  /\ Reading(CASE req[w].id # 0 ->
                    Goes(w, next(IF account.id = req[w].id THEN "no" ELSE "yes"))
               [] account.id = 0 -> Goes(w, next("yes"))
               [] ~req[w].confirmed -> Goes(w, next("no"))
               [] OTHER -> Goes(w, [req[w] EXCEPT !.id = account.id, !.at = "undoFound"]),
             Goes(w, next("unknown")))

UndoFound(w) ==
  LET next == [Noted(w) EXCEPT !.absent = "no", !.at = "relist"] IN
  /\ At(w, "undoFound") /\ UNCHANGED store
  /\ IF StillOwned(w) THEN Request(AccountGone(req[w].id), Goes(w, next), Goes(w, next))
     ELSE /\ Goes(w, [Noted(w) EXCEPT !.absent = "unknown", !.at = "rateLeft"])
          /\ UNCHANGED <<router, mishaps>>

Relist(w) ==
  LET next(r, yes) == Goes(w, [r EXCEPT !.absent = yes, !.at = "rateLeft"]) IN
  /\ At(w, "relist")
  /\ IF StillOwned(w)
     THEN Reading(next(req[w], IF account.id = 0 THEN "yes" ELSE "no"),
                  next(req[w], "unknown"))
     ELSE next(Noted(w), "no") /\ UNCHANGED <<router, store, mishaps>>

Recovery(w) ==
  CASE req[w].absent = "yes" /\ req[w].certCleanup = "verified" -> "recovered"
    [] req[w].absent = "unknown" \/ req[w].certCleanup = "unknown" -> "unknown"
    [] OTHER -> "partial"

\* A rate profile is shared with other accounts: it is compared, not removed.
RateLeft(w) ==
  LET next(r) == Goes(w, [req[w] EXCEPT !.recovery = r, !.at = "forget"]) IN
  /\ At(w, "rateLeft")
  /\ IF req[w].rate
     THEN Reading(next(IF rateSet = req[w].rateBefore THEN Recovery(w)
                       ELSE IF Recovery(w) = "unknown" THEN "unknown" ELSE "partial"),
                  next("unknown"))
     ELSE next(Recovery(w)) /\ UNCHANGED <<router, store, mishaps>>

\* Stored settings go only after a verified recovery.
Forget(w) ==
  /\ At(w, "forget")
  /\ IF req[w].recovery = "recovered" /\ StillOwned(w)
     THEN settings' = 0 ELSE UNCHANGED settings
  /\ Reports(w, IF req[w].lost \/ (req[w].recovery = "recovered" /\ ~Owned(w))
                THEN "coordination" ELSE req[w].recovery)
  /\ UNCHANGED <<router, device, mishaps>>

-----------------------------------------------------------------------------
(* Issuing a profile: _create_profile, under the account's lock.           *)

ReviewIssue(w) ==
  /\ account.id # 0 /\ holder[Gate] = Nobody
  /\ Begins(w, "issue", {IdKey(account.id)},
       [Idle EXCEPT !.kind = "issue", !.keys = {IdKey(account.id)}, !.id = account.id,
                    !.at = "issue"])
  /\ Holds(w, {IdKey(account.id)})
  /\ UNCHANGED <<router, store, registered, mishaps>>

\* A lost lock ends the request where it stands, without cleanup.
Guarded(w, stage, Step) ==
  /\ req[w].at = stage
  /\ IF Owned(w) THEN Step
     ELSE Reports(w, "coordination") /\ UNCHANGED <<router, store, mishaps>>

Issue(w) == Guarded(w, "issue",
  /\ UNCHANGED store
  /\ Provision(w, "issueRecord", Reports(w, "failed")))

IssueRecord(w) ==
  LET Row == device' = [device EXCEPT ![req[w].cert] = "active"] IN
  /\ req[w].at = "issueRecord"
  /\ UNCHANGED <<router, settings>>
  /\ IF Owned(w)
     THEN \/ Row /\ To(w, "issueDeliver") /\ Smooth
          \/ (Row \/ UNCHANGED device) /\ To(w, "issueUndo") /\ Mishap
     ELSE To(w, "issueUndo") /\ UNCHANGED <<device, mishaps>>

IssueDeliver(w) == Guarded(w, "issueDeliver",
  /\ UNCHANGED <<router, store>>
  /\ \/ Reports(w, "success") /\ Smooth
     \/ Reports(w, "failed") /\ Mishap)

IssueUndo(w) == Guarded(w, "issueUndo",
  /\ UNCHANGED store
  /\ Request(CertRevoked(req[w].cert), To(w, "issueUndone"),
             Goes(w, [req[w] EXCEPT !.certCleanup = "unknown", !.at = "issueUndone"])))

\* Read-back decides; the row is closed only when the router confirms.  After an
\* answer the lock is asserted before the read.
IssueUndone(w) ==
  LET next(c) == [req[w] EXCEPT !.certCleanup = c, !.at = "issueLocal"] IN
  /\ req[w].at = "issueUndone"
  /\ \/ /\ ~Owned(w) /\ req[w].certCleanup = "verified"
        /\ Reports(w, "coordination") /\ UNCHANGED <<router, store, mishaps>>
     \/ Reading(Goes(w, next(IF cert[req[w].cert] = "revoked" THEN "verified" ELSE "mismatch")),
                Goes(w, next("unknown")))

IssueLocal(w) ==
  LET c == req[w].cert
      verified == req[w].certCleanup = "verified"
  IN /\ req[w].at = "issueLocal"
     /\ \/ /\ verified /\ device[c] = "active" /\ Owned(w)
           /\ device' = [device EXCEPT ![c] = "revoked"]
           /\ Reports(w, "recovered") /\ Smooth
        \/ /\ ~(verified /\ device[c] = "active" /\ Owned(w))
           /\ UNCHANGED device
           /\ Reports(w, IF verified /\ device[c] # "active" THEN "recovered" ELSE "unknown")
           /\ Smooth
        \/ UNCHANGED device /\ Reports(w, "unknown") /\ Mishap
     /\ UNCHANGED <<router, settings>>

-----------------------------------------------------------------------------
(* Deleting the account: _delete_user, under its id and its name.          *)

\* Every managed certificate must be active on the router.
ReviewDelete(w) ==
  LET mine == {c \in Certs : device[c] = "active"}
      keys == {IdKey(account.id), Name}
  IN /\ account.id # 0
     /\ holder[Gate] = Nobody
     /\ \A c \in mine : cert[c] = "active"
     /\ Begins(w, "delete", keys,
          [Idle EXCEPT !.kind = "delete", !.keys = keys, !.id = account.id,
                       !.todo = mine, !.at = IF account.disabled THEN "listTunnels"
                                             ELSE "disable"])
     /\ Holds(w, keys)
     /\ UNCHANGED <<router, store, registered, mishaps>>

\* One try covers the change and its read-back.
Disable(w) ==
  LET Off == IF account.id = req[w].id
             THEN AccountBecomes([account EXCEPT !.disabled = TRUE]) /\ UNCHANGED nextId
             ELSE UNCHANGED router
  IN Guarded(w, "disable",
       UNCHANGED store /\ Request(Off, To(w, "disabled"), Reports(w, "unknown")))

Disabled(w) ==
  /\ req[w].at = "disabled"
  /\ Reading(CASE account.id # req[w].id -> Reports(w, "unknown")
               [] ~account.disabled -> Reports(w, "failed")
               [] OTHER -> To(w, "listTunnels"),
             Reports(w, "unknown"))

ListTunnels(w) ==
  /\ req[w].at = "listTunnels"
  /\ Reading(Goes(w, [req[w] EXCEPT !.listed = tunnels, !.at = "disconnect"]),
             Reports(w, "unknown"))

\* Errors of single DELETEs are passed over.
Disconnect(w) ==
  Guarded(w, "disconnect",
    /\ UNCHANGED <<store, account, rateSet, cert, made, nextId>>
    /\ \/ tunnels' = tunnels \ req[w].listed /\ Smooth
       \/ \E ended \in SUBSET req[w].listed : tunnels' = tunnels \ ended /\ Mishap
    /\ To(w, "disconnected"))

Disconnected(w) ==
  /\ req[w].at = "disconnected"
  /\ Reading(IF ~Owned(w) THEN Reports(w, "coordination")
             ELSE IF tunnels # {} THEN Reports(w, "partial")
             ELSE To(w, "revokeNext"),
             Reports(w, "unknown"))

RevokeNext(w) ==
  \/ /\ req[w].at = "revokeNext" /\ req[w].todo = {}
     /\ To(w, "deleteAccount") /\ UNCHANGED <<router, store, mishaps>>
  \/ /\ req[w].todo # {}
     /\ Guarded(w, "revokeNext",
          LET c == CHOOSE c \in req[w].todo : \A d \in req[w].todo : c >= d
              next == Goes(w, [req[w] EXCEPT !.cert = c, !.at = "revokedNext"])
          IN UNCHANGED store /\ Request(CertRevoked(c), next, next))

\* Mutant: the row is closed when the request was sent.
ClosedUnread(w) ==
  /\ req[w].at = "revokedNext"
  /\ device' = [device EXCEPT ![req[w].cert] = "revoked"]
  /\ Goes(w, [req[w] EXCEPT !.todo = @ \ {req[w].cert}, !.at = "revokeNext"])
  /\ UNCHANGED <<router, settings, mishaps>>

RevokedNext(w) ==
  LET c == req[w].cert IN
  /\ req[w].at = "revokedNext"
  /\ UNCHANGED <<router, settings>>
  /\ \/ /\ cert[c] = "revoked"
        /\ device' = [device EXCEPT ![c] = "revoked"]
        /\ Goes(w, [req[w] EXCEPT !.todo = @ \ {c}, !.at = "revokeNext"])
        /\ Smooth
     \/ cert[c] # "revoked" /\ Reports(w, "partial") /\ Smooth /\ UNCHANGED device
     \/ Reports(w, "unknown") /\ Mishap /\ UNCHANGED device

DeleteAccount(w) == Guarded(w, "deleteAccount",
  /\ UNCHANGED store
  /\ Request(AccountGone(req[w].id), To(w, "gone"), To(w, "gone")))

\* Mutant: an answer is enough.
GoneUnread(w) ==
  req[w].at = "gone" /\ To(w, "clear") /\ UNCHANGED <<router, store, mishaps>>

\* Absent means neither the id nor the name is listed.
Gone(w) ==
  /\ req[w].at = "gone"
  /\ Reading(IF account.id # 0 THEN Reports(w, "failed") ELSE To(w, "clear"),
             Reports(w, "unknown"))

\* Mutant: the locks are not asserted again.
ClearUnowned(w) ==
  /\ req[w].at = "clear" /\ settings' = 0 /\ Reports(w, "success")
  /\ UNCHANGED <<router, device, mishaps>>

Clear(w) == Guarded(w, "clear",
  /\ settings' = 0
  /\ Reports(w, "success")
  /\ UNCHANGED <<router, device, mishaps>>)

-----------------------------------------------------------------------------
(* Revoking one device certificate: _revoke_device, which takes no lock.   *)

ReviewRevoke(w) ==
  \E c \in Certs :
    /\ device[c] = "active" /\ cert[c] = "active"
    /\ Begins(w, "revoke", {}, [Idle EXCEPT !.kind = "revoke", !.cert = c, !.at = "revoke"])
    /\ UNCHANGED <<router, store, registered, holder, mishaps>>

Revoke(w) ==
  /\ req[w].at = "revoke" /\ UNCHANGED store
  /\ Request(CertRevoked(req[w].cert), To(w, "revoked"), To(w, "revoked"))

Revoked(w) ==
  LET c == req[w].cert IN
  /\ req[w].at = "revoked"
  /\ UNCHANGED <<router, settings>>
  /\ \/ /\ cert[c] = "revoked"
        /\ device' = [device EXCEPT ![c] = "revoked"]
        /\ Reports(w, "success") /\ Smooth
     \/ cert[c] # "revoked" /\ Reports(w, "failed") /\ Smooth /\ UNCHANGED device
     \/ Reports(w, "unknown") /\ Mishap /\ UNCHANGED device

-----------------------------------------------------------------------------
(* Beside the dashboard: another administrator, and the VPN client.        *)

AdminAdds ==
  /\ account.id = 0 /\ Mishap
  /\ AccountAdded(Nobody)
  /\ UNCHANGED <<store, registered, holder, req, begun>>

Connects(t) ==
  /\ account.id # 0 /\ ~account.disabled /\ t \notin tunnels
  /\ tunnels' = tunnels \cup {t}
  /\ UNCHANGED <<account, rateSet, cert, made, nextId, store, registered, holder, req,
                 begun, mishaps>>

Disconnects(t) ==
  /\ t \in tunnels
  /\ tunnels' = tunnels \ {t}
  /\ UNCHANGED <<account, rateSet, cert, made, nextId, store, registered, holder, req,
                 begun, mishaps>>

-----------------------------------------------------------------------------
CreateStep(w) ==
  \/ ReviewCreate(w) \/ EnsureRate(w) \/ PutAccount(w) \/ WhichId(w)
  \/ StoreSettings(w) \/ ProvisionFirst(w) \/ RecordFirst(w) \/ DeliverFirst(w)
  \/ UndoCert(w) \/ UndoneCert(w) \/ UndoAccount(w) \/ Absent(w) \/ UndoFound(w)
  \/ Relist(w) \/ RateLeft(w) \/ Forget(w)

IssueStep(w) ==
  \/ ReviewIssue(w) \/ Issue(w) \/ IssueRecord(w) \/ IssueDeliver(w)
  \/ IssueUndo(w) \/ IssueUndone(w) \/ IssueLocal(w)

DeleteStep(w) ==
  \/ ReviewDelete(w) \/ Disable(w) \/ Disabled(w) \/ ListTunnels(w)
  \/ Disconnect(w) \/ Disconnected(w) \/ RevokeNext(w) \/ RevokedNext(w)
  \/ DeleteAccount(w) \/ Gone(w) \/ Clear(w)

RevokeStep(w) == ReviewRevoke(w) \/ Revoke(w) \/ Revoked(w)

Next ==
  \/ \E w \in Workers :
       CreateStep(w) \/ IssueStep(w) \/ DeleteStep(w) \/ RevokeStep(w) \/ LoseLock(w)
  \/ AdminAdds
  \/ \E t \in Tunnels : Connects(t) \/ Disconnects(t)

Spec == Init /\ [][Next]_vars

-----------------------------------------------------------------------------
\* A deletion reported as success left no such account, and every managed
\* certificate made for it is revoked on the router and in the dashboard
\* (docs/MUTATION_SAFETY.md, "Delete account").
DeletedIsGone ==
  \A w \in Workers : req[w].kind = "delete" /\ req[w].verdict = "success" =>
    /\ account.id # req[w].id
    /\ \A c \in Certs : made[c] = req[w].id /\ device[c] # "none" =>
          cert[c] = "revoked" /\ device[c] = "revoked"

\* The settings of an account that was created and reported are not taken
\* away by the cleanup of another request: neither by the deletion of an
\* earlier account of that name nor by a failed creation (app.py:5245, 7924).
SettingsStay ==
  account.id \in registered => settings = account.id

\* A failed creation that reports its recovery as verified removed the
\* account it made and revoked the certificate it was handed, if it was
\* handed one (app.py:5137-5251).  When provision_profile itself fails and
\* leaves an active certificate behind, there is none to revoke: the recovery
\* is called verified all the same (app.py:5149, where profile is None), and
\* this property does not say that no certificate is left.
RecoveredTakesBack ==
  \A w \in Workers : req[w].kind = "create" /\ req[w].verdict = "recovered" =>
    /\ account.id # 0 => account.by # w
    /\ req[w].cert # 0 => cert[req[w].cert] = "revoked"

\* When a creation that set a rate is reported as recovered, the rate profile
\* is as it was found (app.py:5215-5240).
RateAsBeforeStep ==
  \A w \in Workers :
     (/\ req[w].kind = "create" /\ req[w].rate /\ req[w].at = "forget"
      /\ req'[w].verdict = "recovered") => rateSet' = req[w].rateBefore

\* A device row is closed only after the router confirmed the revocation.
RowsFollowRouter == \A c \in Certs : device[c] = "revoked" => cert[c] = "revoked"

\* Compensation removes no account another administrator made
\* (app.py:5194, "an account whose ownership cannot be proven").
ForeignAccountsStandStep ==
  \A w \in Workers :
     (/\ req[w].kind = "create" /\ req[w] # req'[w]
      /\ account.id # 0 /\ account'.id # account.id) => account.by = w
ForeignAccountsStand == [][ForeignAccountsStandStep]_vars
=============================================================================
