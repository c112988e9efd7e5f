----------------------- MODULE AutomationEnforcement ------------------------
(***************************************************************************)
(* The automation worker's control of one VPN account: automation.py       *)
(* (_telemetry_loop, _apply_automation_access) disables it while its       *)
(* expiry, quota or schedule forbids access, ends its sessions and enables *)
(* it again, beside operators who suspend, restore and edit it through the *)
(* dashboard (app.py) and directly on the router.                          *)
(*                                                                         *)
(* One action is one call to RouterOS or one SQLite transaction.  The      *)
(* worker and the operators' requests hold the account's lock, which       *)
(* ReviewCoordination models; direct edits, the clock and crashes do not   *)
(* wait for it.                                                            *)
(***************************************************************************)
EXTENDS Naturals, FiniteSets

CONSTANTS
    Policies,       \* the restrictions that may come to apply, of Reasons
    Sessions,       \* VPN connections the account may have
    Jobs,           \* what operators do, of AllJobs
    MaxEdits,       \* bound on operators' jobs and changes of policy
    MaxDirect,      \* bound on edits made on the router
    MaxMishaps      \* bound on failed calls and crashes

Reasons == {"expired", "quota", "schedule"}
None == ""

\* suspend, restore    the access handlers, single or bulk
\* save                the account's form, or a policy template
AllJobs == {"suspend", "restore", "save"}

ASSUME PolicyAssumption == Policies \subseteq Reasons
ASSUME JobAssumption == Jobs \subseteq AllJobs
ASSUME BoundAssumption == MaxEdits \in Nat /\ MaxDirect \in Nat /\ MaxMishaps \in Nat

VARIABLES
    \* RouterOS
    disabled,      \* the account is disabled
    connected,     \* its live sessions
    touched,       \* it changed otherwise since the worker's snapshot
    \* the clock and the controls
    policy,        \* the restriction that applies now, or None
    \* user_controls.enforcement_state
    record,        \* the reason recorded, or None
    pending,       \* recorded as an intent, "pending:<reason>"
    \* the worker
    pc,
    seen,          \* disabled, in its snapshot of the account
    want,          \* the restriction it enforces
    targets,       \* sessions it has still to end
    \* the operator's request that holds the lock
    opc, job,
    \* history
    owner,         \* who decided last whether the account is disabled
    settled,       \* that was a suspension its handler saw through
    waived,        \* an operator has taken the restriction off the record
    edits, direct, mishaps

routerVars == <<disabled, connected, touched>>
recordVars == <<record, pending>>
workerVars == <<pc, seen, want, targets>>
operatorVars == <<opc, job>>
historyVars == <<owner, settled, waived>>
boundVars == <<edits, direct, mishaps>>
vars == <<routerVars, policy, recordVars, workerVars, operatorVars, historyVars, boundVars>>

\* Points at which a call that fails ends the pass and changes nothing.
Calling == {"restoring", "restoreCheck", "restoreWrite", "restoreConfirm", "restricting",
            "sessions", "restrictCheck", "intend", "disableWrite", "disableConfirm",
            "cleanup", "ending"}
Section == Calling \cup {"settle"}
Points == Section \cup {"idle", "waiting", "dead"}

Init ==
    /\ disabled = FALSE /\ connected = {} /\ touched = FALSE
    /\ policy = None
    /\ record = None /\ pending = FALSE
    /\ pc = "idle" /\ seen = FALSE /\ want = None /\ targets = {}
    /\ opc = "idle" /\ job = "save"
    /\ owner = "operator" /\ settled = FALSE /\ waived = FALSE
    /\ edits = 0 /\ direct = 0 /\ mishaps = 0

Mishap == mishaps < MaxMishaps /\ mishaps' = mishaps + 1 /\ UNCHANGED <<edits, direct>>

Go(p) == pc' = p /\ UNCHANGED <<seen, want, targets>>
EndPass == pc' = "idle" /\ seen' = FALSE /\ want' = None /\ targets' = {}

Record(reason, intent) == record' = reason /\ pending' = intent

-----------------------------------------------------------------------------
(* The worker: one account in one pass of _telemetry_loop *)

Poll ==
    /\ pc = "idle"
    /\ seen' = disabled
    /\ touched' = FALSE
    /\ pc' = "waiting"
    /\ UNCHANGED <<disabled, connected, policy, recordVars, want, targets, operatorVars,
                   historyVars, boundVars>>

\* Expiry is terminal: an intent to disable for it is carried out whatever the
\* controls say by now.
Expiring == policy = None /\ record = "expired" /\ pending

Wanted == IF Expiring THEN "expired" ELSE policy

\* Mutant: only a confirmed restriction is lifted.
Confirmed == record \in {"quota", "schedule"} /\ ~pending
Liftable == record \in {"quota", "schedule"}

\* The account is disabled and automation has not done it.
Manual == seen /\ record = None

\* Controls and policy are read again under the lock.
Enter ==
    /\ pc = "waiting"
    /\ opc = "idle"
    /\ \/ /\ IF policy = None THEN Expiring ELSE ~Manual
          /\ want' = Wanted
          /\ pc' = "restricting"
          /\ UNCHANGED <<seen, targets>>
       \/ policy = None /\ Liftable /\ Go("restoring")
       \/ policy = None /\ ~Liftable /\ ~Expiring /\ EndPass
       \/ policy # None /\ Manual /\ EndPass
    /\ UNCHANGED <<routerVars, policy, recordVars, operatorVars, historyVars, boundVars>>

\* _automation_fresh_user: the account is as the snapshot has it.
Fresh == disabled = seen /\ ~touched

\* A pending restriction whose account is enabled never took effect.
Restoring ==
    /\ pc = "restoring"
    /\ \/ pending /\ Fresh /\ ~disabled /\ Record(None, FALSE) /\ EndPass
       \/ ~pending /\ Fresh /\ ~disabled /\ EndPass /\ UNCHANGED recordVars
       \/ ~Fresh /\ EndPass /\ UNCHANGED recordVars
       \/ Fresh /\ disabled /\ Go("restoreCheck") /\ UNCHANGED recordVars
    /\ UNCHANGED <<routerVars, policy, operatorVars, historyVars, boundVars>>

\* After the checkpoint the account is read once more.
CheckAgain(point, next) ==
    /\ pc = point
    /\ \/ Fresh /\ Go(next)
       \/ ~Fresh /\ EndPass
    /\ UNCHANGED <<routerVars, policy, recordVars, operatorVars, historyVars, boundVars>>

\* The PATCH takes effect, answered or not, or does not.
EnableUser ==
    /\ pc = "restoreWrite"
    /\ \/ disabled' = FALSE /\ owner' = "automation" /\ UNCHANGED boundVars
       \/ Mishap /\ UNCHANGED <<disabled, owner>>
    /\ Go("restoreConfirm")
    /\ UNCHANGED <<connected, touched, policy, recordVars, operatorVars, settled, waived>>

ConfirmEnabled ==
    /\ pc = "restoreConfirm"
    /\ IF disabled THEN UNCHANGED recordVars ELSE Record(None, FALSE)
    /\ EndPass
    /\ UNCHANGED <<routerVars, policy, operatorVars, historyVars, boundVars>>

CheckRestrict == CheckAgain("restricting", "sessions")

\* Mutant: an account that was restricted before is not disabled again.
NeedsDisableOnce == ~seen /\ record = None
NeedsDisable == ~seen

\* Mutant: sessions that outlived the restriction are not looked at.
InForceAnyway == ~NeedsDisable /\ record = want
InForce == ~NeedsDisable /\ record = want /\ connected = {}

\* A new snapshot of the sessions; the account that is disabled, recorded and
\* without sessions needs no more.
ReadSessions ==
    /\ pc = "sessions"
    /\ \/ InForce /\ Record(record, FALSE) /\ EndPass
       \/ ~InForce /\ ~NeedsDisable /\ Go("settle") /\ UNCHANGED recordVars
       \/ NeedsDisable /\ Go("restrictCheck") /\ UNCHANGED recordVars
    /\ UNCHANGED <<routerVars, policy, operatorVars, historyVars, boundVars>>

\* Mutant: the write goes out before the intent is stored.
NoIntent == UNCHANGED recordVars
Intent == Record(want, TRUE)

Intend ==
    /\ pc = "intend"
    /\ Intent
    /\ Go("disableWrite")
    /\ UNCHANGED <<routerVars, policy, operatorVars, historyVars, boundVars>>

DisableUser ==
    /\ pc = "disableWrite"
    /\ \/ /\ disabled' = TRUE
          /\ owner' = IF disabled THEN owner ELSE "automation"
          /\ waived' = FALSE
          /\ UNCHANGED boundVars
       \/ Mishap /\ UNCHANGED <<disabled, owner, waived>>
    /\ Go("disableConfirm")
    /\ UNCHANGED <<connected, touched, policy, recordVars, operatorVars, settled>>

ConfirmDisabled ==
    /\ pc = "disableConfirm"
    /\ \/ disabled /\ Go("settle") /\ UNCHANGED recordVars
       \/ ~disabled /\ Record(None, FALSE) /\ EndPass
    /\ UNCHANGED <<routerVars, policy, operatorVars, historyVars, boundVars>>

Settle ==
    /\ pc = "settle"
    /\ Record(want, FALSE)
    /\ Go("cleanup")
    /\ UNCHANGED <<routerVars, policy, operatorVars, historyVars, boundVars>>

\* The sessions to end are those of a snapshot taken after the confirmation.
Cleanup ==
    /\ pc = "cleanup"
    /\ targets' = connected
    /\ pc' = "ending"
    /\ UNCHANGED <<routerVars, policy, recordVars, seen, want, operatorVars, historyVars,
                   boundVars>>

EndSession(c) ==
    /\ pc = "ending" /\ c \in targets
    /\ targets' = targets \ {c}
    /\ \/ connected' = connected \ {c} /\ UNCHANGED boundVars
       \/ Mishap /\ UNCHANGED connected
    /\ UNCHANGED <<disabled, touched, policy, recordVars, pc, seen, want, operatorVars,
                   historyVars>>

CleanupDone ==
    /\ pc = "ending" /\ targets = {}
    /\ EndPass
    /\ UNCHANGED <<routerVars, policy, recordVars, operatorVars, historyVars, boundVars>>

\* RouterOS or Redis does not answer, no checkpoint can be made, the intent
\* cannot be stored: the pass ends where it is.
PassFails ==
    /\ pc \in Calling
    /\ Mishap
    /\ EndPass
    /\ UNCHANGED <<routerVars, policy, recordVars, operatorVars, historyVars>>

\* SQLite fails where only RouterOSError is caught: the thread is gone.
WorkerDies ==
    /\ pc \in Section \cup {"idle"}
    /\ Mishap
    /\ pc' = "dead" /\ seen' = FALSE /\ want' = None /\ targets' = {}
    /\ UNCHANGED <<routerVars, policy, recordVars, operatorVars, historyVars>>

-----------------------------------------------------------------------------
(* Operators *)

BeginJob(j) ==
    /\ opc = "idle" /\ pc \notin Section
    /\ j = "restore" => disabled
    /\ edits < MaxEdits
    /\ edits' = edits + 1
    /\ opc' = "patch" /\ job' = j
    /\ UNCHANGED <<routerVars, policy, recordVars, workerVars, historyVars, direct, mishaps>>

PatchUser ==
    /\ opc = "patch"
    /\ \/ /\ disabled' = CASE job = "suspend" -> TRUE
                           [] job = "restore" -> FALSE
                           [] job = "save" -> disabled
          /\ owner' = IF job = "save" THEN owner ELSE "operator"
          /\ touched' = (touched \/ job = "save")
          /\ settled' = (settled /\ job = "save")
          /\ UNCHANGED boundVars
       \/ Mishap /\ UNCHANGED <<disabled, owner, touched, settled>>
    /\ opc' = "confirm"
    /\ UNCHANGED <<connected, policy, recordVars, workerVars, job, waived>>

\* The readback disagrees, or is not to be had: what is recorded stays.
Unconfirmed ==
    /\ opc = "confirm"
    /\ \/ job = "suspend" /\ ~disabled /\ UNCHANGED boundVars
       \/ job = "restore" /\ disabled /\ UNCHANGED boundVars
       \/ Mishap
    /\ opc' = "idle"
    /\ UNCHANGED <<routerVars, policy, recordVars, workerVars, job, historyVars>>

ConfirmJob ==
    /\ opc = "confirm"
    /\ job = "suspend" => disabled
    /\ job = "restore" => ~disabled
    /\ opc' = "clear"
    /\ UNCHANGED <<routerVars, policy, recordVars, workerVars, job, historyVars, boundVars>>

\* Mutants: the record is left to the next poll; its reason goes, the intent stays.
KeepRecord == UNCHANGED recordVars
TakeOffReason == Record(None, pending)
TakeOffRecord == Record(None, FALSE)

\* A manual action takes precedence over what automation has recorded.
ClearRecord ==
    /\ opc = "clear"
    /\ TakeOffRecord
    /\ settled' = (settled \/ (job = "suspend" /\ disabled))
    /\ waived' = TRUE
    /\ opc' = "idle"
    /\ UNCHANGED <<routerVars, policy, workerVars, job, owner, boundVars>>

\* WinBox, or any other client of the router.
DirectEdit ==
    /\ direct < MaxDirect
    /\ direct' = direct + 1
    /\ \/ disabled' = ~disabled /\ owner' = "operator" /\ settled' = FALSE /\ UNCHANGED touched
       \/ touched' = TRUE /\ UNCHANGED <<disabled, owner, settled>>
    /\ UNCHANGED <<connected, policy, recordVars, workerVars, operatorVars, waived, edits,
                   mishaps>>

-----------------------------------------------------------------------------
(* The rest of the world *)

\* A window opens or closes, a quota is used up or renewed, an expiry is
\* reached or moved.
PolicyChanges ==
    /\ edits < MaxEdits
    /\ edits' = edits + 1
    /\ policy' \in (Policies \cup {None}) \ {policy}
    /\ UNCHANGED <<routerVars, recordVars, workerVars, operatorVars, historyVars, direct,
                   mishaps>>

Connect(c) ==
    /\ ~disabled /\ c \notin connected
    /\ connected' = connected \cup {c}
    /\ UNCHANGED <<disabled, touched, policy, recordVars, workerVars, operatorVars,
                   historyVars, boundVars>>

Disconnect(c) ==
    /\ c \in connected
    /\ connected' = connected \ {c}
    /\ UNCHANGED <<disabled, touched, policy, recordVars, workerVars, operatorVars,
                   historyVars, boundVars>>

\* The process dies, or is restarted.
Crash ==
    /\ Mishap
    /\ EndPass
    /\ opc' = "idle"
    /\ UNCHANGED <<routerVars, policy, recordVars, job, historyVars>>

-----------------------------------------------------------------------------
Worker ==
    \/ Poll \/ Enter
    \/ Restoring \/ CheckAgain("restoreCheck", "restoreWrite") \/ EnableUser \/ ConfirmEnabled
    \/ CheckRestrict \/ ReadSessions \/ CheckAgain("restrictCheck", "intend")
    \/ Intend \/ DisableUser \/ ConfirmDisabled \/ Settle
    \/ Cleanup \/ CleanupDone
    \/ \E c \in Sessions : EndSession(c)
    \/ PassFails

Operator == PatchUser \/ Unconfirmed \/ ConfirmJob \/ ClearRecord

Next ==
    \/ Worker \/ Operator
    \/ WorkerDies
    \/ \E j \in Jobs : BeginJob(j)
    \/ DirectEdit \/ PolicyChanges \/ Crash
    \/ \E c \in Sessions : Connect(c) \/ Disconnect(c)

Spec == Init /\ [][Next]_vars

\* The worker polls while an administrator is signed in, and a request that
\* holds the lock goes on.  Nothing is asked of operators, clock or clients.
FairSpec == Spec /\ WF_vars(Worker) /\ WF_vars(Operator)

-----------------------------------------------------------------------------
(* Properties *)

TypeOK ==
    /\ disabled \in BOOLEAN /\ touched \in BOOLEAN
    /\ connected \subseteq Sessions /\ targets \subseteq Sessions
    /\ policy \in Policies \cup {None} /\ want \in Reasons \cup {None}
    /\ record \in Reasons \cup {None}
    /\ pending \in BOOLEAN /\ (pending => record # None)
    /\ pc \in Points /\ seen \in BOOLEAN
    /\ opc \in {"idle", "patch", "confirm", "clear"} /\ job \in AllJobs
    /\ owner \in {"operator", "automation"} /\ settled \in BOOLEAN /\ waived \in BOOLEAN
    /\ edits \in 0..MaxEdits /\ direct \in 0..MaxDirect /\ mishaps \in 0..MaxMishaps

\* An account that automation has disabled stays on record as restricted until
\* an operator takes it off, through lost answers, failed readbacks and crashes:
\* it is never mistaken for one an operator suspended.
OnRecord == disabled /\ owner = "automation" => record # None \/ waived

AutomationEnables == pc = "restoreWrite" /\ disabled /\ ~disabled'

\* What an operator suspended through the dashboard, and the handler confirmed,
\* automation does not enable, whatever restriction was on record before.
SuspensionStands == [][settled => ~AutomationEnables]_vars

\* The documented rule makes no exception of suspensions whose readback failed:
\* a manually suspended account is not changed by automation.
ManualStands == [][owner = "operator" => ~AutomationEnables]_vars

\* A restriction that persists is enforced in the end: the account is disabled.
Enforced == <>[](policy # None) => <>[](disabled \/ pc = "dead")

\* Sessions that were there when the account was disabled, or came meanwhile,
\* are ended, however often a disconnect fails.
SessionsEnd ==
    <>[](policy # None) =>
        <>[](connected = {} \/ record = None \/ pc = "dead")

\* A quota or schedule restriction that has ended is lifted, also when it was
\* never confirmed; what operators decided is left alone.
Lifted ==
    <>[](policy = None) =>
        <>[](~disabled \/ owner = "operator" \/ waived \/ record = "expired" \/ pc = "dead")
=============================================================================
