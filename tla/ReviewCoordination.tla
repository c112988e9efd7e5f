------------------------- MODULE ReviewCoordination -------------------------
(***************************************************************************)
(* Reviewed changes to one RouterOS account made by several dashboard      *)
(* processes that coordinate through Redis: integrations.py                *)
(* (RedisReviewCoordinator, _RedisReviewLock) and the receipt store of     *)
(* app.py (ReviewReceiptStore), driven the way the account handlers drive  *)
(* them (_update_user_payload, _set_user_access, _bulk_user_action and     *)
(* the automation worker).                                                 *)
(*                                                                         *)
(* One action is one call that leaves the process: a Redis command, a Lua  *)
(* script, or a RouterOS request.  Between two calls anything else may     *)
(* happen: another worker's call, the heartbeat, the expiry of a lease, a  *)
(* restart of Redis from an older snapshot, the loss of its data, a crash  *)
(* of a dashboard process, an edit made directly on the router.            *)
(***************************************************************************)
EXTENDS Integers

CONSTANTS
    Workers,      \* sequences of requests, each served one at a time
    Processes,    \* dashboard processes
    ProcessOf,    \* the process that serves a worker
    Accounts,     \* VPN users, the resources "vpn-user:<id>"
    Settings,     \* RouterOS account states a review tells apart
    Jobs,         \* the kinds of request made, a subset of AllJobs
    Free,         \* lease value: the key is absent
    Orphan,       \* lease value: a token nobody holds any more
    NoReceipt,    \* a worker without a review receipt
    Unread,       \* a worker that has not read its account
    MaxChanges,   \* bound on new jobs: advances made so far, per account
    MaxRun,       \* bound on Redis restarts: the largest run id
    MaxLosses,    \* bound on in-place data losses: no loss from this marker on
    MaxLapses     \* bound on leases that expire under a live worker

\* preview    read the account and issue a receipt, without its lock
\* lockedPreview  the same with the lock (direct edits take it to preview)
\* apply      consume a receipt and write the account
\* override   change the account without a receipt (automation, bulk)
AllJobs == {"preview", "lockedPreview", "apply", "override"}

ASSUME ProcessAssumption == ProcessOf \in [Workers -> Processes]
ASSUME JobAssumption == Jobs \subseteq AllJobs
ASSUME ValueAssumption ==
    /\ Free # Orphan
    /\ Free \notin Workers
    /\ Orphan \notin Workers
    /\ Unread \notin Settings
    /\ NoReceipt \notin [account : Accounts, epoch : Nat, rev : Nat, setting : Settings,
                         seen : Nat]
    /\ NoReceipt \notin [account : Accounts, setting : Settings, seen : Nat]
    /\ NoReceipt \notin [account : Accounts, setting : Settings]
ASSUME BoundAssumption ==
    /\ MaxChanges \in Nat
    /\ MaxRun \in Nat
    /\ MaxLosses \in Nat
    /\ MaxLapses \in Nat

Absent == -1      \* a revision key that does not exist, a high water unset
Revisions == Nat \cup {Absent}
NoEpoch == 0      \* the epoch marker does not exist, or was never observed

VARIABLES
    \* Redis
    run,          \* run_id of the server process
    epoch,        \* vpn-dashboard.review.epoch
    nextEpoch,    \* the next fresh marker (uuid4)
    rev,          \* vpn-dashboard.review.revision:<account>
    lease,        \* vpn-dashboard.review.lock:<account>
    saved,        \* the dataset a restart would load
    \* coordinators, one per process
    seenRun,      \* _observed_server_run_id, 0 when unset
    seenEpoch,    \* _observed_epoch
    highWater,    \* _observed_revision_high_water and _observed_revision_keys
    \* workers
    pc,           \* the call a worker makes next
    job,          \* what it is doing
    target,       \* the account it is doing it to
    base,         \* the account state it read
    claim,        \* the epoch and revision it will advance from
    receipt,      \* the worker's outstanding review receipt
    lost,         \* workers whose lock has _lost set
    \* RouterOS
    setting,      \* the account's state on the router
    \* history, read by no guard
    changes,      \* revisions advanced on an account, ever
    lapsed,       \* workers in their section whose lease ended under them
    broken,       \* accounts with a worker in its section since that happened
    tampered,     \* workers whose account was edited on the router since they read it
    lapses        \* leases that have expired under a live worker

redisVars == <<run, epoch, nextEpoch, rev, lease, saved>>
processVars == <<seenRun, seenEpoch, highWater>>
workerVars == <<pc, job, target, base, claim, receipt, lost>>
historyVars == <<changes, lapsed, broken, tampered, lapses>>
vars == <<redisVars, processVars, workerVars, setting, historyVars>>

-----------------------------------------------------------------------------
(* Derived state *)

\* Program points with the account lock held (inside resource_lock).
Section == {"locked", "issueEpoch", "issueAgain", "issueRevision", "claimEpoch",
            "claimAgain", "claimRevision", "recheckEpoch", "advance", "approved",
            "writing", "written", "closing"}
Points == Section \cup {"idle", "waiting", "previewEpoch", "previewAgain",
                        "previewRevision"}

InSection(w) == pc[w] \in Section
OnAccount(a) == {w \in Workers : InSection(w) /\ target[w] = a}

\* The in-process stripe lock taken around the Redis lease.
StripeFree(w) == \A v \in Workers \ {w} :
    ProcessOf[v] = ProcessOf[w] /\ InSection(v) => target[v] # target[w]

\* ReviewReceiptStore._lock, held while a receipt is issued or consumed.
Consuming(w) == /\ job[w] = "apply"
                /\ pc[w] \in {"claimAgain", "claimRevision", "recheckEpoch", "advance"}
Issuing(w) == pc[w] \in {"previewAgain", "previewRevision", "issueAgain", "issueRevision"}
StoreFree(w) == \A v \in Workers \ {w} :
    ProcessOf[v] = ProcessOf[w] => ~Consuming(v) /\ ~Issuing(v)
NeedsStore(w) == \/ pc[w] \in {"previewEpoch", "issueEpoch"}
                 \/ pc[w] = "claimEpoch" /\ job[w] = "apply"

Receipts == [account : Accounts, epoch : Nat, rev : Nat, setting : Settings, seen : Nat]

Datasets == [epoch : Nat, rev : [Accounts -> Revisions],
             lease : [Accounts -> Workers \cup {Free, Orphan}]]

-----------------------------------------------------------------------------
Init ==
    /\ run = 1 /\ epoch = NoEpoch /\ nextEpoch = 1
    /\ rev = [a \in Accounts |-> Absent]
    /\ lease = [a \in Accounts |-> Free]
    /\ saved = [epoch |-> NoEpoch, rev |-> [a \in Accounts |-> Absent],
                lease |-> [a \in Accounts |-> Free]]
    /\ seenRun = [p \in Processes |-> 0]
    /\ seenEpoch = [p \in Processes |-> NoEpoch]
    /\ highWater = [p \in Processes |-> [a \in Accounts |-> Absent]]
    /\ pc = [w \in Workers |-> "idle"]
    /\ job = [w \in Workers |-> "preview"]
    /\ \E a \in Accounts : target = [w \in Workers |-> a]
    /\ base = [w \in Workers |-> Unread]
    /\ claim = [w \in Workers |-> [epoch |-> NoEpoch, rev |-> Absent]]
    /\ receipt = [w \in Workers |-> NoReceipt]
    /\ lost = {}
    /\ setting \in [Accounts -> Settings]
    /\ changes = [a \in Accounts |-> 0]
    /\ lapsed = {} /\ broken = {} /\ tampered = {} /\ lapses = 0

-----------------------------------------------------------------------------
(* Requests *)

\* A request arrives.  An apply carries the worker's receipt; the others name
\* an account.
Begin(w, j, a) ==
    /\ pc[w] = "idle"
    /\ j \in Jobs
    /\ changes[a] < MaxChanges
    /\ j = "apply" => receipt[w] # NoReceipt /\ receipt[w].account = a
    /\ job' = [job EXCEPT ![w] = j]
    /\ target' = [target EXCEPT ![w] = a]
    /\ IF j = "preview"
       THEN /\ pc' = [pc EXCEPT ![w] = "previewEpoch"]
            /\ base' = [base EXCEPT ![w] = setting[a]]
       ELSE /\ pc' = [pc EXCEPT ![w] = "waiting"]
            /\ UNCHANGED base
    /\ UNCHANGED <<redisVars, processVars, claim, receipt, lost, setting, historyVars>>

\* The receipt is gone: its 600 s are over, 4096 newer ones pushed it out, or
\* the operator's session ended.
DropReceipt(w) ==
    /\ receipt[w] # NoReceipt
    /\ receipt' = [receipt EXCEPT ![w] = NoReceipt]
    /\ ~Consuming(w)
    /\ UNCHANGED <<redisVars, processVars, pc, job, target, base, claim, lost, setting,
                   historyVars>>

\* The worker answers its request and forgets what it read.
Finish(w) ==
    /\ pc' = [pc EXCEPT ![w] = "idle"]
    /\ base' = [base EXCEPT ![w] = Unread]
    /\ claim' = [claim EXCEPT ![w] = [epoch |-> NoEpoch, rev |-> Absent]]
    /\ tampered' = tampered \ {w}

\* A call failed: leave through close() when the lock is held.
Fail(w) ==
    IF InSection(w)
    THEN /\ pc' = [pc EXCEPT ![w] = "closing"]
         /\ UNCHANGED <<base, claim, tampered>>
    ELSE Finish(w)

-----------------------------------------------------------------------------
(* RedisReviewCoordinator.resource_lock *)

\* Mutant: SET without NX takes the key from its holder.
KeyTaken(w) == TRUE
KeyFree(w) == lease[target[w]] = Free

\* SET NX PX succeeds and the heartbeat starts.
Acquire(w) ==
    /\ pc[w] = "waiting"
    /\ StripeFree(w)
    /\ KeyFree(w)
    /\ lease' = [lease EXCEPT ![target[w]] = w]
    /\ pc' = [pc EXCEPT ![w] = "locked"]
    /\ UNCHANGED <<run, epoch, nextEpoch, rev, saved, processVars, job, target, base,
                   claim, receipt, lost, setting, historyVars>>

\* Mutant: the wait for the lock has no deadline.
WaitEndsOnError(w) == pc[w] = "waiting" /\ StripeFree(w) /\ lease[target[w]] = Free
WaitEnds(w) == pc[w] = "waiting" /\ StripeFree(w)

\* The wait of 3 s ends, or Redis fails, in the second case possibly after it
\* has set the key: that token is in nobody's hands.
GiveUp(w) ==
    /\ WaitEnds(w)
    /\ IF lease[target[w]] = Free
       THEN lease' \in {lease, [lease EXCEPT ![target[w]] = Orphan]}
       ELSE UNCHANGED lease
    /\ Finish(w)
    /\ UNCHANGED <<run, epoch, nextEpoch, rev, saved, processVars, job, target, receipt,
                   lost, setting, changes, lapsed, broken, lapses>>

\* The heartbeat's renew, and any assert_owned, on a lease that is not ours or
\* on a Redis that does not answer, set _lost for good.
LoseLock(w) ==
    /\ InSection(w)
    /\ w \notin lost
    /\ lost' = lost \cup {w}
    /\ UNCHANGED <<redisVars, processVars, pc, job, target, base, claim, receipt, setting,
                   historyVars>>

\* Mutant: the lock is not asserted before the write.
AssumesLease(w) == TRUE
OwnsLease(w) == w \notin lost /\ lease[target[w]] = w

\* Mutant: DEL without comparing the token.
ReleasedBlindly(w) == Free
\* Mutant: an unreleased token that never expires.
LeftForever(w) == lease[target[w]]

Released(w) == IF lease[target[w]] = w THEN Free ELSE lease[target[w]]
Left(w) == IF lease[target[w]] = w THEN Orphan ELSE lease[target[w]]

\* close(): a lock known to be lost keeps its token in place until it expires,
\* any other is released, which may fail and leave the token behind.
Close(w) ==
    LET a == target[w]
    IN /\ pc[w] = "closing"
       /\ \/ lease' = [lease EXCEPT ![a] = Left(w)]
          \/ w \notin lost /\ lease' = [lease EXCEPT ![a] = Released(w)]
       /\ saved' = IF saved.lease[a] = w
                   THEN [saved EXCEPT !.lease[a] = Orphan] ELSE saved
       /\ lost' = lost \ {w}
       /\ lapsed' = lapsed \ {w}
       /\ broken' = IF OnAccount(a) = {w} THEN broken \ {a} ELSE broken
       /\ Finish(w)
       /\ UNCHANGED <<run, epoch, nextEpoch, rev, processVars, job, target, receipt,
                      setting, changes, lapses>>

-----------------------------------------------------------------------------
(* The section: read, advance the revision, write, read back *)

\* Mutant: the receipt's digest covers the intent and not the account's state.
StaleByTarget(w) == receipt[w] = NoReceipt \/ receipt[w].account # target[w]
Stale(w) ==
    \/ receipt[w] = NoReceipt
    \/ receipt[w].account # target[w]
    \/ receipt[w].setting # setting[target[w]]

\* The handler reads the account under its lock.  An apply compares it with
\* the reviewed one (the intent digest binds both) before it calls Redis.
ReadAccount(w) ==
    LET s == setting[target[w]]
    IN /\ pc[w] = "locked"
       /\ base' = [base EXCEPT ![w] = s]
       /\ pc' = [pc EXCEPT ![w] =
             IF job[w] = "lockedPreview" THEN "issueEpoch"
             ELSE IF job[w] = "apply" /\ Stale(w) THEN "closing" ELSE "claimEpoch"]
       /\ UNCHANGED <<redisVars, processVars, job, target, claim, receipt, lost, setting,
                      historyVars>>

\* current_epoch(): INFO and GET, with SET NX for a marker never seen.  The
\* run id is remembered even when the marker then refuses.
\* Mutant: the run id is not compared.
AnyRun(p) == TRUE
RunOK(p) == seenRun[p] \in {0, run}
EpochOK(p) == /\ RunOK(p)
              /\ seenEpoch[p] \in {NoEpoch, epoch}

ObserveEpoch(w) ==
    LET p == ProcessOf[w] IN
    /\ EpochOK(p)
    /\ epoch' = IF epoch = NoEpoch THEN nextEpoch ELSE epoch
    /\ nextEpoch' = IF epoch = NoEpoch THEN nextEpoch + 1 ELSE nextEpoch
    /\ seenRun' = [seenRun EXCEPT ![p] = run]
    /\ seenEpoch' = [seenEpoch EXCEPT ![p] = epoch']
    /\ UNCHANGED <<run, rev, lease, saved, highWater>>

\* current_epoch() raises; any other Redis call may fail as well.
EpochFails(w) ==
    LET p == ProcessOf[w] IN
    /\ pc[w] \in {"previewEpoch", "previewAgain", "issueEpoch", "issueAgain",
                  "claimEpoch", "claimAgain", "recheckEpoch"}
    /\ NeedsStore(w) => StoreFree(w)
    /\ seenRun' \in {seenRun} \cup
          (IF RunOK(p) THEN {[seenRun EXCEPT ![p] = run]} ELSE {})
    /\ Fail(w)
    /\ UNCHANGED <<redisVars, seenEpoch, highWater, job, target, receipt, lost, setting,
                   changes, lapsed, broken, lapses>>

CallFails(w) ==
    /\ pc[w] \in {"previewRevision", "issueRevision", "claimRevision", "advance"}
    /\ Fail(w)
    /\ UNCHANGED <<redisVars, processVars, job, target, receipt, lost, setting, changes,
                   lapsed, broken, lapses>>

\* current_revision(): the epoch once more ...
ReobserveEpoch(w) ==
    /\ \/ pc[w] = "previewAgain" /\ pc' = [pc EXCEPT ![w] = "previewRevision"]
       \/ pc[w] = "issueAgain" /\ pc' = [pc EXCEPT ![w] = "issueRevision"]
       \/ pc[w] = "claimAgain" /\ pc' = [pc EXCEPT ![w] = "claimRevision"]
    /\ ObserveEpoch(w)
    /\ UNCHANGED <<job, target, base, claim, receipt, lost, setting, historyVars>>

\* ... then GET, with SET NX 0 for a key never seen.
\* Mutant: a key never seen is not set to 0 before it is used.
RawRevision(a) == rev[a]
CurrentRevision(a) == IF rev[a] = Absent THEN 0 ELSE rev[a]
RevisionOK(p, a) == IF rev[a] = Absent THEN highWater[p][a] = Absent
                                       ELSE rev[a] >= highWater[p][a]

ObserveRevision(w) ==
    LET p == ProcessOf[w]
        a == target[w]
    IN /\ RevisionOK(p, a)
       /\ rev' = [rev EXCEPT ![a] = CurrentRevision(a)]
       /\ highWater' = [highWater EXCEPT ![p][a] = CurrentRevision(a)]
       /\ UNCHANGED <<run, epoch, nextEpoch, lease, saved, seenRun, seenEpoch>>

\* issue(): the epoch first, then the revision; the receipt keeps both with
\* the state the handler read before.
IssueEpoch(w) ==
    /\ pc[w] \in {"previewEpoch", "issueEpoch"}
    /\ StoreFree(w)
    /\ ObserveEpoch(w)
    /\ claim' = [claim EXCEPT ![w] = [epoch |-> epoch', rev |-> Absent]]
    /\ pc' = [pc EXCEPT ![w] =
          IF pc[w] = "issueEpoch" THEN "issueAgain" ELSE "previewAgain"]
    /\ UNCHANGED <<job, target, base, receipt, lost, setting, historyVars>>

IssueReceipt(w) ==
    /\ pc[w] \in {"previewRevision", "issueRevision"}
    /\ ObserveRevision(w)
    /\ receipt' = [receipt EXCEPT ![w] =
          [account |-> target[w], epoch |-> claim[w].epoch,
           rev |-> CurrentRevision(target[w]), setting |-> base[w],
           seen |-> changes[target[w]]]]
    /\ Fail(w)
    /\ UNCHANGED <<job, target, lost, setting, changes, lapsed, broken, lapses>>

\* consume() and invalidate(): the epoch, compared with the receipt's.
ClaimEpoch(w) ==
    /\ pc[w] = "claimEpoch"
    /\ job[w] = "apply" => StoreFree(w)
    /\ ObserveEpoch(w)
    /\ LET mine == IF job[w] = "apply" /\ receipt[w] # NoReceipt
                   THEN receipt[w].epoch ELSE epoch'
           refused == job[w] = "apply" /\ (receipt[w] = NoReceipt \/ mine # epoch')
       IN /\ claim' = [claim EXCEPT ![w] = [epoch |-> mine, rev |-> Absent]]
          /\ pc' = [pc EXCEPT ![w] = IF refused THEN "closing" ELSE "claimAgain"]
    /\ UNCHANGED <<job, target, base, receipt, lost, setting, historyVars>>

\* Mutant: only a receipt newer than the account is refused.
Ahead(w, now) == job[w] = "apply" /\ receipt[w].rev > now
Outdated(w, now) == job[w] = "apply" /\ receipt[w].rev # now

\* ... the revision, compared with the receipt's ...
ClaimRevision(w) ==
    LET now == CurrentRevision(target[w]) IN
    /\ pc[w] = "claimRevision"
    /\ ObserveRevision(w)
    /\ claim' = [claim EXCEPT ![w] = [epoch |-> claim[w].epoch, rev |-> now]]
    /\ pc' = [pc EXCEPT ![w] =
          IF Outdated(w, now) THEN "closing" ELSE "recheckEpoch"]
    /\ UNCHANGED <<job, target, base, receipt, lost, setting, historyVars>>

\* ... advance_if_current(): the epoch again ...
RecheckEpoch(w) ==
    /\ pc[w] = "recheckEpoch"
    /\ ObserveEpoch(w)
    /\ pc' = [pc EXCEPT ![w] = "advance"]
    /\ UNCHANGED <<job, target, base, claim, receipt, lost, setting, historyVars>>

\* ... and, with the coordinator's high water checked, the script that compares
\* both keys and increments the revision.
Matches(w) == epoch = claim[w].epoch /\ rev[target[w]] = claim[w].rev

Advance(w) ==
    LET p == ProcessOf[w]
        a == target[w]
        next == claim[w].rev + 1
    IN /\ pc[w] = "advance"
       /\ claim[w].rev >= highWater[p][a]
       /\ Matches(w)
       /\ rev' = [rev EXCEPT ![a] = next]
       /\ changes' = [changes EXCEPT ![a] = @ + 1]
       /\ highWater' = [highWater EXCEPT ![p][a] = IF @ > next THEN @ ELSE next]
       /\ receipt' = IF job[w] = "apply" THEN [receipt EXCEPT ![w] = NoReceipt] ELSE receipt
       /\ pc' = [pc EXCEPT ![w] = "approved"]
       /\ UNCHANGED <<run, epoch, nextEpoch, lease, saved, seenRun, seenEpoch, job, target,
                      base, claim, lost, setting, lapsed, broken, tampered, lapses>>

\* The script ran and its answer was lost: the caller sees an error.
AdvanceUnanswered(w) ==
    /\ pc[w] = "advance"
    /\ claim[w].rev >= highWater[ProcessOf[w]][target[w]]
    /\ Matches(w)
    /\ rev' = [rev EXCEPT ![target[w]] = claim[w].rev + 1]
    /\ changes' = [changes EXCEPT ![target[w]] = @ + 1]
    /\ pc' = [pc EXCEPT ![w] = "closing"]
    /\ UNCHANGED <<run, epoch, nextEpoch, lease, saved, processVars, job, target, base,
                   claim, receipt, lost, setting, lapsed, broken, tampered, lapses>>

\* After the RouterOS checkpoint, assert_owned and the PATCH that follows it.
StartWrite(w) ==
    /\ pc[w] = "approved"
    /\ OwnsLease(w)
    /\ pc' = [pc EXCEPT ![w] = "writing"]
    /\ UNCHANGED <<redisVars, processVars, job, target, base, claim, receipt, lost, setting,
                   historyVars>>

\* The checkpoint is refused, or the assertion fails and marks the lock lost.
Refuse(w) ==
    /\ pc[w] \in {"approved", "written"}
    /\ lost' \in {lost, lost \cup {w}}
    /\ pc' = [pc EXCEPT ![w] = "closing"]
    /\ UNCHANGED <<redisVars, processVars, job, target, base, claim, receipt, setting,
                   historyVars>>

\* RouterOS carries the PATCH out or not; the handler reads the account back
\* either way, for a response may be lost after the change was made.
Write(w) ==
    /\ pc[w] = "writing"
    /\ \E s \in Settings : setting' = [setting EXCEPT ![target[w]] = s]
    /\ pc' = [pc EXCEPT ![w] = "written"]
    /\ UNCHANGED <<redisVars, processVars, job, target, base, claim, receipt, lost,
                   historyVars>>

\* The read-back is confirmed and the lock asserted before local state is saved.
Confirm(w) ==
    /\ pc[w] = "written"
    /\ OwnsLease(w)
    /\ pc' = [pc EXCEPT ![w] = "closing"]
    /\ UNCHANGED <<redisVars, processVars, job, target, base, claim, receipt, lost, setting,
                   historyVars>>

-----------------------------------------------------------------------------
(* Redis, the router and the processes *)

\* The workers whose lease is not in l, and what that does to the history.
Dispossessed(l) == {w \in Workers : InSection(w) /\ l[target[w]] # w}
Breaks(l) ==
    /\ lapsed' = lapsed \cup Dispossessed(l)
    /\ broken' = broken \cup {target[w] : w \in Dispossessed(l)}

\* A snapshot that no restart within the bound would load is not taken.
Persist ==
    /\ run < MaxRun
    /\ saved' = [epoch |-> epoch, rev |-> rev, lease |-> lease]
    /\ UNCHANGED <<run, epoch, nextEpoch, rev, lease, processVars, workerVars, setting,
                   historyVars>>

\* Redis restarts with the dataset it last wrote: what happened since is undone.
Restart ==
    /\ run < MaxRun
    /\ run' = run + 1
    /\ epoch' = saved.epoch /\ rev' = saved.rev /\ lease' = saved.lease
    /\ Breaks(saved.lease)
    /\ UNCHANGED <<nextEpoch, saved, processVars, workerVars, setting, changes, tampered,
                   lapses>>

\* The keys are lost while the server keeps running.
LoseData ==
    /\ nextEpoch < MaxLosses
    /\ epoch' = NoEpoch
    /\ rev' = [a \in Accounts |-> Absent]
    /\ lease' = [a \in Accounts |-> Free]
    /\ Breaks(lease')
    /\ UNCHANGED <<run, nextEpoch, saved, processVars, workerVars, setting, changes,
                   tampered, lapses>>

\* A key's PX runs out.  The snapshot keeps the same absolute deadline.
Expired(a, token) ==
    /\ lease' = [lease EXCEPT ![a] = IF @ = token THEN Free ELSE @]
    /\ saved' = IF saved.lease[a] = token THEN [saved EXCEPT !.lease[a] = Free] ELSE saved

Expire(a) ==
    /\ lease[a] = Orphan
    /\ Expired(a, Orphan)
    /\ UNCHANGED <<run, epoch, nextEpoch, rev, processVars, workerVars, setting, historyVars>>

\* No heartbeat reached Redis for a whole lease (900 s): its process or the
\* network stood still while the worker was in its section.
Lapse(w) ==
    LET a == target[w] IN
    /\ InSection(w)
    /\ lease[a] = w
    /\ lapses < MaxLapses
    /\ lapses' = lapses + 1
    /\ lapsed' = lapsed \cup {w}
    /\ broken' = broken \cup {a}
    /\ Expired(a, w)
    /\ UNCHANGED <<run, epoch, nextEpoch, rev, processVars, workerVars, setting, changes,
                   tampered>>

\* An administrator edits the account on the router itself.
EditOnRouter(a) ==
    /\ \E s \in Settings \ {setting[a]} : setting' = [setting EXCEPT ![a] = s]
    /\ tampered' = tampered \cup {w \in Workers : base[w] # Unread /\ target[w] = a}
    /\ UNCHANGED <<redisVars, processVars, workerVars, changes, lapsed, broken, lapses>>

\* A dashboard process dies: its workers stop where they are, a PATCH it has
\* sent may still be carried out, its leases stay until they expire.
Crash(p) ==
    LET dead == {w \in Workers : ProcessOf[w] = p}
        orphaned(l) == [a \in Accounts |-> IF l[a] \in dead THEN Orphan ELSE l[a]]
        sent == {target[w] : w \in {v \in dead : pc[v] = "writing"}}
    IN /\ seenRun' = [seenRun EXCEPT ![p] = 0]
       /\ seenEpoch' = [seenEpoch EXCEPT ![p] = NoEpoch]
       /\ highWater' = [highWater EXCEPT ![p] = [a \in Accounts |-> Absent]]
       /\ pc' = [w \in Workers |-> IF w \in dead THEN "idle" ELSE pc[w]]
       /\ base' = [w \in Workers |-> IF w \in dead THEN Unread ELSE base[w]]
       /\ claim' = [w \in Workers |->
             IF w \in dead THEN [epoch |-> NoEpoch, rev |-> Absent] ELSE claim[w]]
       /\ receipt' = [w \in Workers |-> IF w \in dead THEN NoReceipt ELSE receipt[w]]
       /\ lost' = lost \ dead
       /\ lease' = orphaned(lease)
       /\ saved' = [saved EXCEPT !.lease = orphaned(@)]
       /\ \E s \in [sent -> Settings] :
             setting' = [a \in Accounts |-> IF a \in sent THEN s[a] ELSE setting[a]]
       /\ lapsed' = lapsed \ dead
       /\ broken' = {a \in broken : OnAccount(a) \ dead # {}}
       /\ tampered' = tampered \ dead
       /\ UNCHANGED <<run, epoch, nextEpoch, rev, job, target, changes, lapses>>

-----------------------------------------------------------------------------
Step(w) ==
    \/ Acquire(w) \/ GiveUp(w) \/ Close(w)
    \/ ReadAccount(w) \/ IssueEpoch(w) \/ ReobserveEpoch(w) \/ IssueReceipt(w)
    \/ ClaimEpoch(w) \/ ClaimRevision(w) \/ RecheckEpoch(w)
    \/ Advance(w) \/ AdvanceUnanswered(w)
    \/ EpochFails(w) \/ CallFails(w)
    \/ StartWrite(w) \/ Refuse(w) \/ Write(w) \/ Confirm(w)

Next ==
    \/ \E w \in Workers : Step(w) \/ LoseLock(w) \/ DropReceipt(w) \/ Lapse(w)
    \/ \E w \in Workers, j \in Jobs, a \in Accounts : Begin(w, j, a)
    \/ Persist \/ Restart \/ LoseData
    \/ \E a \in Accounts : Expire(a) \/ EditOnRouter(a)
    \/ \E p \in Processes : Crash(p)

Spec == Init /\ [][Next]_vars

\* Threads keep running, every wait of theirs has a deadline, and Redis drops
\* keys past theirs.
FairSpec ==
    /\ Spec
    /\ \A w \in Workers : WF_vars(Step(w))
    /\ \A a \in Accounts : WF_vars(Expire(a))

-----------------------------------------------------------------------------
(* Properties *)

TypeOK ==
    /\ run \in Nat \ {0} /\ epoch \in Nat /\ nextEpoch \in Nat \ {0}
    /\ rev \in [Accounts -> Revisions]
    /\ lease \in [Accounts -> Workers \cup {Free, Orphan}]
    /\ saved \in Datasets
    /\ seenRun \in [Processes -> Nat]
    /\ seenEpoch \in [Processes -> Nat]
    /\ highWater \in [Processes -> [Accounts -> Revisions]]
    /\ pc \in [Workers -> Points]
    /\ job \in [Workers -> AllJobs]
    /\ target \in [Workers -> Accounts]
    /\ base \in [Workers -> Settings \cup {Unread}]
    /\ claim \in [Workers -> [epoch : Nat, rev : Revisions]]
    /\ receipt \in [Workers -> Receipts \cup {NoReceipt}]
    /\ lost \subseteq Workers
    /\ setting \in [Accounts -> Settings]
    /\ changes \in [Accounts -> Nat]
    /\ lapsed \subseteq Workers
    /\ broken \subseteq Accounts
    /\ tampered \subseteq Workers
    /\ lapses \in Nat

\* Of the workers between acquiring an account's lock and closing it, all but
\* one have lost their lease on the way.  A worker that closes after its lease
\* went to another must not free the other's.
OneWorkerPerAccount ==
    \A v, w \in Workers :
        /\ InSection(v) /\ InSection(w) /\ target[v] = target[w]
        /\ v \notin lapsed /\ w \notin lapsed
        => v = w

\* A worker whose lease has gone to another does not start its write while the
\* other is at work on the account.
NoWriteIntoAnothersSection ==
    [][\A v, w \in Workers :
          /\ pc[w] # "writing" /\ pc'[w] = "writing"
          /\ v # w /\ InSection(v) /\ target[v] = target[w]
          => v \in lapsed]_vars

\* What a write replaces is what its handler read, and so, for an apply, what
\* the operator reviewed: unless the lease was broken or somebody edited the
\* account on the router in between.
WriteReplacesWhatWasRead ==
    \A w \in Workers : pc[w] \in {"approved", "writing"} =>
        \/ setting[target[w]] = base[w]
        \/ target[w] \in broken
        \/ w \in tampered

\* A receipt is honoured only when no change has been approved on its account
\* since it was issued, by any process, through restarts of Redis from an older
\* snapshot and through the loss of its data.  It takes a broken lease and a
\* restart after the coordinator's last look at the run id, together, to
\* escape it.
Honours(w) == pc[w] = "advance" /\ pc'[w] = "approved" /\ job[w] = "apply"
HonouredReceiptIsCurrent ==
    [][\A w \in Workers : Honours(w) =>
          \/ receipt[w].seen = changes[target[w]]
          \/ target[w] \in broken /\ run # seenRun[ProcessOf[w]]]_vars

\* The documented rule that a restart of Redis stops coordination until the
\* dashboard restarts: no apply is approved, its revision advanced, on a run id
\* that its coordinator never observed.
RestartStopsCoordination ==
    [][\A w \in Workers : Honours(w) => run = seenRun[ProcessOf[w]]]_vars

\* Every request ends, also when the lock it waits for has been orphaned.
RequestsEnd == \A w \in Workers : []<>(pc[w] = "idle")

\* No account stays locked, whatever became of the worker that locked it.
LocksComeFree == \A a \in Accounts : []<>(lease[a] = Free)

\* Redis and the locks hidden, the reviews are those of ReviewedChanges.
ReviewOf(w) == IF receipt[w] = NoReceipt THEN NoReceipt
               ELSE [account |-> receipt[w].account, setting |-> receipt[w].setting,
                     seen |-> receipt[w].seen]
GrantOf(w) == IF pc[w] \in {"approved", "writing"}
              THEN [account |-> target[w], setting |-> base[w]] ELSE NoReceipt

Promise == INSTANCE ReviewedChanges WITH
    None <- NoReceipt,
    review <- [w \in Workers |-> ReviewOf(w)],
    grant <- [w \in Workers |-> GrantOf(w)],
    exposed <- broken

\* The coordination implements ReviewedChanges: a receipt is honoured once, on
\* the account and state it was issued for, and leads to one write that
\* replaces that state.
KeepsPromise == Promise!Spec
=============================================================================
