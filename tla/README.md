# Verification of the MikroTik OpenVPN dashboard

The dashboard is a Python ASGI/WSGI service in front of one RouterOS device. It
keeps almost nothing of its own: RouterOS holds the VPN accounts, SQLite holds the
audit, the outbox of integration events and the automation's memory, Redis (optional)
coordinates several dashboard processes, and the sessions of its administrators live
in memory. What makes it hard is that none of the stores can be updated together, and
that every handler works through a sequence of remote calls that can each fail, be
answered late, or run next to somebody else's.

The modules in this directory are translated from the source; `PROJECT.json` maps each
definition to the lines it stands for. TLC checks the `MC*.tla` instances with the
`.cfg` files beside them, TLAPS checks the modules named `*Proofs`.

    tlc -workers 2 -config ReviewLocks.cfg MCReviewCoordination.tla
    tlapm ReviewCoordinationProofs.tla

## Inventory

| Component | State it keeps | Operations | Works with |
|---|---|---|---|
| **Review coordination** (`integrations.py` `RedisReviewCoordinator`, `app.py` `ReviewReceiptStore`) | Redis: epoch, a revision and a lease per resource. Process: run id and epoch observed, revision high water, receipts, striped locks | `resource_lock`, heartbeat `renew`, `assert_owned`, `close`, `current_epoch`, `current_revision`, `advance_if_current`, `issue`, `consume`, `invalidate`, `mutation_locks` | account handlers, automation, Redis, RouterOS |
| **Session store** (`security.py` `SessionStore`) | sessions, role checks, per-session check locks, invalidation marks, account generations, pending retries | `create`, `rotate`, `revalidate_role`, `revoke_account_sessions`, `revoke_account_sessions_except`, `destroy`, `dispatch_if_active_authorization_ref`, sweeps | login, reauthentication, live delivery, RouterOS role lookups, audit |
| **Login rate limiter** (`security.py` `LoginRateLimiter`) | stamps of attempts per identity, reservations in flight, aggregates of refused attempts | `reserve`, `finish`, `reserve_rate_limited_login_audit` and its completion | login, re-authentication, revocations that ask for the password again |
| **Integration outbox** (`store.py`, `integrations.py` `WebhookDispatcher`) | SQLite audit and outbox rows, circuit breaker | `record_audit`, `claim`, `mark_delivered`, `mark_failed`, dead letter, prune | every auditing handler, webhook receiver, Redis stream |
| **Automation** (`automation.py`, `store.py`) | SQLite enforcement state, access schedules, quotas | enforce, verify by readback, restore, session limits | RouterOS, review coordination |
| **Telemetry** (`telemetry_broker.py`, `telemetry_gateway.py`, `telemetry_supervisor.py`, `telemetry_state.py`, `telemetry_runtime.py`) | retained sessions and interfaces, cursors, sequence numbers, subscriptions, collector health | apply, reconcile, recovery snapshot, open, close, publish, poll, watch, sample | RouterOS listeners, live delivery |
| **Live delivery** (`asgi.py`, `telemetry_socketio_polling.py`, SSE in `app.py`) | Socket.IO SIDs, their sessions, send queues, deadlines | connect, authorize, poll, send, disconnect | session store, telemetry |
| **Profile shares** (`app.py` `ProfileShareStore`) | shares with downloads left, failed codes, lockout, closing flag | create, consume, close, publish | provisioning handlers |
| **Multi-resource locks** (`app.py` `resource_locks`, `mutation_locks`) | stripes of thread locks per process, leases in Redis | gate, sorted keys, release | account handlers, automation |
| **Account handlers** (`app.py`) | none of their own: sequences over RouterOS and SQLite | provision, profile, update, access, bulk, template, device revocation, delete, terminate | review coordination, audit, RouterOS |
| **RouterOS clients** (`routeros.py`, `routeros_binary.py`) | connections, tags, checkpoints | REST calls, provision with rollback, rate profile, binary API framing, listen/cancel | RouterOS |
| **Store** (`store.py`) | SQLite file | alerts, API tokens, user profiles, migrations, backup | everything |
| **Configuration, diagnosis, deployment** (`config.py`, `exposure_doctor.py`, `deployment.py`, `install_routeros.py`, `cloudflare.py`, `scripts/`) | settings, release state on the router | validate, install, promote, roll back, collect acceptance evidence | operators |
| **Front end** (`static/app.js`) | views, stream cursors, reconnect backoff | render, stream, poll, recover | live delivery |

### Where it is hard, and what must hold

* **Review coordination.** Two processes change one VPN user; a lease lapses while a
  PATCH is under way; Redis restarts from an older snapshot, or loses keys; a reply is
  lost after its effect. It must hold that a write replaces the state its author was
  shown, that a receipt is honoured once and only while nothing was approved on the
  account since, and that no account stays locked.
* **Session store.** A login, a rotation, a role refresh, a live send and an account
  revocation meet in any order. It must hold that a completed revocation leaves no
  session of an earlier authentication, that a rotation never revives a revoked
  session, that a frame is sent only on a live session, that no two locks wait on
  each other.
* **Outbox.** A crash between a delivery and its mark; a batch slower than its claim;
  a poisoned event. At-least-once delivery, no event of a committed audit lost except
  to the dead letter, one poisoned row never blocks the others.
* **Automation.** An answer lost after RouterOS disabled the user; a manual change
  between two ticks; the process dies between the intent and the call. A user the
  automation disabled is enabled again by it or by an operator, a user disabled by hand
  is never enabled by it.
* **Telemetry.** Deltas, reconciliations and evictions against a subscriber's cursor;
  a collector that dies and is restarted. A subscriber that follows the deltas knows
  the retained state, or is told to resynchronise.
* **Live delivery.** A SID outliving its session, a send deadline against a slow
  client.
* **Profile shares.** Three downloads, five wrong codes, a close racing a publish.
* **Account handlers.** A request fails in the middle, its answer is lost, a lock goes, a
  VPN client connects between two reads, a row of RouterOS is used again. What a handler
  reports must be what the router has; its cleanup must take back what it made and
  nothing else; several locks must not lead into a circle.
* **Engine.IO admission.** Tasks that outlive their requests, responses held back until
  they are authorised, sockets that stay after their session. Quotas and budgets must
  count what there is.
* **Release promotion.** A controller that dies, commands without answers, containers
  changed by hand. What is served and recorded must have been soaked.

## Runs of several components

Most components share nothing but RouterOS and the locks, and each has a small instance of
its own. Three modules therefore put several instances into one run: a variable `part`
says which component a behaviour is about, only that component takes steps, and the state
space is the sum of theirs, not the product. `RequestHandlers` gives its components the
variables `x1`, `x2`, ... that their INSTANCE substitutions name, keeps the rest at 0, and
has the constants of all of them as its own; `MCRequestHandlers` is its instance for TLC.
`MCProgress` and `MCRetries` extend one component and keep the others' own variables at
their initial values. A property of such a run is the conjunction of what one component
promises, named for the promise; each conjunct is a definition of the component's module
with a comment of its own, and `PROJECT.json` lists a mutant for each of them.

| Run | Parts |
|---|---|
| `request_handlers` (safety) | `accounts`, `certificates`, `sessions`, `bulk`, `credentials`, `shares`, `migration`, `transports`, `buffers`, `polling`, `connection`, `locks`, `release` |
| `progress` (liveness, with the fairness of each part) | `worker`, `limit`, `collector`, `locks`, `transports`, `events` |
| `retries` (liveness and the outbox's refinement) | `dispatcher`, `store` |

`RequestHandlersProofs` proves eight of the properties of `request_handlers` as the run checks
them, of `PartsSpec` and for every value of the constants that `HandlersAssumption` admits (it
joins the assumptions of the components and says that bounds are numbers): `PromotionsAreSafe`,
`SharesAreKept`, `AccessIsKept`, `LocksAreFree`, `TunnelsAreEnded`, `BulkIsTold`,
`ProvisioningLeavesNothing` and `AccountsAreFollowed`, each with the component's types. The
work is done by the theorems about the components that the sections below name. They are
about instances of their own; the lemmas `Same...` say that such an instance and the part of
the run are the same formulas, and the lemmas `...Part` that a behaviour of `PartsSpec` that
is about the component is one of the component's specification: `part` never changes, a step
of another component is none, and what `PartsSpec` leaves alone is the component's stutter.
`CredentialsPart` says the same of the login limiter, which is a part without being renamed.

Liveness is stated as `[]<>P` where a condition must come back and `<>[]P` where things
settle. `[]<>P` is what `~P ~> P` says, and TLC decides it with a smaller automaton.
Deadlock is not checked in these runs, nor in the other runs with `CHECK_DEADLOCK FALSE`:
their request counters are bounded, so that the system really stops.

## The core: reviewed account changes

`ReviewCoordination` models what happens between an operator's preview of a change and
the PATCH on RouterOS. A worker is a sequence of requests; each action is one call that
leaves the process, so other workers, heartbeats, expiries, restarts and crashes come
between any two.

| In the code | In the module |
|---|---|
| `resource_lock`: stripe lock, `SET NX PX`, wait of 3 s | `Begin`, `Acquire`, `GiveUp`; `StripeFree`, `KeyFree` |
| heartbeat `renew`, `assert_owned`, `_lost` | `LoseLock`, `OwnsLease`, `Lapse` |
| `close`: compare-and-delete, retention of a lost token | `Close`, `Released`, `Left`, `Expire` |
| `current_epoch`: run id, epoch marker | `ObserveEpoch`, `EpochOK`, `EpochFails` |
| `current_revision`: epoch again, revision against high water | `ReobserveEpoch`, `ObserveRevision`, `RevisionOK` |
| `ReviewReceiptStore.issue`, `consume`, `invalidate` | `IssueEpoch`, `IssueReceipt`, `Stale`, `ClaimEpoch`, `ClaimRevision`, `Outdated` |
| `advance_if_current`: run id check, Lua script, reply | `RecheckEpoch`, `Advance`, `AdvanceUnanswered` |
| `_update_user_payload` and its siblings: read, consume, PATCH, readback | `ReadAccount`, `StartWrite`, `Refuse`, `Write`, `Confirm` |
| Redis: snapshots, restart, FLUSHALL, PX | `Persist`, `Restart`, `LoseData`, `Expire` |
| the process dies; the router is edited with WinBox | `Crash`, `EditOnRouter` |

Times are not modelled: a lease may end as soon as its holder stops renewing, a wait may
end at any moment. The history variables (`changes`, `lapsed`, `broken`, `tampered`,
`lapses`) are read by no guard but `Begin` and `Lapse`, which they bound.

`ReviewedChanges` is the promise without the machinery: reviews, approvals and writes on
accounts. `KeepsPromise` is the refinement: a review is the receipt without epoch and
revision, a grant exists from the answer of the Lua script to the PATCH, an account is
exposed while it is in `broken`.

### Runs

| Run | Instance | What it shows |
|---|---|---|
| `review_locks` | two processes, one account, two settings, a lapse, a loss of the leases | sections exclude each other unless the lease lapsed; no write starts in another's section; a write replaces what was read; the promise is kept |
| `review_liveness` | two processes, two Redis runs with a snapshot between | every request ends, every account's lock comes free; a receipt is honoured only when it is current, through rollback |
| `review_restart` | two Redis runs | **violated**: see Findings |

One account is enough: no operation of a request touches a second account's keys except
the epoch and run id, which are global and which the second worker also moves. Two
workers are the smallest number that can interfere; a third adds only waiters, because
the properties speak of pairs. `MaxChanges` bounds the changes after which no new job
begins, `MaxRun` the restarts, `MaxLosses` the epoch from which on no
data is lost in place (at 2 leases only, at 3 an epoch and its revisions too), `MaxLapses` the leases that
end under a live worker. With `MaxChanges = 1` an account still reaches two changes, since
both workers may have begun before the first is counted. One setting is enough where a
property does not look at settings (the receipts' currency does not).

Fairness (`FairSpec`): weak fairness of each worker's own step, because threads keep
running and every call has a timeout, and of `Expire`, because Redis drops keys with a
`PX`. Nothing is assumed of the environment: no restart, loss or router edit has to happen.

### Proofs

`ReviewCoordinationProofs` proves the safety properties and the refinement for any number of
workers, processes, accounts and settings, and for any bounds. The assumptions are that
every worker has a process, that the bounds are numbers, and that the markers for "free",
"orphaned", "no receipt" and "unread" are none of the values they stand beside.

* `TypeCorrect`: `TypeOK`.
* `Mutex`: `OneWorkerPerAccount`. It needs that a worker in its section whose lease did
  not lapse still owns the key, in Redis.
* `NoIntrusion`: `NoWriteIntoAnothersSection`, from the same fact and `OwnsLease`.
* `NoLostUpdate`: `WriteReplacesWhatWasRead`. The invariant says of every worker between
  reading and writing that the setting is the one read, unless exempted; a write of
  another worker would contradict `Mutex`.
* `HonouredIsCurrent`: `HonouredReceiptIsCurrent`. The invariant relates an epoch and
  revision held anywhere (Redis, a receipt, a claim, a coordinator's high water, the
  snapshot) to the changes counted when it was current, so that equal epoch and
  revision mean equal counts.

* `PromiseIsKept`: `KeepsPromise`, that the coordination implements `ReviewedChanges`. Three
  facts carry it: `Reviewed`, that a worker that takes its receipt past the reading of the
  account read what the operator reviewed; `AsRead`, that the setting is still the one read
  unless the account is exposed; and `Freshness`, that the receipt is current. Each action is
  then shown to be a step of the promise or a stutter.

The two liveness properties are model-checked only; liveness under fairness is outside the
prover's reach.

Liveness is checked with two processes: two threads of one process also wait for a
stripe's `RLock`, which Python does not hand on in order, so there a waiter may wait for
as long as others keep taking it.

## Sessions of the dashboard

`SessionStore` models `security.py` `SessionStore` with the handlers that drive it. What
runs under the store's own `_lock` is one step; a thread can be suspended wherever it
waits for the session set lock, the check lock of a session, RouterOS, the audit, or a
client that reads slowly.

| In the code | In the module |
|---|---|
| login: generation, `authenticate`, `create` | `BeginLogin`, `Verify`, `TakeSet`, `CheckCreate`, `Audit`, `CommitCreate`; `Superseded`, `Full` |
| `rotate` under both locks | `ChooseRotate`, `LockNext`, `CheckRotate`, `CommitRotate`; `Unchallenged` |
| `revoke_account_sessions` from a thread and from the event loop, with its retry thread | `BeginRevocation`, `Choose`, `LockNext`, `SweepAccount`, `LocksBusy`; `Retry`, `CountOff` |
| `revoke_account_sessions_except`, `_purge` | `Choose`, `Sweep`, `SetBusy` |
| `revoke`, `destroy` | `BeginLogout`, `Logout` |
| `revalidate_role` | `Refresh`, `Recheck`, `RoleConfirmed`, `AnswerTooLate`, `RoleUnknown`, `AccountGone` |
| sends of live events (`asgi.py`, `app.py`) under the check lock | `TakeLock`, `GiveUp`, `CheckSend`, `RefuseSend`, `SendEnds`; `Impatient` |
| deadlines and role check intervals passing | `Expire`, `GoStale`, `DropExpired` |

| Run | Instance | What it shows |
|---|---|---|
| `session_interleavings` | three threads, any three requests of all nine kinds on an account at its limit of two sessions | the limit is kept, completed revocations leave neither an earlier session nor an heir of one (`RevokedStayOut`), an account is denied by exactly the revocations under way, no send is overtaken |
| `retries`, part `store` | two threads and the retry thread, the kinds that take several locks or only try them | every request ends, no account stays denied (`StoreSettles`) |
| `session_overlap` | a login and two revocations | **violated**: see Findings |
| `session_missing` | a refresh and a rotation | **violated**: see Findings |

Three threads are what the known races need (a login or rotation between two sweeps, a
sweep waiting for a delivery that waits for a sweep); the retry thread is a fourth. One
account is enough because sessions of others meet only at the session set lock and in
`_purge`, where they would be further ids to lock. Roles are abstracted: a refresh
confirms the role, finds the account missing, or gets no answer. `revoke_all_except` is
not called by the application and left out.

Fairness: weak fairness of every thread's step, for every call and send has a timeout;
strong fairness of `GiveUp`, for a delivery compares its deadline with the clock each
time it starts over and the clock does not go back; weak fairness of the retry thread,
which loops until nothing is pending.

`SendsFinishFirst` excepts expiry: `asgi.py:435-436` says that the lock keeps expiry too
from completing before the send, but `dispatch_if_active_authorization_ref` and the
lookups drop an expired session under `_lock` alone. The frame that was cleared before
the deadline is sent either way.

### Proofs

`SessionStoreProofs` proves the run's five properties for any finite set of threads, any
accounts, kinds, limits and numbers of requests; finite, because denials are counted by the
cardinality of sets of threads. The invariant `StoreInv` has the parts:

* `CountInv`: types, the course each kind of request takes
  (`Courses`), ids that are not used twice (`FreshIds`: an id is left for every request
  that may still make a session), ordinals that tell revocations apart (`Ordinals`), and
  `DenialsMatch`. It is inductive alone and gives `TypeCorrect` and `DenialsAreCounted`.
* whoever acts on a session holds its lock (`LocksHeld`); that a revocation collecting its
  locks has marked every session of its account (`AllMarked`), since none is made while the account is denied; that a login whose
  generation still stands, and a rotation whose session is still there, were verified after
  every revocation that has completed (`LoginsBound`, `RotationsBound`); and that a session that was
  replaced never comes back (`Succession`). With `WithinLimit` and `RevokedStayOut` themselves
  this is inductive, and gives `LimitKept`, `RevocationsBind` and the action property
  `SendsAreFinished`.

`StoreSettles` is liveness and stays with TLC.

## The outbox

`IntegrationOutbox` models the rows of `integration_outbox` and the one dispatcher thread
(`docs/SECURITY_ASSURANCE.md:62`: a single process). Each action is one SQLite
transaction or one attempt at one sink.

| In the code | In the module |
|---|---|
| `audit_many` in the caller's transaction | `Audit` |
| `pending_integration_events`: due rows by age, claimed with attempt and claim time | `Due`, `Oldest`, `Claim` |
| `_dispatch_outbox_batch` | `Start`, `DeadLetterMalformed`, `MarkDelivered`, `AttemptFails`, `SettleFails`, `BatchDone` |
| `_deliver`: webhook, then Redis; `_deliver_with_retries` | `Deliver`, `Refused`, `TryAgain`, `CountFailure` |
| circuit breaker | `open`, `streak`, `CircuitCloses` |
| claim lapses, backoff passes | `ComesDue` |
| `prune_history`; a row damaged on disk; the process dies | `Prune`, `Damage`, `Crash` |

Events are numbered in the order in which they are claimed; because `created_at` is read
before the writer has the database, they may be committed in any order, so `Audit` takes
any set of new events. A sink takes an event or refuses it; an accepted event whose answer
is lost is `Deliver` followed by a crash, or by the refusal of a later attempt.

`OutboxPromise` is what the outbox owes its sinks. `KeepsPromise` maps rows to it with
attempts, claims and breaker hidden: no event is settled before every sink has it, or it
is given up, and none is forgotten before.

Run `retries`, part `dispatcher`: two events, two sinks, two attempts of two tries, a breaker
that opens after two failures, two crashes, failed transactions or damaged rows. Two
events are enough to have one poisoned row ahead of another and batches of one and two;
rows are otherwise independent. Fairness is that of the dispatcher's thread and of time;
nothing is asked of the sinks, so `EventsSettle` says that an event is settled even when
they refuse it always.

`IntegrationOutboxProofs` proves for any number of events, any batch and any limits:
`TypeCorrect`; `ClaimsAreBounded`, from the invariant that a row in hand has an attempt
left over (`AttemptLeft`); and `PromiseIsKept`, the refinement, from the invariants that
rows in hand are owed (`InHand`) and that a point past a sink has that sink's acceptance
(`Delivered`).

## The automation worker

`AutomationEnforcement` models one account, the worker that polls it every 30 s, and the
operators who change it meanwhile. Each action is one call to RouterOS or one SQLite
transaction. The account's lock is taken as given (it is the subject of
`ReviewCoordination`): the worker in its section (`pc \in Section`) and an operator's
request (`opc # "idle"`) exclude each other.

| In the code | In the module |
|---|---|
| `_telemetry_loop`: users and sessions read without the lock | `Poll` |
| `_automation_state` under the lock | `Enter`; `policy`, `Expiring`, `Liftable`, `Manual` |
| `_automation_fresh_user` before and after the checkpoint | `Fresh`, `Restoring`, `CheckRestrict`, `CheckAgain` |
| intent, PATCH, readback, reason | `Intend`, `DisableUser`, `ConfirmDisabled`, `Settle`; `EnableUser`, `ConfirmEnabled` |
| `_automation_terminate_sessions` after a new list | `Cleanup`, `EndSession`, `CleanupDone` |
| RouterOS or Redis does not answer; SQLite fails | `PassFails`; `WorkerDies` |
| `_set_user_access`, bulk suspend, `_update_user_payload`, template application | `BeginJob`, `PatchUser`, `Unconfirmed`, `ConfirmJob`, `ClearRecord` |
| WinBox, the clock and the controls, VPN clients, the process dies | `DirectEdit`, `PolicyChanges`, `Connect`, `Disconnect`, `Crash` |

The history variable `owner` says who last decided whether the account is disabled,
`settled` that a suspension by an operator was confirmed, `waived` that an operator took
the restriction off the record since automation disabled the account.

| Run | Instance | What it shows |
|---|---|---|
| `progress`, part `worker` | a schedule and an expiry, two sessions, all jobs, three edits or changes of policy, one direct edit, three failures or crashes | what automation disabled stays on record, a confirmed suspension stands, a lasting restriction is enforced and its sessions ended, a lasting permission is restored (`RestrictionsSettle`) |
| `automation_manual` | a schedule, a suspension, one failure | **violated**: see Findings |

Three failures are a lost PATCH, a failed readback and a crash in one pass. The schedule
stands for the quota too, which the code treats alike. Two sessions let one arrive or
survive while another is ended.

Fairness: the worker's steps and those of a request that holds the lock are weakly fair.
The worker polls only while an administrator is signed in (`automation.py:616`), and what
is shown of it holds while one is. `PolicyChanges` may stop, clients need never leave.
The liveness properties except a worker that is dead: the loop catches `RouterOSError`
only, so a failing SQLite call ends the thread and automatic restrictions with it until
the process restarts. A PATCH takes effect before its readback or never.

`AutomationEnforcementProofs` proves for any sessions, edits, failures and crashes:

* `TypeCorrect`, with `UnderLock`: worker and operators exclude each other, an enforcing
  worker knows its restriction, and the intent is on record when the write goes out.
* `RestrictionsOnRecord`: `OnRecord`, inductive given `UnderLock`.
* `SuspensionsStand`: the action property `SuspensionStands`, from `SuspendedAlone`:
  after a confirmed suspension nothing is on record, and a worker that gets the lock
  saw the account enabled, so that its first fresh read sends it away.

Liveness stays with TLC.

## Telemetry

`TelemetryStream` follows live telemetry from the broker to the browser. Two threads, the
collector of VPN sessions and the sampler of interfaces, change the broker's cache and
publish what changed into the gateway's replay window; each Socket.IO client has a pump
that polls the window four times a second, and a `telemetry.subscribe` handler that polls
it when asked, both from the same cursor. What RouterOS reports is any report it could
make.

| In the code | In the module |
|---|---|
| `dispatch_if_active_authorization_ref`: one dispatch under the session store's lock | `Mutate` (the broker's part), `Publish` (the gateway's); `EndLogin` waits for both |
| `reconcile`, `apply`, `reconcile_interfaces` | `Reconcile`, `Apply` and `ApplyDead`, `ReconcileInterfaces` |
| a list shorter than the cache, a limit, a sample without an interface | `disconnected` events; `Overflow`, `evicted`: items dropped without an event |
| `publish`: room by number and by size, a frame too large | `Retained`, `Publishable` |
| `poll`: replay if no number is missing, else one snapshot | `Complete`, `Replay`, `Recovery`, `Polled` |
| a first cursor that may be of an earlier process | `Unbound`, `Ghost`: a session the page shows from before |
| `_pump`, `subscribe`, `_emit_authorized` | `PumpPoll`, `Subscribe`, `Emit` one frame at a time; `PumpRefused`, `EmitRefused` |

The history variable `shown` is what a browser knows that applies each frame it is sent,
`newest` and `overtaken` record that frames of `subscribe` and of the pump came in another
order than they were polled in.

One run, `telemetry_stream`, with two sessions (one at a time fits, so that one is
evicted), an interface, a counter that rises, falls and is left out, a window of two
frames, a snapshot that is too large once a session and an interface are in it, and one
client that comes and goes. Three sequence numbers are enough for a frame that leaves the
window, for a dispatch whose last frame is refused, and for a reset with its update; one
client is enough because clients share nothing but the window, which they only read. Its
limit on clients is not reached. It shows:

* `ShownIsExact`: a client that has been sent all that there is knows the broker's state.
  Three exceptions are part of its statement, because the code has them: what the broker
  drops without an event stays on the page until a snapshot; a client that sends no cursor
  may keep a session of an earlier process; and after `overtaken` frames the older one
  wins until a snapshot.
* `CatchesUp`: a pump that runs brings its client up to date, or ends. It ends, with the
  Socket.IO connection left open, when the recovery snapshot is too large (`poll` raises a
  `RuntimeError`, which `_pump` takes for the end of the server).

Fairness: a dispatch that began publishes, and the pumps run. Nothing is asked of RouterOS
or of browsers.

`TelemetrySupervisor` is the other end: the thread that collects the router's sessions,
with RouterOS's own list, which changes whenever it likes and is reported only to a stream
that is listening.

| In the code | In the module |
|---|---|
| `run_forever`, `run_attempt`: a login is chosen, its credentials leased, a connection opened | `Attempt`, `Fails`, `Wake`, `Stopped` |
| `_session_snapshot`, `_publish`, `_persist_session_snapshot` | `ReadSnapshot`, `Reconcile`, `Persist`, `Observed` |
| `listen` and its replies, the socket's timeout, `_watch_authorization` | `Listen`, `Reply`, `StreamEnds`, `GivesUp`, `Watch` |
| `stop`, `health` | `Stop`, `StopSeen`, `status` |
| the REST poll of `automation.py`, which writes the same history | `PollRead`, `PollStore` |
| RouterOS's sessions, dashboard logins ending | `Change`, `LoginEnds` |

Part `collector` of `progress` (one session, two logins, three changes of the list, two
outages) shows `CollectorCatchesUp`: once the list stays as it is, cache and connection
history come to show it, although a change between the snapshot and the listening is
reported to nobody and the two writers of the history hold lists of different ages; and a
stop ends the thread and leaves the status it should. Sessions do not meet but in the
list, so that one is enough; three changes let it come, go and come again between any two
steps, and an outage may be at any call. Fairness is that of the
three threads and of the socket's timeout, which is what brings the snapshot again.

## Live events and Engine.IO transports

`LiveResponse` is one `/api/events` response: the handler's thread writes events into one
end of a socket pair, the ASGI adapter reads the other end in a thread of its own and sends
to the browser; both hold the session's role check lock while they do, and a revocation
needs that lock.

| In the code | In the module |
|---|---|
| `_events`: validate, list, write under the lock, sleep, deadline | `CheckSession`, `AcquireToWrite`, `WritePiece`, `Written`, `WriteFails`, `Resume`, `HandlerGivesUp` |
| `DashboardHTTPASGI.__call__`, `_stream_response`, `_send_and_drain` | `Read`, `AcquireToSend`, `Sent`, `SendTimesOut`, `RefuseBody`, `Terminated`, `Collect` |
| `_close_on_disconnect`; a revocation of the session | `Disconnect`; `AskRevocation`, `Revoke` |

Part `events` of `progress` (events of three pieces, a pipe of two, three events before
the deadline) shows its share of `WaitsEnd`: the handler's thread ends even when nobody reads, a
revocation gets the lock however slow the browser and full the pipe, nothing is sent once
it has it. A pipe shorter than an event is what makes a writer block. `events_end` shows
what does not come: the end of the response.

`TransportAdmission` models `SocketIOLiveSendASGI` between two awaits of the event loop:
which Engine.IO transports a dashboard session may open and how long each counts.

| In the code | In the module |
|---|---|
| a handshake reserves a slot, a poll or an upgrade needs the binding | `Connect`, `Poll`, `Upgrade`, `PollRevoked`; `Admits`, `Counted` |
| the open packet turns the slot into a binding; a WebSocket claims the socket | `EngineOpens`, `SendOpen`, `Accept`, `Message`; `Refresh` |
| close packets, the end of the Engine.IO task, the `finally` clause | `SeesClose`, `TaskEnds`, `Leave`; `Finally`, `Closed`, `Unguarded` |
| timeout, cancellation, a task that will not stop | `Cut`, `Cancelled`, `Detach`, `DetachedEnds`; `Cleanup` |
| `disconnect_with_retry`, bindings past their TTL | `Teardown`, `DisconnectDone`; `Lapse` |
| Engine.IO drops a silent client; the session is revoked | `EngineDrops`; `Revoke` |

Three requests on a quota of one are the fewest that overlap an upgrade, the handshake it
upgrades and a handshake that would be one too many; liveness is checked with two.
A second cancellation of a request while its `finally` clause waits for the task's grace, which
would release the slot there (`asgi.py:2002`), is not modelled.
`TransportsAreCounted`: every socket Engine.IO has is counted against the session that
opened it, and so there are never more than admitted. `WaitsEnd` has the other direction:
once all is over the quota is free again, and a transport ends with its session.

`HandlerProofs` proves both parts of the first, `SocketsCounted` and
`ConnectionsWithinLimits`, for any number of requests, any sessions and any limits
(`TransportAssumption`: numbers, and a marker that is nobody). A socket leaves the count when its
slot or its binding is given back, and the `finally` clause, the callback of a task that would
not stop, the teardown and an expired binding all give back, in any order. `AdmissionInv` says
what a request may hold where it stands (`Handling`), that who is about to release a binding
has seen its socket end or the binding gone (`EndSeen`), that a binding waiting for upgrades has
no socket (`TornIsGone`), that upgrades are counted as they run (`UpgradesCounted`), and that
the sessions' counts are within the limits (`Quota`). The lemmas `FinallyKeeps` and
`GivingBackKeeps` say that what is given back takes no socket out of the count.

`HandshakeBuffers` is the same adapter's holding back of responses: a handshake's until its
id is bound, a poll's until it is authorised. `Begin`, `Head`, `Piece`, `Authorise`,
`SendStart`, `SendRest`, `Drained`, `Breaks` are what the Engine.IO task does; `TimeOut`,
`TaskStops`, `GraceEnds`, `TaskFailed`, `TaskReturned` the request around it; `CutSince`
and `StillUnbound` are the looks after which the task notices that its request has ended.
With two requests of a head and up to two pieces each and a budget of three, one of
them can fill it alone, or both together: the budget is what the requests under way hold
(`BytesAccounted`), each request is answered once, and what was held back does not go to a
session revoked in between.

`HandlerProofs` proves the last two for any requests, any budget and any size
(`AnsweredAtMostOnce`, `NothingLeaks`). Two may answer: the task, and the request when it ends.
`AnsweredFor` says why only one of them does: a task whose response started has bound its id,
so that the request does not refuse it, and a request that has ended has cut its task off.
`UnderLock` says that telemetry which is about to be sent is sent under the role lock, which
a revocation needs too. `BytesAccounted` is a sum over the requests, defined by a fold, and stays
with TLC.

`PollingBridge` is the bridge that the threaded server has in place of the adapter
(`telemetry_socketio_polling.py`): a bounded table of clients with a gateway subscription
each, and requests in threads of their own.

| In the code | In the module |
|---|---|
| a request and its principal, before the lock | `Arrive`, `Deny`; `Revoke` |
| handshake, POST, poll under the lock, each after the idle clients are dropped | `Handshake`, `Post`, `Poll`; `Idle`, `CloseAll` |
| the packets of one body, in order | `Do`, `DoAll` |
| the wait for the namespace, without the lock | `WaitEnds` |
| the response, written after the lock is released | `Write`, `Unwritten` |
| time and the gateway | `Ages`, `Publish` |

`SubscriptionsOwned`: every subscription belongs to a client of the table and every
subscribed client has one, within both limits. The one exception is part of the statement
(`orphans`): a body whose connect packet follows its own close packet opens a subscription
for a client that is gone. `NothingSkipped`: what was taken from the gateway for a client
that may poll again was written to it or is about to be, because a response that was not
written closes its client. A table of one and two ids let one client replace another; three
bodies are connect, connect and close, close and connect.

## Account handlers

Each handler is a sequence of calls with nothing atomic around it. In all of the modules
of this section a change may be refused, take effect and lose its answer, or never take
effect; a read may fail; a write of SQLite may fail; the Redis lease may be lost. Mishaps
are bounded by `MaxMishaps`. What a lost call did is settled before the next one: RouterOS
does not carry a command out after its client gave up. Receipts are `ReviewCoordination`
and are not repeated. Each module has the VPN client, or another administrator, as an
actor of its own.

| Module | Handlers (`app.py`, `routeros.py`) | Actions |
|---|---|---|
| `AccountMutations` | creation with its compensation, `_provision_user` | `ReviewCreate`, `EnsureRate`, `PutAccount`, `WhichId`, `StoreSettings`, `ProvisionFirst`, `RecordFirst`, `DeliverFirst`; `UndoCert`, `UndoneCert`, `UndoAccount`, `UndoFound`, `Relist`, `RateLeft`, `Forget` |
| | a device profile, `_create_profile` | `ReviewIssue`, `Issue`, `IssueRecord`, `IssueDeliver`, `IssueUndo`, `IssueUndone`, `IssueLocal` |
| | deletion, `_delete_user` | `ReviewDelete`, `Disable`, `Disabled`, `ListTunnels`, `Disconnect`, `Disconnected`, `RevokeNext`, `RevokedNext`, `DeleteAccount`, `Gone`, `Clear` |
| | one device, `_revoke_device` | `ReviewRevoke`, `Revoke`, `Revoked` |
| `ProfileProvisioning` | `provision_profile`, `_ensure_ca_export`, `_delete_file`, `_remove_uncommitted_certificate` | `Create` to `Verify`, one action per request; `InventoryLeft`, `DropFile`, `GoneFile`, `FindCert`, `DropCert`, `GoneCert` |
| `AccountSessions` | password change, `_update_user`, `_revoke_active_user_sessions` | `ReviewUpdate`, `Patch`, `Capture`, `Check`, `Drop`, `LostDrop`, `LastLook`, `Confirm` |
| | `_set_user_access`, `_terminate_session` | `ReviewSuspend`, `ReviewRestore`, `ReadBack`, `Cut`, `Count`; `ReviewTerminate`, `Terminate`, `Poll` |
| `BulkChanges` | `_bulk_user_action`, `_policy_template_action` | `NextAccount`, `Patch`, `ReadBack`, `Cut`, `Count`, `Settle`, `Revoke`, `Revoked`, `Rate`, `Assign`, `ReadProfile`, `TurnLost`, `AllDone` |
| `ProfileMigration` | `_confirm_profile_migration_step`, `_revoke_device` for a replaced certificate, the rows of `store.py` | `BeginIssue`, `Issue`, `Record`, `Undo`; `BeginStep`, `CheckCertificates`, `ListSessions`, `RecordStep`; `BeginRetire`, `Review`, `SendRevoke`, `ReadBack`, `StoreRetired` |
| `ProfileShares` | `ProfileShareStore` and the download handlers | `Put`, `Publish`, `Take`, `Available`, `Landing`, `Lapse`, `Unlock`, `PurgeThread`, `Close` |
| `CredentialChecks` | `LoginRateLimiter`, `_login`, `_reauthenticate`, `_revoke_admin_session`, `_revoke_admin_account_sessions`, `_revoke_own_other_sessions` | `Begin`, `Unverified`, `Verified`, `CommitLogin`, `Rotate`, `Recheck`, `StartRecord`, `Revoke`, `Close`, `WriteLoginAudit`, `WriteAdminAudit`, and the passing of windows |

What the run `request_handlers` shows of them:

* `AccountsFollowRouter`. A deletion reported as success left no account and no active
  managed certificate of it; a creation reported as recovered removed its account and revoked
  the certificate it was handed (not: left no certificate; see Seen while modelling); a device
  row is closed only when the router confirmed; cleanup takes neither the settings of a
  registered account nor an account another administrator made meanwhile; when a creation
  that set a rate is reported as recovered, the rate profile is as it was found
  (`RateAsBeforeStep`). Three requests, two mishaps, two certificates: a deletion, a creation
  of the same name and a failure of each. A failure is followed by a compensation that may fail as well, hence two mishaps.
* `ProvisioningIsClean`. Two calls share the router's files and its one CA export: each
  returns the profile of its own certificate with the current CA, says honestly what it
  left behind, and removes nothing of the other's.
* `TunnelsEnd`. After a password change reported as verified no tunnel of the old password
  is up, *except* on a row of the reviewed list that was used again (see Seen while
  modelling); an account reported as suspended has no tunnel until it is enabled; a session
  reported as terminated is gone. Two rows, two sessions: a row is used again.
* `BulkIsReported`. Everything a request changed is in the outcomes it answers, also when
  its lock is lost between two accounts; what it calls verified is so when it says it;
  assignments and device rows follow the router.
* `MigrationKeepsAccess`. A recorded test stands on a recorded import and on a session that
  the import did not find, and RouterOS was asked for it after the import, *except* when the
  test was begun for an earlier replacement (see Seen while modelling); a retired certificate
  is revoked; a retirement is verified only if the old certificate was revoked while the
  replacement was active. `Record` may fail before or after its row is committed. Five
  requests: a replacement, its import, its test, a preview and a retirement, or a second
  replacement in their place.
* `SharesAreLimited`. Downloads and wrong codes stay within their limits for any
  interleaving of two clients over two shares; nothing is downloaded late; a link works
  when it is published, and "gone" is final. Six takes reach both limits twice.
* `CredentialsAreGuarded`. In one window RouterOS is not asked for more than the limit of
  wrong passwords per identity, reservations neither leak nor exceed memory, each refusal
  is in the audit or still to be; an administrator revokes only while allowed to, and is
  told what happened. Limit two, three in flight, one identity remembered of two, three
  requests: every bound of the limiter is reached.

The two workers of the run are interchangeable, which its symmetry uses.

`HandlerProofs` (shares, migration) and `AccountProofs` (accounts, tunnels, several accounts,
provisioning) prove six of these properties part by part, for any workers, any bounds on
requests and mishaps, and any kinds of request; `RequestHandlersProofs` puts the parts together.
The types are `AccountTyped`, `SharesHaveTypes`, `MigrationHasTypes`, `TunnelsHaveTypes`,
`BulkHasTypes` and `ProvisioningHasTypes`. That passwords are numbered by the requests there may
be is no matter of types alone: `TunnelBounds` says that a password is changed at most once for
each password request that has begun (`ToChange`).

* Of `AccountsFollowRouter` all: `DeletedStaysGone`, `SettingsOfRegistered`,
  `RecoveryIsVerified`, `ClosedRowsAreRevoked`, `AccountTyped`, and of the steps
  `ForeignAccountsAreLeft` and `RateIsAsBefore`, for any certificates and tunnels
  (`AccountAssumption`). `Moves` is all that the step of one request, administrator or client
  may do to what another relies on: a lock changes hands only through who has it, an account
  goes only by who holds its locks, an id or a revocation is never taken back. Against that,
  `FlowKnows` is what a request knows with or without its locks, `FlowRelies` what it knows
  while it has them (`Owns`), and, for a creation, has not been told that it lost them (`Sure`):
  that the account is the one it made, that the settings are its own, that the rows not yet
  closed are among those it will revoke (`ClosedBut`). `FlowSays` is what its answer claims.
  `IdsLeft` shows that the model's account ids suffice: a new account follows a removal or an
  empty router, and a request removes once.

* Of `SharesAreLimited` all: `DownloadsAreBounded`, `WrongCodesAreLocked`, `NothingIsLate`,
  `LinksTellTheTruth`, for any clients, any non-empty set of shares and limits that are not
  zero (`ShareAssumption`). `ShareInv` adds that what was sent is what the share counts
  (`SharesCount`), that a closed store is empty, and that who was told "gone" was told so of a
  share that was made and is not held (`SharesEnd`); ids are never drawn twice.
* Of `MigrationKeepsAccess` all: `TestsStandOnImports` and `RetirementsAreHonest`. Two facts make
  it inductive. `Aimed`: a replacement that is being recorded is new, no row and no confirmation
  names it, so that a test begun for the row's replacement was begun when its import was on
  record. `RetirementsSeen`: a replacement that is active while the old
  certificate is revoked is on record as such (`bridged`, which nothing takes back), and who is
  about to store a retirement as verified has seen its replacement so.
* Of `TunnelsEnd` all: `OldPasswordIsOut` and `EndedStaysEnded`, for any number of tunnels and
  of rows. `Relies` is what a handler counts on where it stands: until its last look the
  tunnels it saw are among those it marked, it wrote no later password than the account has,
  and while a suspension that still has its lock cuts tunnels the account is disabled. `Claims`
  is what its answer says, and stays true while tunnels come and go: a tunnel of an older
  password was not there when the handler last looked, or uses again a row that it had
  reviewed. `SessionsMove` is all that the world may do to tunnels.
* Of `BulkIsReported` all: `OutcomesTellAll`, `VerifiedIsSo` and `StoreIsBehind`, for any
  numbered accounts and devices and any templates (`BulkAssumption`). `Accounted` says that
  what a request touched is in its outcomes, but for the account whose turn it is, whose
  change it knows to have begun. `Sees` is what it has seen of that account: it stays so while
  the lock is not lost, whatever other requests and clients do (`OthersRely`), and a lost lock
  is noticed before anything is said.
* Of `ProvisioningIsClean` all: `ReturnedProfileIsOwn`, `EndingsSayWhatIsLeft`
  and `OthersFilesAreLeft`, for any number of calls at once. `FilesOK` is that file ids are not
  used again and that there is one CA export at most. Of a call, `CallKnows` says what the ids
  it noted stand for, `CallMade` which files it may have made where it stands, and `CallLeaves`
  that a cleanup which believes itself complete has every file of the call on its list; all
  three survive what other calls do to the file list (`QuietForKeeps`), which is that they make
  files with new ids, remove their own, and write the shared CA export again.

`RequestHandlersProofs` proves `CredentialsAreGuarded` (`CredentialsGuarded`) and the action
property `RevokesWithStanding` (`StandingSeen`) for any finite set of workers, any identities,
finite or not, and any limits. The invariant `CredInv` says of the limiter that stamps and
reservations of an identity together stay within the limit (`WithinLimit`), that a reservation is
held by exactly the checks under way (`SlotsAreHeld`), and that the identities remembered are
finite and few (`Memory`); of the audit that one handler writes the aggregate, which has begun
a new count (`OneWriter`); and of each request what its place in the code implies
(`Handling`). That all identities together have at most `MaxInFlight` reservations is a guard of
`Begin` and no part of the theorem.

## Locks of several accounts

`MutationLocks` is `resource_lock`, `resource_locks` and `mutation_locks`: a key is taken
in two stages, first the stripe its hash selects among the process's re-entrant thread
locks, then its lease in Redis; a mutation takes the provisioning gate, its keys in sorted
order, and lets the gate go. `TakeStripe`, `TakeLease`, `GiveUp`, `Ungate`, `Leave`.

`LocksLeadOut` (three requests of two processes, three keys on two stripes): no key is held
twice, and requests never wait in a circle, *although the order of the keys is not the
order of their stripes*: `Distance` shows that who is waited for is nearer to its end. It is
the gate that makes it so. `WaitsEnd` (two requests of one process) has that each gets its
locks or gives up, without assuming that the wait for a lease times out. The lapse of a
lease is `ReviewCoordination`'s. With three requests two can queue for keys of a third that
share a stripe with another key; more requests repeat that.

`HandlerProofs` proves `KeysAreExclusive` (`KeyHeldOnce`) and `NoCircularWait`
(`WaitsLeadOut`) for any requests, processes and stripes, any set of numbers as keys and any
placing of keys on stripes; `LockAssumption` asks no more. The invariant `LockInv`: a lease in
Redis is held by the request that has its key (`LeasesAgree`), a request has no key before the
gate (`GateFirst`), and two requests of a process share no stripe (`StripesApart`). From it
`WaitsLeadOut` follows: there is one gate, so that who is waited for by its holder is not taking
keys any more.

## Session limits

`SessionLimit` is `_enforce_automation_session_limit`: `Poll`, `Enter`, `Account`, `List`,
`Begin`, `Look`, `Delete`, `ReadBack`, `Done`; clients connect and leave, an operator saves
another limit, the lock is lost, the worker dies. Four sessions on three rows, limits of one
and two, one save and one mishap; `SessionLimitHolds`: the worker ends no session that is
within the limit, whatever list it started from, and the account comes down to its limit
unless SQLite ended the worker. Fairness is that of the worker.

## The Binary API connection

`BinaryApi` is one connection of `routeros_binary.py`: the codec of word lengths, the reader
that takes sentences from the bytes as `recv` cuts them, the limits on what is kept of an
answer, and the thread that watches the authorisation and may close the socket at any time.

| In the code | In the module |
|---|---|
| `encode_length`, `decode_length`, `encode_sentence` | `EncodeLength`, `LengthSize`, `Truncated`, `DecodeLength`, `EncodeSentence` |
| `SentenceReader.feed`, `_complete_sentence` | `Feed`, `Complete`, `Kept`, `Emitted` |
| `execute`, `listen`, `_request`, `_read_sentence` | `Send`, `Begin`, `Drain`, `Receive`, `FeedChunk`; `Remaining`, `ReadLimit`, `Acceptable` |
| `close`, any error; the watching thread | `Close`, `Fail`; `Cut` |

The router is not under `src/`: it answers each tag with records, replies of a kind the client
does not know, an error ("trap" or "fatal"), or an end, which is "done", or "empty" with or
without a "done" after it (`Answers`); it may send a sentence that is no reply to the request
under way (`Strays`), and may end the connection. `execute` returns all replies up to the first
end, "done" or "empty"; `listen` yields records until "done" and passes other kinds over
(`Keeps`, `Ends`). Any send or `recv` may time out (`FailWith`).

`AnswersAreRead` (part `connection`): a call that returns has all that the router said to its
tag up to the reply that ends it, in order, each word as it was encoded; a call that fails has a
reason: a limit, an error from the router, the end of the connection, a timeout, the watching
thread, a sentence that is not its own, or a "done" that the call before it, which returned at
"empty", left unread (`Behind`); what the reader keeps is bounded, and a call that fails closes
the connection.

The instance is cut down to where the code branches: values of 128, 129 and 130 bytes stand
about the step from one byte of length to two, and a value of one byte leaves room for several
replies. A word limit of 129, a field limit of 128, a sentence of 136, an answer of 145 bytes, of
seven words and of three replies are each met exactly and passed by one. A `recv` returns nine
bytes or all there is, so that lengths, words and sentences are cut in the middle. After three
replies in all the router says no more records (`MaxRecords`), but can still end an answer. It
stops sending while more than five bytes (`Window`) are under way, which loses no order, because
bytes of a stream wait behind each other anyway.

## Release promotion

`ReleasePromotion` has three actors and the router. The on-router updater
(`BeginRun`, `PollCanary`, `Soak`, `Stage`, `RollBackCanary`, `InterruptRun`), the collection
of evidence (`BeginCollection`, `SampleBoth`, `Eligible`), and the promotion controller
with `deploy` (`BeginPromotion`, `Check`, `Find`, `Command`, `Await`, `Probe`,
`RecordPromotion`, and on a failure `Look`, `RequirePrior`, `ResetLastGood`, `Quarantine`).
Operators change containers, clear the failure and roll back (`ByHand`, `ClearFailure`,
`RollbackLastGood`), the controller may be killed, a command lost.

`PromotionIsSafe`: the controller writes to production only an image the canary itself ran
during a whole soak; the last good image is one production has run; what the controller
printed last is so unless production was changed by hand. Two images are enough for a
candidate and a prior one and for their exchange; two samples for a change between two;
one manual change, one mishap, one release and two promotions are what each of the checks is
there for, and both orders of any two of them occur. The answer is judged while nobody has
changed production by hand: after "promoted" the candidate runs, after "restored" or
"unrecorded" the prior image does.

`ReleasePromotionProofs` proves the three parts of the property for any images, any number
of samples and any bounds: `OnlySoaked` (`PromotedWasSoaked`), `LastGoodHasRun`
(`LastGoodServed`), `AnswersHold` (`OutcomeHonest`). The assumption is `ReleaseAssumption`:
the first image is an image and `None` is not, samples are a number, the retry limit is
positive. The properties are not inductive: that the candidate was soaked depends on what the
updater saw several runs before. `ReleaseInv` adds that who acts knows its images
(`Named`), that a container that runs was seen to (`SeenRunning`), that the updater soaks a
canary that has not failed since and stages only such an image (`Soaking`), that an image about
to be recorded has run (`Recording`), and what production is at each step of `deploy`
while nobody else writes to it (`Answering`).

## Findings

Each is a run with one property, taken from the text it contradicts; `PROJECT.json` quotes
it.

* `review_restart`: a restart of Redis between the check of the run id and the script
  that advances the revision goes unnoticed, though the README says coordination then
  fails closed: an apply reviewed before the restart is approved after it.
* `session_overlap`: a login that takes its generation while one revocation is under way
  survives a second revocation that begins before the first has completed, because the
  generation moves only with the first.
* `session_missing`: RouterOS's answer that an account is missing is thrown away when a
  rotation has marked the session meanwhile, and the account gets a new session.
* `events_end`: see Live events; the end of an `/api/events` response never comes.
* `automation_manual`: an operator suspends an account that automation has restricted and
  the readback fails; the restriction stays on record, and the worker enables the account
  when the window opens.

## Seen while modelling

What follows contradicts no property of a run, or only a sentence that no run quotes. A
reader of the code may want to know it.

* Saving an account's form, or applying a template, takes the restriction of an account
  that automation has disabled off the record, after which the account counts as suspended
  by an operator and is not enabled when the window opens (`waived` in `OnRecord` and
  `Lifted`).
* A password change leaves a tunnel of the old password alone when it took over a row of
  the reviewed list, and reports "verified" (`app.py:5957-5963`, against the comment at
  `5941-5944`). `RevokedButForReusedRows` states what holds.
* A failed creation may leave the certificate of a profile that was never returned, where
  `provision_profile` itself could not remove it, and calls its recovery verified
  (`app.py:5149`), where `docs/MUTATION_SAFETY.md:13` promises more. `RecoveredTakesBack`, and
  with it `AccountsFollowRouter`, speaks of the certificate that the handler was handed, and
  does not say that a recovered creation left none.
* A generated rate profile bears the account's name, and a creation reported as recovered
  leaves it to the next creation of that name, which may set it (`routeros.py:893-925`). That
  it is as found holds when the recovery is reported (`RateAsBeforeStep`), not for ever: as a
  state invariant it fails after a deletion, a failed creation and a second creation.
* `record_profile_migration_step` finds its row by the old certificate's name alone
  (`store.py:1141-1187`): a confirmation begun for one replacement can be recorded for the
  next, and a test may then be of a session from before its import, though
  `docs/MUTATION_SAFETY.md:21` asks for a session seen after it, and
  `docs/ROUTE_AUTHORIZATION.md:104` has the handler look at the certificates of the replacement
  that is confirmed. `TestsFollowImports` says that RouterOS was asked after the import only of a test
  begun for the replacement in the row.
* A template that would change nothing is answered "unchanged" from the reviewed list,
  without a read of the router (`app.py:6727-6732`). That the assignment in SQLite can fail there
  is left out of `BulkChanges`; in the branch that changes something it is modelled.
* `execute` returns at an "empty" reply (`routeros_binary.py:550`). Where a "done" with the same
  tag follows, it stays unread, and the next request of the connection, the `listen` after the
  snapshot of no sessions, fails at its tag (`routeros_binary.py:592`) and closes the connection.
  `FailsForAReason` names it as a reason (`Behind`).
* `rollback-last-good` deploys the image that the promotion itself wrote as last good
  (`docs/ROUTER_LOCAL_AUTOMATION.md:435-441` has it undo a promotion).
* One failure file holds one image: a failure of another image replaces a quarantine
  (`immutable-release-updater.rsc.example:633-634`), and the promotion never reads it.
* When `deploy` refuses because production has drifted, `promote`'s exception path deploys
  the prior image over the operator's change all the same.
* A later piece of the body of a handshake's response would be sent unfiltered after the id
  is bound (`asgi.py:1790-1805`); Engine.IO sends one body message, so that no run reaches it.

## Plan

1. Done, with proofs: `ReviewCoordination` and its refinement of `ReviewedChanges`,
   `IntegrationOutbox` and its refinement of `OutboxPromise`, `AutomationEnforcement`,
   `SessionStore`, `CredentialChecks`, `MutationLocks`, `TransportAdmission`,
   `ReleasePromotion`, `ProfileShares`, `ProfileMigration`, `AccountSessions`, `HandshakeBuffers`,
   `BulkChanges`, `ProfileProvisioning`, `AccountMutations`.
2. Done, model-checked: the other modules above.
3. Next: an abstract promise of `AccountMutations` (an account is whole, or reported as in
   doubt) and the proof that it is kept; the induction that `SessionLimit` and
   `PollingBridge` would need if their sequences were sets of numbered items.
4. Only checked, and to stay so: all liveness; `ShownIsExact` and the types of
   `TelemetryStream`, whose broker folds over sequences; `AnswersAreRead`, since the reader of
   `BinaryApi` recurs over bytes; of `TransportsAreCounted` what `PollingBridge` promises, which
   runs over the packets of a body, and `BytesAccounted`, a sum (its other parts are proved of
   their components); `SessionLimit`, which filters sequences. What these compute for every
   input needs induction over data. `ENABLED` occurs in no property but through fairness.

## Not modelled

The components with status `not_modelled` in `PROJECT.json`, with the reason each, and the
parts that the notes of the others name: reads, previews and reports, the login of the binary
protocol and the parsing of its attributes, single-statement rows of the store, the browser, the first installation. Nothing here says anything about the
contents of messages, templates, certificates or logs, about time beyond the order of
events, or about several RouterOS devices: the service has one.
