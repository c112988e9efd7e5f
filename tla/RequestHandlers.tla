--------------------------- MODULE RequestHandlers ---------------------------
(***************************************************************************)
(* The components that request handlers and scripts consist of, side by    *)
(* side.  They share no state: `part` says which of them a behaviour is    *)
(* about.  The checks of credentials have the variables of                 *)
(* CredentialChecks; any other component has x1, x2, ... in the order its  *)
(* INSTANCE lists them, and those it does not use stay 0.  So the states   *)
(* of the whole are the states of the components, added up.                *)
(***************************************************************************)
EXTENDS CredentialChecks

CONSTANTS
  AccountKinds, Tunnels, MaxAccountRequests, MaxAccountMishaps, MaxCerts,
  MaxProfileMishaps,
  TunnelKinds, Rows, MaxTunnels, MaxTunnelRequests, MaxTunnelMishaps,
  BulkKinds, Accounts, Templates, Devices, MaxBulkRequests, MaxBulkMishaps,
  Shares, MaxDownloads, MaxFailures, MaxTakes,
  MigrationKinds, Replacements, MaxMigrationRequests, MaxMigrationMishaps,
  MaxTransports, Logins, MaxConnections, MaxPerSession,
  LockRequests, Processes, ProcessOf, LockKeys, Slots, SlotOf,
  Images, NoImage, First, Samples, RetryLimit, MaxManual, MaxReleaseMishaps, MaxReleases,
  MaxPromotions,
  Responses, Budget, MaxBody,
  Bodies, MaxClients, MaxSubs, MaxSids, MaxFrames, MaxBridgeMishaps,
  Calls, Values, Cuts, MaxWord, MaxField, MaxSentence, MaxWords, MaxResponse, MaxReplies,
  MaxResponseWords, MaxApiRequests, MaxRecords, MaxStrays, Window

VARIABLES part, x1, x2, x3, x4, x5, x6, x7, x8, x9, x10, x11, x12, x13, x14,
          x15, x16, x17

Account == INSTANCE AccountMutations WITH
    mishaps <- x1, cert <- x2, holder <- x3, req <- x4, begun <- x5,
    account <- x6, rateSet <- x7, tunnels <- x8, made <- x9, nextId <- x10,
    device <- x11, settings <- x12, registered <- x13,
    Kinds <- AccountKinds, MaxRequests <- MaxAccountRequests, MaxMishaps <- MaxAccountMishaps
Profile == INSTANCE ProfileProvisioning WITH
    mishaps <- x1, cert <- x2, job <- x3, files <- x4, nextFile <- x5,
    Provisioners <- Workers, MaxMishaps <- MaxProfileMishaps
Session == INSTANCE AccountSessions WITH
    mishaps <- x1, live <- x2, holder <- x3, req <- x4, begun <- x5,
    disabled <- x6, rowOf <- x7, named <- x8, openedBy <- x9, password <- x10,
    shutOut <- x11, Kinds <- TunnelKinds, MaxSessions <- MaxTunnels,
    MaxRequests <- MaxTunnelRequests, MaxMishaps <- MaxTunnelMishaps
Several == INSTANCE BulkChanges WITH
    mishaps <- x1, online <- x2, holder <- x3, req <- x4, begun <- x5,
    disabled <- x6, profile <- x7, revoked <- x8, closed <- x9, assigned <- x10,
    touched <- x11, Kinds <- BulkKinds, MaxRequests <- MaxBulkRequests,
    MaxMishaps <- MaxBulkMishaps
Share == INSTANCE ProfileShares WITH
    items <- x1, overdue <- x2, closed <- x3, made <- x4, published <- x5,
    step <- x6, delivered <- x7, wrong <- x8, takes <- x9, Clients <- Workers
Retire == INSTANCE ProfileMigration WITH
    managed <- x1, old <- x2, cert <- x3, sessions <- x4, row <- x5,
    local <- x6, reviews <- x7, issuing <- x8, req <- x9, bridged <- x10,
    begun <- x11, mishaps <- x12, Kinds <- MigrationKinds,
    MaxRequests <- MaxMigrationRequests, MaxMishaps <- MaxMigrationMishaps
Transport == INSTANCE TransportAdmission WITH
    live <- x1, sockets <- x2, ledger <- x3, req <- x4, Sessions <- Logins,
    MaxRequests <- MaxTransports
Lock == INSTANCE MutationLocks WITH
    at <- x1, keeps <- x2, wants <- x3, got <- x4, half <- x5, lease <- x6,
    coordinated <- x7, Requests <- LockRequests, Keys <- LockKeys
Release == INSTANCE ReleasePromotion WITH
    box <- x1, stable <- x2, pending <- x3, lastGood <- x4, failure <- x5,
    updater <- x6, window <- x7, job <- x8, outcome <- x9, soaked <- x10,
    steady <- x11, served <- x12, touched <- x13, manual <- x14,
    mishaps <- x15, releases <- x16, promotions <- x17,
    None <- NoImage, MaxMishaps <- MaxReleaseMishaps
Buffer == INSTANCE HandshakeBuffers WITH
    req <- x1, total <- x2, session <- x3, leaked <- x4, Requests <- Responses
Bridge == INSTANCE PollingBridge WITH
    client <- x1, subs <- x2, cursor <- x3, published <- x4, allowed <- x5,
    req <- x6, sent <- x7, orphans <- x8, mishaps <- x9, Sessions <- Logins,
    Threads <- Workers, MaxMishaps <- MaxBridgeMishaps
Api == INSTANCE BinaryApi WITH
    sock <- x1, ended <- x2, wire <- x3, buffer <- x4, scan <- x5, words <- x6,
    tag <- x7, call <- x8, chunk <- x9, todo <- x10, said <- x11, given <- x12,
    cut <- x13, strays <- x14, result <- x15, asked <- x16, late <- x17,
    MaxRequests <- MaxApiRequests

\* What the components ask of their constants.
ASSUME HandlersAssumption ==
  /\ Account!AccountAssumption /\ Several!BulkAssumption /\ Share!ShareAssumption
  /\ Transport!TransportAssumption /\ Lock!LockAssumption /\ Release!ReleaseAssumption
  /\ {MaxProfileMishaps, MaxTunnelRequests, MaxTunnelMishaps, MaxBulkRequests, MaxBulkMishaps,
      MaxMigrationRequests, MaxMigrationMishaps} \subseteq Nat
  /\ MaxTunnels \in Nat \ {0} /\ Rows # {} /\ Shares # {}

-----------------------------------------------------------------------------
\* The variables after the first n are not used.
Off15 == x16 = 0 /\ x17 = 0
Off13 == x14 = 0 /\ x15 = 0 /\ Off15
Off12 == x13 = 0 /\ Off13
Off11 == x12 = 0 /\ Off12
Off9 == x10 = 0 /\ x11 = 0 /\ Off11
Off7 == x8 = 0 /\ x9 = 0 /\ Off9
Off5 == x6 = 0 /\ x7 = 0 /\ Off7
Off4 == x5 = 0 /\ Off5
Off0 == x1 = 0 /\ x2 = 0 /\ x3 = 0 /\ x4 = 0 /\ Off4

Kept15 == x16' = x16 /\ x17' = x17
Kept13 == x14' = x14 /\ x15' = x15 /\ Kept15
Kept12 == x13' = x13 /\ Kept13
Kept11 == x12' = x12 /\ Kept12
Kept9 == x10' = x10 /\ x11' = x11 /\ Kept11
Kept7 == x8' = x8 /\ x9' = x9 /\ Kept9
Kept5 == x6' = x6 /\ x7' = x7 /\ Kept7
Kept4 == x5' = x5 /\ Kept5
Kept0 == x1' = x1 /\ x2' = x2 /\ x3' = x3 /\ x4' = x4 /\ Kept4

PartsInit ==
    /\ Init
    /\ \/ part = "accounts" /\ Account!Init /\ Off13
       \/ part = "certificates" /\ Profile!Init /\ Off5
       \/ part = "sessions" /\ Session!Init /\ Off11
       \/ part = "bulk" /\ Several!Init /\ Off11
       \/ part = "credentials" /\ Off0
       \/ part = "shares" /\ Share!Init /\ Off9
       \/ part = "migration" /\ Retire!Init /\ Off12
       \/ part = "transports" /\ Transport!Init /\ Off4
       \/ part = "locks" /\ Lock!Init /\ Off7
       \/ part = "release" /\ Release!Init
       \/ part = "buffers" /\ Buffer!Init /\ Off4
       \/ part = "polling" /\ Bridge!Init /\ Off9
       \/ part = "connection" /\ Api!Init

\* A step of a component with variables of its own.
Elsewhere ==
    \/ part = "accounts" /\ Account!Next /\ Kept13
    \/ part = "certificates" /\ Profile!Next /\ Kept5
    \/ part = "sessions" /\ Session!Next /\ Kept11
    \/ part = "bulk" /\ Several!Next /\ Kept11
    \/ part = "shares" /\ Share!Next /\ Kept9
    \/ part = "migration" /\ Retire!Next /\ Kept12
    \/ part = "transports" /\ Transport!Next /\ Kept4
    \/ part = "locks" /\ Lock!Next /\ Kept7
    \/ part = "release" /\ Release!Next
    \/ part = "buffers" /\ Buffer!Next /\ Kept4
    \/ part = "polling" /\ Bridge!Next /\ Kept9
    \/ part = "connection" /\ Api!Next

PartsNext ==
    /\ part' = part
    /\ \/ part = "credentials" /\ Next /\ Kept0
       \/ Elsewhere /\ UNCHANGED vars

partVars == <<vars, part, x1, x2, x3, x4, x5, x6, x7, x8, x9, x10, x11, x12,
              x13, x14, x15, x16, x17>>

PartsSpec == PartsInit /\ [][PartsNext]_partVars

-----------------------------------------------------------------------------

\* Whatever fails on the way, a deletion reported as success is complete, a
\* creation reported as recovered removed its account, revoked the certificate it
\* was handed and found the rate profile as it was when it reports so, device rows
\* are closed when the router confirmed, no cleanup takes the settings of a
\* registered account, and compensation removes nobody else's account.  Not said: that
\* a recovered creation left no certificate; one that provision_profile left when it
\* failed was handed to nobody and stays (app.py 5030-5247, 7565-8080).
AccountsFollowRouter ==
    /\ [](part = "accounts" =>
           /\ Account!TypeOK
           /\ Account!DeletedIsGone
           /\ Account!RecoveredTakesBack
           /\ Account!RowsFollowRouter
           /\ Account!SettingsStay)
    /\ [][part = "accounts" =>
            Account!ForeignAccountsStandStep /\ Account!RateAsBeforeStep]_partVars

\* Of two provisionings at once, each returns the profile of the certificate it
\* made, says honestly how it ended, and removes its own files only
\* (routeros.py 1040-1447).
ProvisioningIsClean ==
    /\ [](part = "certificates" =>
           /\ Profile!TypeOK
           /\ Profile!ProfileIsOwn
           /\ Profile!EndingsAreHonest)
    /\ [][part = "certificates" => Profile!OthersFilesStandStep]_partVars

\* After a verified password change no tunnel of the old password is left but on
\* a reused row; a reported suspension lasts; a session reported as terminated
\* is gone (app.py 5921-6054, 7293-7505, 8283-8431).
TunnelsEnd ==
    part = "sessions" =>
        /\ Session!TypeOK
        /\ Session!RevokedButForReusedRows
        /\ Session!SuspendedStaysOut
        /\ Session!TerminatedIsGone

\* A bulk request that fails half way answers with all it changed, calls an
\* account verified when it is, and keeps assignments and device rows with the
\* router (app.py 6656-6818, 6990-7160).
BulkIsReported ==
    /\ [](part = "bulk" => Several!TypeOK /\ Several!ChangesAreReported)
    /\ [][part = "bulk" =>
            Several!VerifiedWhenSaidStep /\ Several!StoreFollowsRouterStep]_partVars

\* A share is downloaded as often as it may be, wrong codes lock it, nothing is
\* downloaded past expiry or close, and a link works when it is published and
\* does not when it is reported gone (app.py 737-890).
SharesAreLimited ==
    /\ [](part = "shares" =>
            Share!TypeOK /\ Share!DownloadsBounded /\ Share!WrongCodesLock)
    /\ [][part = "shares" => Share!NothingLateStep /\ Share!LinksAreHonestStep]_partVars

\* A recorded test stands on a recorded import and on a session that the import did
\* not find, listed after the import if the test was begun for the replacement in the
\* row; of a test begun for an earlier replacement the latter is not said.  A retired
\* certificate is revoked, and a verified retirement left the user a way in
\* (store.py 1117-1187, app.py 8134-8246).
MigrationKeepsAccess ==
    part = "migration" =>
        /\ Retire!TypeOK
        /\ Retire!TestsFollowImports
        /\ Retire!RetiredIsRevoked
        /\ Retire!RetirementLeavesAWay

\* Every Engine.IO socket counts against its session and the quota, whichever
\* task outlives its request; held-back responses are what their budget counts,
\* are sent once, and send no telemetry to a session revoked meanwhile; of the
\* polling bridge no subscription outlives its client and no client that goes on
\* polling misses a frame (asgi.py 690-870, 1379-2006,
\* telemetry_socketio_polling.py 62-178).
TransportsAreCounted ==
    /\ part = "transports" => Transport!SocketsAreCounted /\ Transport!ConnectionsBounded
    /\ part = "buffers" =>
           /\ Buffer!TypeOK
           /\ Buffer!BytesAccounted
           /\ Buffer!AnsweredOnce
           /\ Buffer!NothingHeldBackLeaks
    /\ part = "polling" =>
           /\ Bridge!TypeOK
           /\ Bridge!SubscriptionsOwned
           /\ Bridge!NothingSkipped

\* No key is locked twice, and requests of two processes that lock several do not
\* wait for each other in a circle (app.py 944-980).
LocksLeadOut ==
    part = "locks" => Lock!TypeOK /\ Lock!KeyHeldOnce /\ Lock!WaitsLeadOut

\* What is promoted was soaked on the canary, what is recorded as the last good image
\* has run in production, and the controller's answer tells what production runs
\* (promote_routeros_release.py 289-445).
PromotionIsSafe ==
    part = "release" =>
        /\ Release!TypeOK
        /\ Release!PromotedWasSoaked
        /\ Release!LastGoodServed
        /\ Release!OutcomeHonest

\* A request of the Binary API returns the whole answer to its tag up to the reply
\* that ends it, however the stream is cut, or fails for a reason and closes the
\* connection; one such reason is a "done" that an earlier request, which returned at
\* "empty", left unread (routeros_binary.py 141-300, 442-606).
AnswersAreRead ==
    part = "connection" =>
        /\ Api!TypeOK
        /\ Api!AnswersAreWhole
        /\ Api!FailsForAReason
        /\ Api!KeptIsBounded

=============================================================================
