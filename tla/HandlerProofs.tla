---------------------------- MODULE HandlerProofs ----------------------------
(***************************************************************************)
(* Proofs about components of the request handlers that share no state:    *)
(* the transports a session may open (TransportAdmission), the locks of    *)
(* several accounts (Lock), shared profiles (Share), the migration to a new *)
(* certificate (Retire) and HTTP responses that are held back (Buffer).  Each *)
(* theorem is about the specification of one component, for every value of *)
(* its constants; a constant or variable two components declare is declared *)
(* once here.                                                              *)
(***************************************************************************)
EXTENDS TransportAdmission, FiniteSetTheorems, TLAPS

CONSTANTS Threads, Processes, ProcessOf, Keys, Slots, SlotOf,
          Clients, Shares, MaxDownloads, MaxFailures, MaxTakes,
          Workers, Kinds, Replacements, Rows, MaxMishaps,
          Budget, MaxBody

VARIABLES at, keeps, wants, got, half, lease, coordinated,
          items, overdue, closed, made, published, step, delivered, wrong, takes,
          managed, old, cert, sessions, row, local, reviews, issuing, bridged, begun, mishaps,
          total, login, leaked

Lock == INSTANCE MutationLocks WITH Requests <- Threads
Share == INSTANCE ProfileShares
Retire == INSTANCE ProfileMigration
Buffer == INSTANCE HandshakeBuffers WITH Requests <- Threads, session <- login

-----------------------------------------------------------------------------
(* Transports and the quota *)

Sids == Requests \cup {Nobody}
Ledgers ==
  [bound : [Requests -> Sessions \cup {Nobody}], guards : SUBSET Requests,
   upgrades : [Requests -> Nat], torn : SUBSET Requests, slots : SUBSET Requests,
   tearing : SUBSET Requests, owing : SUBSET Requests]
Handlers ==
  [kind : {"none", "polling", "direct", "poll", "upgrade"},
   session : Sessions \cup {Nobody}, sid : Sids,
   stage : {"idle", "serving", "cancelling", "detached", "over"},
   task : {"none", "running", "done"}, slot : BOOLEAN, told : BOOLEAN,
   guard : BOOLEAN, closes : BOOLEAN, invalid : BOOLEAN, revoked : BOOLEAN]

Typed ==
  /\ live \subseteq Sessions /\ sockets \subseteq Requests
  /\ ledger \in Ledgers /\ req \in [Requests -> Handlers]

\* The socket named after request s has been told to its client: nobody opens it now.
Opened(s) == req[s].told \/ req[s].stage = "over"

\* What a request holds goes with where it stands.
Handling(r) ==
  LET me == req[r] IN
  /\ me.kind = "none" <=> me.stage \in {"idle", "over"}
  /\ me.kind = "none" => ~me.slot /\ ~me.told
  /\ me.stage = "idle" => me.sid = Nobody /\ r \notin ledger.slots
  /\ me.kind \in New =>
       /\ me.session \in Sessions /\ me.sid \in {r, Nobody}
       /\ me.told => me.sid = r
       /\ me.slot <=> ~me.told
       /\ me.slot => r \in ledger.slots
       /\ me.closes \/ me.invalid \/ me.guard => me.told
  /\ me.kind \in {"poll", "upgrade"} => ~me.slot /\ ~me.told /\ me.sid \in Requests
  /\ me.kind = "poll" => ~me.guard /\ Opened(me.sid)
  /\ me.kind = "upgrade" => me.session \in Sessions /\ ledger.bound[me.sid] = me.session
  /\ me.kind = "upgrade" /\ me.closes => me.guard \/ me.invalid
  /\ me.revoked => me.invalid

\* Who is about to release a socket's binding has seen the end of the socket, or
\* that the binding is gone.
EndSeen(r) ==
  LET me == req[r] IN
  me.kind # "none" /\ me.closes =>
     IF me.invalid THEN me.revoked \/ ledger.bound[me.sid] = Nobody
     ELSE me.stage = "serving" /\ me.task = "done" => me.sid \notin sockets

\* A socket is there only while its request has its id, and is counted.
SocketsHeld ==
  \A s \in sockets :
    /\ req[s].sid = s \/ req[s].stage = "over"
    /\ ledger.bound[s] # Nobody \/ s \in ledger.slots

BoundToTheirOwn ==
  \A s \in Requests :
    ledger.bound[s] # Nobody => ledger.bound[s] = req[s].session /\ Opened(s)

Upgrading(s) == {r \in Requests : req[r].kind = "upgrade" /\ req[r].sid = s}
UpgradesCounted == \A s \in Requests : ledger.upgrades[s] = Cardinality(Upgrading(s))

\* A binding that waits for upgrades to end has no socket any more.
TornIsGone == \A s \in ledger.torn : s \notin sockets /\ Opened(s)

\* A teardown gives back the slot of a request that is over.
OwingIsOver == \A s \in ledger.owing : req[s].stage = "over"

SlotsAreSessions == \A s \in ledger.slots : req[s].session \in Sessions

Quota ==
  /\ Cardinality(Counted(ledger, Sessions)) =< MaxConnections
  /\ \A u \in Sessions : Cardinality(Counted(ledger, {u})) =< MaxPerSession

AdmissionInv ==
  /\ Typed /\ (\A r \in Requests : Handling(r) /\ EndSeen(r))
  /\ SocketsHeld /\ BoundToTheirOwn /\ UpgradesCounted /\ TornIsGone /\ OwingIsOver
  /\ SlotsAreSessions /\ Quota

-----------------------------------------------------------------------------
(* The ledger *)

\* Nobody is neither a session nor a socket.
LEMMA NobodyIsNone == ASSUME TransportAssumption PROVE Nobody \notin Requests \cup Sessions
  BY DEF TransportAssumption, Requests

\* Sets of requests are finite.
LEMMA RequestsCount ==
  ASSUME TransportAssumption, NEW T \in SUBSET Requests
  PROVE  /\ IsFiniteSet(T) /\ Cardinality(T) \in Nat
         /\ T # {} => Cardinality(T) > 0
         /\ \A S \in SUBSET T : Cardinality(S) =< Cardinality(T)
         /\ \A r \in T : Cardinality(T \ {r}) = Cardinality(T) - 1
         /\ \A r \in Requests \ T : Cardinality(T \cup {r}) = Cardinality(T) + 1
  <1>1. IsFiniteSet(Requests)
    BY FS_Interval DEF TransportAssumption, Requests
  <1>2. IsFiniteSet(T)
    BY <1>1, FS_Subset
  <1>3. Cardinality(T) \in Nat /\ (T # {} => Cardinality(T) > 0)
    BY <1>2, FS_EmptySet, FS_CardinalityType
  <1>4. \A S \in SUBSET T : Cardinality(S) =< Cardinality(T)
    BY <1>2, FS_Subset
  <1>5. \A r \in T : Cardinality(T \ {r}) = Cardinality(T) - 1
    BY <1>2, FS_RemoveElement
  <1>6. \A r \in Requests \ T : Cardinality(T \cup {r}) = Cardinality(T) + 1
    BY <1>2, FS_AddElement
  <1>7. QED
    BY <1>2, <1>3, <1>4, <1>5, <1>6

\* Releasing a socket takes back its own binding only, and only if no upgrade of it
\* runs; else it waits, torn.
LEMMA ReleasedKeeps ==
  ASSUME NEW L \in Ledgers, NEW s \in Requests
  PROVE  LET M == Released(L, s) IN
         /\ M \in Ledgers
         /\ M.upgrades = L.upgrades /\ M.slots = L.slots /\ M.owing = L.owing
         /\ \A t \in Requests : \/ M.bound[t] = L.bound[t]
                                \/ (t = s /\ M.bound[t] = Nobody /\ L.upgrades[t] = 0)
         /\ \A t \in M.torn : t \in L.torn \/ (t = s /\ L.bound[s] # Nobody)
  <1>1. CASE L.bound[s] # Nobody /\ L.upgrades[s] > 0
    <2> DEFINE M == [L EXCEPT !.torn = @ \cup {s}]
    <2>1. M \in Ledgers /\ M.bound = L.bound /\ M.upgrades = L.upgrades
          /\ M.slots = L.slots /\ M.owing = L.owing /\ M.torn = L.torn \cup {s}
      BY DEF Ledgers
    <2>2. Released(L, s) = M
      BY <1>1 DEF Released
    <2>3. QED
      BY <1>1, <2>1, <2>2
  <1>2. CASE ~(L.bound[s] # Nobody /\ L.upgrades[s] > 0)
    <2> DEFINE M == [L EXCEPT !.bound[s] = Nobody, !.guards = @ \ {s}, !.torn = @ \ {s}]
    <2>1. M \in Ledgers /\ M.bound = [L.bound EXCEPT ![s] = Nobody]
          /\ M.upgrades = L.upgrades
          /\ M.slots = L.slots /\ M.owing = L.owing /\ M.torn = L.torn \ {s}
      BY DEF Ledgers
    <2>2. Released(L, s) = M
      BY <1>2 DEF Released
    <2>3. L.bound \in [Requests -> Sessions \cup {Nobody}] /\ L.upgrades[s] \in Nat
      BY DEF Ledgers
    <2>4. \A t \in Requests : \/ M.bound[t] = L.bound[t]
                              \/ (t = s /\ M.bound[t] = Nobody /\ L.upgrades[t] = 0)
      BY <1>2, <2>1, <2>3
    <2> HIDE DEF M
    <2>5. QED
      BY <2>1, <2>2, <2>4
  <1>3. QED
    BY <1>1, <1>2

\* A teardown takes nothing back yet; it may owe the slot.
LEMMA TeardownKeeps ==
  ASSUME NEW L \in Ledgers, NEW s \in Requests, NEW slot \in BOOLEAN
  PROVE  LET M == Teardown(L, s, slot) IN
         /\ M \in Ledgers
         /\ M.bound = L.bound /\ M.upgrades = L.upgrades /\ M.torn = L.torn
         /\ M.slots = L.slots
         /\ M.owing = IF slot THEN L.owing \cup {s} ELSE L.owing
  BY DEF Teardown, Ledgers

\* What the cleanup after a handshake that failed changes.
LEMMA CleanupKeeps ==
  ASSUME NEW L \in Ledgers, NEW r \in Requests, req[r].sid \in Requests,
         req[r].slot \in BOOLEAN
  PROVE  LET M == Cleanup(L, r) IN
         /\ M \in Ledgers
         /\ M.bound = L.bound /\ M.upgrades = L.upgrades /\ M.torn = L.torn
         /\ \/ M.slots = L.slots
            \/ req[r].slot /\ req[r].sid \in L.torn /\ M.slots = L.slots \ {r}
         /\ M.owing \subseteq IF req[r].slot THEN L.owing \cup {req[r].sid} ELSE L.owing
  <1>1. CASE req[r].sid \in L.torn
    BY <1>1 DEF Cleanup, Ledgers
  <1>2. CASE req[r].sid \notin L.torn
    BY <1>2, TeardownKeeps DEF Cleanup
  <1>3. QED
    BY <1>1, <1>2

\* Giving up the claim on a WebSocket changes no socket's count.
LEMMA UnguardedKeeps ==
  ASSUME NEW L \in Ledgers, NEW r \in Requests
  PROVE  LET M == Unguarded(L, r) IN
         /\ M \in Ledgers
         /\ M.bound = L.bound /\ M.upgrades = L.upgrades /\ M.torn = L.torn
         /\ M.slots = L.slots /\ M.owing = L.owing
  BY DEF Unguarded, Ledgers

\* The last upgrade to end releases a socket that was torn.
LEMMA UpgradeEndedKeeps ==
  ASSUME NEW L \in Ledgers, NEW s \in Requests, L.upgrades[s] > 0
  PROVE  LET M == UpgradeEnded(L, s) IN
         /\ M \in Ledgers
         /\ M.upgrades = [L.upgrades EXCEPT ![s] = @ - 1]
         /\ M.slots = L.slots /\ M.owing = L.owing
         /\ \A t \in Requests : \/ M.bound[t] = L.bound[t]
                                \/ (/\ t = s /\ t \in L.torn
                                    /\ M.bound[t] = Nobody /\ M.upgrades[t] = 0)
         /\ M.torn \subseteq L.torn
  <1> DEFINE fewer == [L EXCEPT !.upgrades[s] = @ - 1]
             calm == [fewer EXCEPT !.torn = @ \ {s}]
  <1>1. L.upgrades \in [Requests -> Nat]
    BY DEF Ledgers
  <1>2. fewer \in Ledgers /\ fewer.upgrades = [L.upgrades EXCEPT ![s] = @ - 1]
        /\ fewer.slots = L.slots /\ fewer.owing = L.owing /\ fewer.bound = L.bound
        /\ fewer.torn = L.torn
    BY <1>1 DEF Ledgers
  <1> HIDE DEF fewer
  <1>3. calm \in Ledgers /\ calm.upgrades = fewer.upgrades
        /\ calm.slots = fewer.slots /\ calm.owing = fewer.owing /\ calm.bound = fewer.bound
        /\ calm.torn = fewer.torn \ {s}
    BY <1>2 DEF Ledgers
  <1> HIDE DEF calm
  <1>4. UpgradeEnded(L, s) = IF fewer.upgrades[s] = 0 /\ s \in L.torn
                             THEN Released(calm, s) ELSE fewer
    BY DEF UpgradeEnded, fewer, calm
  <1>5. CASE fewer.upgrades[s] = 0 /\ s \in L.torn
    <2> DEFINE M == Released(calm, s)
    <2>1. /\ M \in Ledgers
          /\ M.upgrades = calm.upgrades /\ M.slots = calm.slots /\ M.owing = calm.owing
          /\ \A t \in Requests : \/ M.bound[t] = calm.bound[t]
                                 \/ (t = s /\ M.bound[t] = Nobody /\ calm.upgrades[t] = 0)
          /\ \A t \in M.torn : t \in calm.torn \/ t = s
      BY <1>3, ReleasedKeeps
    <2> HIDE DEF M
    <2>2. UpgradeEnded(L, s) = M
      BY <1>4, <1>5 DEF M
    <2>3. QED
      BY <1>2, <1>3, <1>5, <2>1, <2>2
  <1>6. CASE ~(fewer.upgrades[s] = 0 /\ s \in L.torn)
    BY <1>2, <1>4, <1>6
  <1>7. QED
    BY <1>5, <1>6

\* What a request gives back when it is over takes no socket out of the count.
LEMMA FinallyKeeps ==
  ASSUME TransportAssumption, Typed, UpgradesCounted, SocketsHeld, TornIsGone,
         NEW r \in Requests, Handling(r), EndSeen(r), req[r].kind # "none", NEW L \in Ledgers, NEW cleaned \in BOOLEAN,
         L.bound = ledger.bound, L.upgrades = ledger.upgrades, L.torn = ledger.torn,
         cleaned \/ req[r].sid = Nobody
           \/ (req[r].stage = "serving" /\ req[r].task = "done" /\ ~req[r].slot)
  PROVE  LET M == Finally(L, r, cleaned) IN
         /\ M \in Ledgers
         /\ M.upgrades = IF req[r].kind = "upgrade"
                         THEN [ledger.upgrades EXCEPT ![req[r].sid] = @ - 1]
                         ELSE ledger.upgrades
         /\ \A t \in Requests :
              \/ M.bound[t] = ledger.bound[t]
              \/ (M.bound[t] = Nobody /\ t \notin sockets /\ M.upgrades[t] = 0)
         /\ M.slots \subseteq L.slots /\ L.slots \ {r} \subseteq M.slots
         /\ r \in L.slots \ M.slots => r \notin sockets
         /\ M.owing \subseteq L.owing
         /\ \A t \in M.torn :
              t \in ledger.torn \/ (t \notin sockets /\ ledger.bound[t] # Nobody)
  <1> DEFINE me == req[r]
             free == IF me.slot /\ ~cleaned THEN [L EXCEPT !.slots = @ \ {r}] ELSE L
             again == me.revoked /\ ~cleaned
             swept == IF again THEN Cleanup(free, r) ELSE free
             bare == Unguarded(swept, r)
             ended == Closed(bare, r, cleaned \/ again)
  <1>1. /\ me.sid \in Requests \cup {Nobody} /\ {me.slot, me.revoked, me.closes} \subseteq BOOLEAN
        /\ me.kind \in {"polling", "direct", "poll", "upgrade"}
    BY DEF Typed, Handlers, Sids
  <1>2. /\ free \in Ledgers /\ free.bound = ledger.bound /\ free.upgrades = ledger.upgrades
        /\ free.torn = ledger.torn /\ free.owing = L.owing
        /\ free.slots \subseteq L.slots /\ L.slots \ {r} \subseteq free.slots
        /\ r \in L.slots \ free.slots => r \notin sockets
    <2>1. CASE me.slot /\ ~cleaned
      <3>1. me.sid = Nobody /\ me.stage # "over"
        BY <2>1 DEF Handling
      <3>2. r \notin sockets
        BY <3>1, NobodyIsNone DEF SocketsHeld
      <3>3. free = [L EXCEPT !.slots = @ \ {r}]
        BY <2>1
      <3>4. QED
        BY <3>2, <3>3 DEF Ledgers
    <2>2. CASE ~(me.slot /\ ~cleaned)
      BY <2>2
    <2>3. QED
      BY <2>1, <2>2
  <1> HIDE DEF free
  <1>3. /\ swept \in Ledgers /\ swept.bound = ledger.bound /\ swept.upgrades = ledger.upgrades
        /\ swept.torn = ledger.torn /\ swept.owing \subseteq L.owing /\ swept.slots = free.slots
    <2>1. CASE again
      <3>1. ~me.slot /\ me.sid \in Requests
        BY <1>1, <2>1 DEF Handling, New
      <3>2. swept = Cleanup(free, r)
        BY <2>1
      <3>3. QED
        BY <1>1, <1>2, <3>1, <3>2, CleanupKeeps
    <2>2. CASE ~again
      BY <1>2, <2>2
    <2>3. QED
      BY <2>1, <2>2
  <1> HIDE DEF swept
  <1>4. /\ bare \in Ledgers /\ bare.bound = ledger.bound /\ bare.upgrades = ledger.upgrades
        /\ bare.torn = ledger.torn /\ bare.owing \subseteq L.owing /\ bare.slots = free.slots
    BY <1>3, UnguardedKeeps
  <1> HIDE DEF bare
  <1>5. /\ ended \in Ledgers /\ ended.upgrades = ledger.upgrades
        /\ \A t \in Requests :
             \/ ended.bound[t] = ledger.bound[t]
             \/ (ended.bound[t] = Nobody /\ t \notin sockets /\ ledger.upgrades[t] = 0)
        /\ ended.owing \subseteq L.owing /\ ended.slots = free.slots
        /\ \A t \in ended.torn :
             t \in ledger.torn \/ (t \notin sockets /\ ledger.bound[t] # Nobody)
    <2>1. CASE me.closes /\ ~(cleaned \/ again) /\ me.sid # Nobody
      <3>1. ended = Released(bare, me.sid) /\ me.sid \in Requests
        BY <1>1, <2>1 DEF Closed
      <3> HIDE DEF ended
      <3>2. me.sid \notin sockets \/ ledger.bound[me.sid] = Nobody
        BY <2>1 DEF EndSeen
      <3> DEFINE M == Released(bare, me.sid)
      <3>5. /\ M \in Ledgers
            /\ M.upgrades = bare.upgrades /\ M.slots = bare.slots
            /\ M.owing = bare.owing
            /\ \A t \in Requests :
                 \/ M.bound[t] = bare.bound[t]
                 \/ (t = me.sid /\ M.bound[t] = Nobody /\ bare.upgrades[t] = 0)
            /\ \A t \in M.torn :
                 t \in bare.torn \/ (t = me.sid /\ bare.bound[me.sid] # Nobody)
        BY <1>4, <3>1, ReleasedKeeps
      <3> HIDE DEF M
      <3>6. ended = M
        BY <3>1 DEF M
      <3>4. QED
        BY <1>4, <3>1, <3>2, <3>5, <3>6
    <2>2. CASE ~(me.closes /\ ~(cleaned \/ again) /\ me.sid # Nobody)
      <3>1. ended = bare
        BY <2>2 DEF Closed
      <3>2. QED
        BY <1>4, <3>1
    <2>3. QED
      BY <2>1, <2>2
  <1>6. Finally(L, r, cleaned) =
          IF me.kind = "upgrade" THEN UpgradeEnded(ended, me.sid) ELSE ended
    BY DEF Finally, ended, bare, swept, free
  <1> HIDE DEF ended
  <1>7. CASE me.kind = "upgrade"
    <2>1. me.sid \in Requests /\ r \in Upgrading(me.sid)
      BY <1>1, <1>7 DEF Handling, Upgrading
    <2>2. ledger.upgrades[me.sid] > 0
      BY <2>1, RequestsCount DEF UpgradesCounted, Upgrading
    <2> DEFINE M == UpgradeEnded(ended, me.sid)
    <2>3. /\ M \in Ledgers
          /\ M.upgrades = [ended.upgrades EXCEPT ![me.sid] = @ - 1]
          /\ M.slots = ended.slots /\ M.owing = ended.owing
          /\ \A t \in Requests : \/ M.bound[t] = ended.bound[t]
                                 \/ (/\ t = me.sid /\ t \in ended.torn
                                     /\ M.bound[t] = Nobody /\ M.upgrades[t] = 0)
          /\ M.torn \subseteq ended.torn
      BY <1>5, <2>1, <2>2, UpgradeEndedKeeps
    <2> HIDE DEF M
    <2>4. Finally(L, r, cleaned) = M
      BY <1>6, <1>7 DEF M
    <2>5. \A t \in ended.torn : t \notin sockets
      BY <1>5 DEF TornIsGone
    <2>6. ASSUME NEW t \in Requests
          PROVE  \/ M.bound[t] = ledger.bound[t]
                 \/ (M.bound[t] = Nobody /\ t \notin sockets /\ M.upgrades[t] = 0)
      <3>1. ledger.upgrades \in [Requests -> Nat]
        BY DEF Typed, Ledgers
      <3>2. CASE M.bound[t] = ended.bound[t]
        BY <1>5, <2>1, <2>2, <2>3, <3>1, <3>2
      <3>3. CASE M.bound[t] # ended.bound[t]
        BY <2>3, <2>5, <3>3
      <3>4. QED
        BY <3>2, <3>3
    <2>7. QED
      BY <1>2, <1>5, <1>7, <2>3, <2>4, <2>6
  <1>8. CASE me.kind # "upgrade"
    BY <1>2, <1>5, <1>6, <1>8
  <1>9. QED
    BY <1>7, <1>8

-----------------------------------------------------------------------------
(* Steps that only give back *)

\* Who is counted is a request.
LEMMA CountedAreRequests ==
  ASSUME Typed, NEW who
  PROVE  Counted(ledger, who) \in SUBSET Requests
  BY DEF Counted, Typed, Ledgers

\* Where nothing new is counted the limits hold.
LEMMA QuotaStays ==
  ASSUME TransportAssumption, Typed, Quota,
         \A who \in SUBSET Sessions : Counted(ledger, who)' \subseteq Counted(ledger, who)
  PROVE  Quota'
  <1>1. ASSUME NEW who \in SUBSET Sessions
        PROVE  /\ Cardinality(Counted(ledger, who)') =< Cardinality(Counted(ledger, who))
               /\ Cardinality(Counted(ledger, who)') \in Nat
               /\ Cardinality(Counted(ledger, who)) \in Nat
    <2>1. Counted(ledger, who) \in SUBSET Requests
      BY CountedAreRequests
    <2>2. Counted(ledger, who)' \in SUBSET Counted(ledger, who)
          /\ Counted(ledger, who)' \in SUBSET Requests
      BY <2>1
    <2>3. QED
      BY <2>1, <2>2, RequestsCount
  <1>2. Cardinality(Counted(ledger, Sessions)') =< MaxConnections
    BY <1>1 DEF Quota, TransportAssumption
  <1>3. ASSUME NEW u \in Sessions
        PROVE  Cardinality(Counted(ledger, {u})') =< MaxPerSession
    BY <1>1 DEF Quota, TransportAssumption
  <1>4. QED
    BY <1>2, <1>3 DEF Quota

\* A request that is over
OverOf(r) == [Fresh EXCEPT !.session = req[r].session, !.stage = "over"]

\* A step after which requests are over or as before, nothing new is held, and
\* what was given back is no socket's, keeps the invariant.
LEMMA GivingBackKeeps ==
  ASSUME TransportAssumption, AdmissionInv, Typed',
         live' \subseteq live, sockets' \subseteq sockets,
         \A q \in Requests : req'[q] = req[q] \/ req'[q] = OverOf(q),
         \A t \in Requests :
           \/ ledger'.bound[t] = ledger.bound[t]
           \/ (ledger'.bound[t] = Nobody /\ t \notin sockets' /\ ledger'.upgrades[t] = 0),
         ledger'.slots \subseteq ledger.slots,
         \A t \in ledger.slots \ ledger'.slots : t \notin sockets' /\ req'[t].stage = "over",
         \A t \in ledger'.torn :
           t \in ledger.torn \/ (t \notin sockets' /\ ledger.bound[t] # Nobody),
         \A t \in ledger'.owing : t \in ledger.owing \/ req'[t].stage = "over",
         UpgradesCounted'
  PROVE  AdmissionInv'
  <1> USE DEF AdmissionInv
  <1>1. \A q \in Requests :
          \/ req'[q] = req[q]
          \/ (/\ req'[q].kind = "none" /\ req'[q].session = req[q].session
              /\ req'[q].stage = "over" /\ ~req'[q].slot /\ ~req'[q].told /\ ~req'[q].closes
              /\ ~req'[q].revoked)
    <2>1. \A q \in Requests :
             /\ OverOf(q).kind = "none" /\ OverOf(q).session = req[q].session
             /\ OverOf(q).stage = "over" /\ ~OverOf(q).slot /\ ~OverOf(q).told
             /\ ~OverOf(q).closes /\ ~OverOf(q).revoked
      BY DEF OverOf, Fresh
    <2>2. QED
      BY <2>1
  <1>2. \A q \in Requests : req'[q].session = req[q].session /\ (Opened(q) => Opened(q)')
    BY <1>1 DEF Opened
  <1>3. \A s \in Requests : Upgrading(s)' # {} => ledger'.bound[s] = ledger.bound[s]
    <2>1. ASSUME NEW s \in Requests, Upgrading(s)' # {}
          PROVE  ledger'.upgrades[s] # 0
      <3>1. Upgrading(s)' \in SUBSET Requests
        BY DEF Upgrading
      <3>2. Cardinality(Upgrading(s)') > 0
        BY <2>1, <3>1, RequestsCount
      <3>3. QED
        BY <3>2 DEF UpgradesCounted
    <2>2. QED
      BY <2>1
  <1>4. ASSUME NEW q \in Requests PROVE Handling(q)' /\ EndSeen(q)'
    <2>1. CASE req'[q] = req[q]
      <3>1. Handling(q) /\ EndSeen(q)
        OBVIOUS
      <3>2. q \in ledger.slots /\ req[q].slot => q \in ledger'.slots
        BY <2>1, <3>1 DEF Handling, New
      <3>3. req[q].kind = "upgrade" => ledger'.bound[req[q].sid] = ledger.bound[req[q].sid]
        BY <1>3, <2>1, <3>1 DEF Handling, Upgrading
      <3>4. Handling(q)'
        BY <1>2, <2>1, <3>1, <3>2, <3>3 DEF Handling, New
      <3>5. EndSeen(q)'
        <4>1. req[q].sid \in Requests \/ req[q].sid = Nobody
          BY DEF Typed, Handlers, Sids
        <4>2. req[q].closes /\ req[q].kind # "none" => req[q].sid \in Requests
          BY <3>1, <4>1 DEF Handling, New, Typed, Handlers
        <4>3. QED
          BY <2>1, <3>1, <4>2 DEF EndSeen
      <3>6. QED
        BY <3>4, <3>5
    <2>2. CASE req'[q] # req[q]
      BY <1>1, <2>2 DEF Handling, EndSeen, New
    <2>3. QED
      BY <2>1, <2>2
  <1>5. SocketsHeld'
    BY <1>1 DEF SocketsHeld, Typed
  <1>6. BoundToTheirOwn'
    BY <1>2 DEF BoundToTheirOwn
  <1>7. TornIsGone'
    BY <1>2 DEF TornIsGone, BoundToTheirOwn, Typed, Ledgers
  <1>8. OwingIsOver'
    BY <1>1 DEF OwingIsOver, Typed, Ledgers
  <1>9. SlotsAreSessions'
    BY <1>2 DEF SlotsAreSessions, Typed, Ledgers
  <1>10. ASSUME NEW who \in SUBSET Sessions
         PROVE  Counted(ledger, who)' \subseteq Counted(ledger, who)
    BY <1>2, NobodyIsNone DEF Counted, Typed, Ledgers
  <1>11. Quota'
    BY <1>10, QuotaStays
  <1>12. QED
    BY <1>4, <1>5, <1>6, <1>7, <1>8, <1>9, <1>11

\* A request that is over keeps its session and nothing else.
LEMMA OverIsTyped ==
  ASSUME Typed, NEW r \in Requests
  PROVE  /\ Over(r) = [req EXCEPT ![r] = OverOf(r)]
         /\ OverOf(r) \in Handlers /\ OverOf(r).kind = "none" /\ OverOf(r).stage = "over"
         /\ Over(r) \in [Requests -> Handlers]
  <1>1. req[r].session \in Sessions \cup {Nobody}
    BY DEF Typed, Handlers
  <1>2. OverOf(r) \in Handlers /\ OverOf(r).kind = "none" /\ OverOf(r).stage = "over"
    BY <1>1 DEF OverOf, Fresh, Handlers, Sids
  <1>3. Over(r) = [req EXCEPT ![r] = OverOf(r)]
    BY DEF Over, OverOf
  <1>4. QED
    BY <1>2, <1>3 DEF Typed

\* Where a request is over its upgrade is counted no more.
LEMMA UpgradeLeaves ==
  ASSUME TransportAssumption, Typed, UpgradesCounted, NEW r \in Requests, Handling(r),
         req' = Over(r),
         ledger'.upgrades = IF req[r].kind = "upgrade"
                            THEN [ledger.upgrades EXCEPT ![req[r].sid] = @ - 1]
                            ELSE ledger.upgrades
  PROVE  UpgradesCounted'
  <1>1. req'[r].kind = "none" /\ \A q \in Requests \ {r} : req'[q] = req[q]
    BY OverIsTyped DEF Typed
  <1>2. ledger.upgrades \in [Requests -> Nat]
    BY DEF Typed, Ledgers
  <1>3. ASSUME NEW s \in Requests
        PROVE  ledger'.upgrades[s] = Cardinality(Upgrading(s)')
    <2>1. CASE r \in Upgrading(s)
      <3>1. Upgrading(s)' = Upgrading(s) \ {r}
        BY <1>1 DEF Upgrading
      <3>2. Upgrading(s) \in SUBSET Requests
        BY DEF Upgrading
      <3>3. Cardinality(Upgrading(s)') = Cardinality(Upgrading(s)) - 1
        BY <2>1, <3>1, <3>2, RequestsCount
      <3>4. req[r].kind = "upgrade" /\ req[r].sid = s
        BY <2>1 DEF Upgrading
      <3>5. QED
        BY <1>2, <3>3, <3>4 DEF UpgradesCounted
    <2>2. CASE r \notin Upgrading(s)
      <3>1. Upgrading(s)' = Upgrading(s)
        BY <1>1, <2>2 DEF Upgrading
      <3>2. ledger'.upgrades[s] = ledger.upgrades[s]
        BY <1>2, <2>2 DEF Upgrading
      <3>3. QED
        BY <3>1, <3>2 DEF UpgradesCounted
    <2>3. QED
      BY <2>1, <2>2
  <1>4. QED
    BY <1>3 DEF UpgradesCounted

\* A request that returns: L is the ledger once its teardown has been scheduled.
LEMMA ReturningKeeps ==
  ASSUME TransportAssumption, AdmissionInv, NEW r \in Requests, req[r].kind # "none",
         NEW L \in Ledgers, NEW cleaned \in BOOLEAN,
         L.bound = ledger.bound, L.upgrades = ledger.upgrades, L.torn = ledger.torn,
         L.slots = ledger.slots \/ (L.slots = ledger.slots \ {r} /\ r \notin sockets),
         L.owing \subseteq ledger.owing \cup {r},
         cleaned \/ req[r].sid = Nobody
           \/ (req[r].stage = "serving" /\ req[r].task = "done" /\ ~req[r].slot),
         ledger' = Finally(L, r, cleaned), req' = Over(r), sockets' \subseteq sockets,
         UNCHANGED live
  PROVE  AdmissionInv'
  <1> DEFINE M == Finally(L, r, cleaned)
  <1>1. Handling(r) /\ EndSeen(r) /\ Typed /\ UpgradesCounted /\ SocketsHeld /\ TornIsGone
    BY DEF AdmissionInv
  <1>2. /\ M \in Ledgers
        /\ M.upgrades = IF req[r].kind = "upgrade"
                        THEN [ledger.upgrades EXCEPT ![req[r].sid] = @ - 1]
                        ELSE ledger.upgrades
        /\ \A t \in Requests :
             \/ M.bound[t] = ledger.bound[t]
             \/ (M.bound[t] = Nobody /\ t \notin sockets /\ M.upgrades[t] = 0)
        /\ M.slots \subseteq L.slots /\ L.slots \ {r} \subseteq M.slots
        /\ r \in L.slots \ M.slots => r \notin sockets
        /\ M.owing \subseteq L.owing
        /\ \A t \in M.torn :
             t \in ledger.torn \/ (t \notin sockets /\ ledger.bound[t] # Nobody)
    BY <1>1, FinallyKeeps
  <1> HIDE DEF M
  <1>3. ledger' = M
    BY DEF M
  <1>4. req'[r] = OverOf(r) /\ req'[r].stage = "over" /\ req' \in [Requests -> Handlers]
        /\ \A q \in Requests \ {r} : req'[q] = req[q]
    BY <1>1, OverIsTyped DEF Typed
  <1>5. Typed'
    BY <1>1, <1>2, <1>3, <1>4 DEF Typed
  <1>6. UpgradesCounted'
    BY <1>1, <1>2, <1>3, UpgradeLeaves
  <1>7. \A t \in ledger.slots \ ledger'.slots : t \notin sockets' /\ req'[t].stage = "over"
    BY <1>2, <1>3, <1>4
  <1>8. \A t \in ledger'.torn :
          t \in ledger.torn \/ (t \notin sockets' /\ ledger.bound[t] # Nobody)
    BY <1>2, <1>3
  <1>9. \A t \in ledger'.owing : t \in ledger.owing \/ req'[t].stage = "over"
    BY <1>2, <1>3, <1>4
  <1>10. \A t \in Requests :
           \/ ledger'.bound[t] = ledger.bound[t]
           \/ (ledger'.bound[t] = Nobody /\ t \notin sockets' /\ ledger'.upgrades[t] = 0)
    BY <1>2, <1>3
  <1>11. \A q \in Requests : req'[q] = req[q] \/ req'[q] = OverOf(q)
    BY <1>4
  <1>12. ledger'.slots \subseteq ledger.slots
    BY <1>2, <1>3
  <1>13. QED
    BY <1>5, <1>6, <1>7, <1>8, <1>9, <1>10, <1>11, <1>12, GivingBackKeeps

\* What is known of a handler from its own invariant.
LEMMA OwnFacts ==
  ASSUME TransportAssumption, AdmissionInv, NEW r \in Requests
  PROVE  /\ req[r] \in Handlers /\ Handling(r) /\ EndSeen(r) /\ ledger \in Ledgers
         /\ req[r].kind # "none" /\ req[r].sid # Nobody => req[r].sid \in Requests
         /\ req[r].slot => r \in ledger.slots /\ req[r].sid \in {r, Nobody}
         /\ req[r].kind # "none" /\ req[r].sid = Nobody => r \notin sockets
         /\ req[r].slot /\ req[r].sid \in ledger.torn => r \notin sockets
  <1>1. req[r] \in Handlers /\ Handling(r) /\ EndSeen(r) /\ ledger \in Ledgers
    BY DEF AdmissionInv, Typed
  <1>2. req[r].kind # "none" /\ req[r].sid # Nobody => req[r].sid \in Requests
    BY <1>1 DEF Handlers, Sids
  <1>3. req[r].slot => r \in ledger.slots /\ req[r].sid \in {r, Nobody}
    BY <1>1 DEF Handlers, Handling, New
  <1>4. req[r].kind # "none" /\ req[r].sid = Nobody => r \notin sockets
    BY <1>1, NobodyIsNone DEF AdmissionInv, SocketsHeld, Handling, Typed, Handlers
  <1>5. req[r].slot /\ req[r].sid \in ledger.torn => r \notin sockets
    BY <1>3, <1>4, <1>1 DEF AdmissionInv, TornIsGone, Handling
  <1>6. QED
    BY <1>1, <1>2, <1>3, <1>4, <1>5

\* The ledger after the cleanup of a request that is about to return.
LEMMA CleanedUp ==
  ASSUME TransportAssumption, AdmissionInv, NEW r \in Requests, req[r].kind # "none",
         req[r].sid # Nobody
  PROVE  LET L == Cleanup(ledger, r) IN
         /\ L \in Ledgers
         /\ L.bound = ledger.bound /\ L.upgrades = ledger.upgrades /\ L.torn = ledger.torn
         /\ L.slots = ledger.slots \/ (L.slots = ledger.slots \ {r} /\ r \notin sockets)
         /\ L.owing \subseteq ledger.owing \cup {r}
  <1> DEFINE L == Cleanup(ledger, r)
  <1>1. req[r].sid \in Requests /\ req[r].slot \in BOOLEAN /\ ledger \in Ledgers
    BY OwnFacts DEF Handlers
  <1>2. /\ L \in Ledgers
        /\ L.bound = ledger.bound /\ L.upgrades = ledger.upgrades /\ L.torn = ledger.torn
        /\ \/ L.slots = ledger.slots
           \/ (req[r].slot /\ req[r].sid \in ledger.torn /\ L.slots = ledger.slots \ {r})
        /\ L.owing \subseteq IF req[r].slot THEN ledger.owing \cup {req[r].sid} ELSE ledger.owing
    BY <1>1, CleanupKeeps
  <1> HIDE DEF L
  <1>3. QED
    BY <1>2, OwnFacts DEF L

\* A request returns after its handler.
LEMMA LeaveKeeps ==
  ASSUME TransportAssumption, AdmissionInv, NEW r \in Requests, Leave(r)
  PROVE  AdmissionInv'
  <1> DEFINE failed == req[r].kind \in New /\ ~req[r].told /\ req[r].sid # Nobody
             L == IF failed THEN Cleanup(ledger, r) ELSE ledger
  <1>1. /\ req[r].stage = "serving" /\ req[r].task = "done"
        /\ ledger' = Finally(L, r, failed) /\ req' = Over(r) /\ UNCHANGED <<live, sockets>>
    BY DEF Leave
  <1>2. Handling(r) /\ ledger \in Ledgers /\ req[r] \in Handlers
    BY OwnFacts
  <1>3. req[r].kind # "none"
    BY <1>1, <1>2 DEF Handling
  <1>4. failed \/ req[r].sid = Nobody \/ ~req[r].slot
    BY <1>2, <1>3 DEF Handling, Handlers, New
  <1>5. /\ L \in Ledgers
        /\ L.bound = ledger.bound /\ L.upgrades = ledger.upgrades /\ L.torn = ledger.torn
        /\ L.slots = ledger.slots \/ (L.slots = ledger.slots \ {r} /\ r \notin sockets)
        /\ L.owing \subseteq ledger.owing \cup {r}
    BY <1>2, <1>3, CleanedUp
  <1>6. failed \in BOOLEAN
    OBVIOUS
  <1> HIDE DEF failed, L
  <1>7. QED
    BY <1>1, <1>3, <1>4, <1>5, <1>6, ReturningKeeps

\* A request whose cancelled handler has ended returns.
LEMMA CancelledKeeps ==
  ASSUME TransportAssumption, AdmissionInv, NEW r \in Requests, Cancelled(r)
  PROVE  AdmissionInv'
  <1>1. req[r].stage = "cancelling" /\ req' = Over(r) /\ UNCHANGED <<live, sockets>>
    BY DEF Cancelled
  <1>2. Handling(r) /\ ledger \in Ledgers
    BY OwnFacts
  <1>3. req[r].kind # "none"
    BY <1>1, <1>2 DEF Handling
  <1>4. CASE req[r].sid # Nobody
    <2> DEFINE L == Cleanup(ledger, r)
    <2>1. /\ L \in Ledgers
          /\ L.bound = ledger.bound /\ L.upgrades = ledger.upgrades /\ L.torn = ledger.torn
          /\ L.slots = ledger.slots \/ (L.slots = ledger.slots \ {r} /\ r \notin sockets)
          /\ L.owing \subseteq ledger.owing \cup {r}
      BY <1>3, <1>4, CleanedUp
    <2>2. ledger' = Finally(L, r, TRUE)
      BY <1>4 DEF Cancelled
    <2> HIDE DEF L
    <2>3. QED
      BY <1>1, <1>3, <2>1, <2>2, ReturningKeeps
  <1>5. CASE req[r].sid = Nobody
    <2>1. ledger' = Finally(ledger, r, FALSE)
      BY <1>5 DEF Cancelled
    <2>2. QED
      BY <1>1, <1>2, <1>3, <1>5, <2>1, ReturningKeeps
  <1>6. QED
    BY <1>4, <1>5

\* A detached handler ends, and what its request held is settled.
LEMMA DetachedEndsKeeps ==
  ASSUME TransportAssumption, AdmissionInv, NEW r \in Requests, DetachedEnds(r)
  PROVE  AdmissionInv'
  <1> DEFINE L == IF req[r].sid = Nobody THEN [ledger EXCEPT !.slots = @ \ {r}]
                  ELSE IF req[r].slot THEN Teardown(ledger, req[r].sid, TRUE)
                  ELSE Cleanup(ledger, r)
  <1>1. /\ req[r].stage = "detached" /\ req' = Over(r) /\ UNCHANGED live
        /\ sockets' \subseteq sockets /\ ledger' = Finally(L, r, TRUE)
    BY DEF DetachedEnds
  <1>2. Handling(r) /\ ledger \in Ledgers
    BY OwnFacts
  <1>3. req[r].kind # "none"
    BY <1>1, <1>2 DEF Handling
  <1>4. /\ L \in Ledgers
        /\ L.bound = ledger.bound /\ L.upgrades = ledger.upgrades /\ L.torn = ledger.torn
        /\ L.slots = ledger.slots \/ (L.slots = ledger.slots \ {r} /\ r \notin sockets)
        /\ L.owing \subseteq ledger.owing \cup {r}
    <2>1. CASE req[r].sid = Nobody
      <3>1. r \notin sockets
        BY <1>3, <2>1, OwnFacts
      <3>2. QED
        BY <1>2, <2>1, <3>1 DEF Ledgers
    <2>2. CASE req[r].sid # Nobody /\ req[r].slot
      <3>1. req[r].sid = r
        BY <2>2, OwnFacts
      <3>2. L = Teardown(ledger, r, TRUE)
        BY <2>2, <3>1
      <3> DEFINE T == Teardown(ledger, r, TRUE)
      <3>3. /\ T \in Ledgers
            /\ T.bound = ledger.bound /\ T.upgrades = ledger.upgrades
            /\ T.torn = ledger.torn /\ T.slots = ledger.slots
            /\ T.owing = ledger.owing \cup {r}
        BY <1>2, TeardownKeeps
      <3> HIDE DEF T, L
      <3>4. L = T
        BY <3>2 DEF T
      <3>5. QED
        BY <3>3, <3>4
    <2>3. CASE req[r].sid # Nobody /\ ~req[r].slot
      BY <1>3, <2>3, CleanedUp
    <2>4. QED
      BY <2>1, <2>2, <2>3
  <1> HIDE DEF L
  <1>5. QED
    BY <1>1, <1>3, <1>4, ReturningKeeps

\* Where no upgrade begins or ends they are counted as before.
LEMMA SameUpgrades ==
  ASSUME UpgradesCounted, ledger'.upgrades = ledger.upgrades,
         \A q \in Requests : req'[q].kind = req[q].kind /\ req'[q].sid = req[q].sid
  PROVE  UpgradesCounted'
  <1>1. \A s \in Requests : Upgrading(s)' = Upgrading(s)
    BY DEF Upgrading
  <1>2. QED
    BY <1>1 DEF UpgradesCounted

\* A poll of a revoked session begins the teardown.
LEMMA PollRevokedKeeps ==
  ASSUME TransportAssumption, AdmissionInv, NEW r \in Requests, NEW s \in Requests,
         PollRevoked(r, s)
  PROVE  AdmissionInv'
  <1>1. req[r].stage = "idle" /\ req' = Over(r) /\ UNCHANGED <<live, sockets>>
    BY DEF PollRevoked, Arrives
  <1> DEFINE L == Teardown(ledger, s, FALSE)
  <1>2. /\ L \in Ledgers
        /\ L.bound = ledger.bound /\ L.upgrades = ledger.upgrades /\ L.torn = ledger.torn
        /\ L.slots = ledger.slots /\ L.owing = ledger.owing
    BY TeardownKeeps, OwnFacts
  <1>3. ledger' = L
    BY DEF PollRevoked
  <1> HIDE DEF L
  <1>4. Typed /\ UpgradesCounted /\ Handling(r) /\ req[r].kind = "none"
    BY <1>1, OwnFacts DEF AdmissionInv, Handling
  <1>5. req'[r] = OverOf(r) /\ req' \in [Requests -> Handlers]
        /\ \A q \in Requests \ {r} : req'[q] = req[q]
    BY <1>1, <1>4, OverIsTyped DEF Typed
  <1>6. Typed'
    BY <1>1, <1>2, <1>3, <1>4, <1>5 DEF Typed
  <1>7. UpgradesCounted'
    BY <1>1, <1>2, <1>3, <1>4, UpgradeLeaves
  <1>8. QED
    BY <1>1, <1>2, <1>3, <1>5, <1>6, <1>7, GivingBackKeeps

\* A teardown ends: it releases the binding and pays what it owes.
LEMMA DisconnectDoneKeeps ==
  ASSUME TransportAssumption, AdmissionInv, NEW s \in Requests, DisconnectDone(s)
  PROVE  AdmissionInv'
  <1> DEFINE paid == [ledger EXCEPT !.tearing = @ \ {s}, !.owing = @ \ {s},
                         !.slots = IF s \in ledger.owing THEN @ \ {s} ELSE @]
             L == Released(paid, s)
  <1>1. sockets' = sockets \ {s} /\ ledger' = L /\ UNCHANGED <<live, req>>
    BY DEF DisconnectDone
  <1>2. Typed /\ UpgradesCounted /\ ledger \in Ledgers
    BY DEF AdmissionInv, Typed
  <1>3. /\ paid \in Ledgers /\ paid.bound = ledger.bound /\ paid.upgrades = ledger.upgrades
        /\ paid.torn = ledger.torn /\ paid.owing \subseteq ledger.owing
        /\ paid.slots \subseteq ledger.slots
        /\ \A t \in ledger.slots \ paid.slots : t = s /\ s \in ledger.owing
    BY <1>2 DEF Ledgers
  <1> HIDE DEF paid
  <1>4. /\ L \in Ledgers
        /\ L.upgrades = paid.upgrades /\ L.slots = paid.slots /\ L.owing = paid.owing
        /\ \A t \in Requests : \/ L.bound[t] = paid.bound[t]
                               \/ (t = s /\ L.bound[t] = Nobody /\ paid.upgrades[t] = 0)
        /\ \A t \in L.torn : t \in paid.torn \/ (t = s /\ paid.bound[s] # Nobody)
    BY <1>3, ReleasedKeeps
  <1> HIDE DEF L
  <1>5. Typed'
    BY <1>1, <1>2, <1>4 DEF Typed
  <1>6. UpgradesCounted'
    BY <1>1, <1>2, <1>3, <1>4, SameUpgrades
  <1>7. \A t \in ledger.slots \ ledger'.slots : t \notin sockets' /\ req'[t].stage = "over"
    BY <1>1, <1>3, <1>4 DEF AdmissionInv, OwingIsOver
  <1>8. QED
    BY <1>1, <1>3, <1>4, <1>5, <1>6, <1>7, GivingBackKeeps

\* Engine.IO gives up a client, a binding lapses, or a session ends.
LEMMA QuietStepsKeep ==
  ASSUME TransportAssumption, AdmissionInv, NEW s,
         \/ s \in Requests /\ EngineDrops(s)
         \/ s \in Requests /\ Lapse(s)
         \/ s \in Sessions /\ Revoke(s)
  PROVE  AdmissionInv'
  <1>1. Typed /\ UpgradesCounted /\ ledger \in Ledgers
    BY DEF AdmissionInv, Typed
  <1>2. CASE s \in Requests /\ EngineDrops(s)
    <2>1. sockets' \subseteq sockets /\ UNCHANGED <<live, ledger, req>>
      BY <1>2 DEF EngineDrops
    <2>2. Typed' /\ UpgradesCounted'
      BY <1>1, <2>1, SameUpgrades DEF Typed
    <2>3. QED
      BY <2>1, <2>2, GivingBackKeeps
  <1>3. CASE s \in Requests /\ Lapse(s)
    <2> DEFINE L == [ledger EXCEPT !.bound[s] = Nobody]
    <2>1. ledger' = L /\ UNCHANGED <<live, sockets, req>>
          /\ s \notin sockets /\ ledger.upgrades[s] = 0
      BY <1>3 DEF Lapse
    <2>2. L \in Ledgers /\ L.bound = [ledger.bound EXCEPT ![s] = Nobody]
          /\ L.upgrades = ledger.upgrades /\ L.torn = ledger.torn
          /\ L.slots = ledger.slots /\ L.owing = ledger.owing
      BY <1>1 DEF Ledgers
    <2> HIDE DEF L
    <2>3. Typed' /\ UpgradesCounted'
      BY <1>1, <2>1, <2>2, SameUpgrades DEF Typed
    <2>4. ledger.bound \in [Requests -> Sessions \cup {Nobody}]
      BY <1>1 DEF Ledgers
    <2>5. QED
      BY <1>3, <2>1, <2>2, <2>3, <2>4, GivingBackKeeps
  <1>4. CASE s \in Sessions /\ Revoke(s)
    <2>1. live' \subseteq live /\ UNCHANGED <<sockets, ledger, req>>
      BY <1>4 DEF Revoke
    <2>2. Typed' /\ UpgradesCounted'
      BY <1>1, <2>1, SameUpgrades DEF Typed
    <2>3. QED
      BY <2>1, <2>2, GivingBackKeeps
  <1>5. QED
    BY <1>2, <1>3, <1>4

-----------------------------------------------------------------------------
(* Steps of one request *)

\* A step that changes what a request knows, not what it holds.
LEMMA KnowingKeeps ==
  ASSUME TransportAssumption, AdmissionInv, NEW r \in Requests, NEW h \in Handlers,
         req' = [req EXCEPT ![r] = h],
         h.kind = req[r].kind, h.session = req[r].session, h.sid = req[r].sid,
         req[r].told => h.told, req[r].stage = "over" <=> h.stage = "over",
         sockets' \subseteq sockets, UNCHANGED live, ledger' \in Ledgers,
         ledger'.bound = ledger.bound, ledger'.upgrades = ledger.upgrades,
         ledger'.torn = ledger.torn, ledger'.slots = ledger.slots,
         ledger'.owing = ledger.owing,
         Handling(r)', EndSeen(r)'
  PROVE  AdmissionInv'
  <1> USE DEF AdmissionInv
  <1>1. req'[r] = h /\ \A q \in Requests \ {r} : req'[q] = req[q]
    BY DEF Typed
  <1>2. \A q \in Requests :
          /\ req'[q].kind = req[q].kind /\ req'[q].sid = req[q].sid
          /\ req'[q].session = req[q].session /\ (Opened(q) => Opened(q)')
          /\ req'[q].stage = "over" <=> req[q].stage = "over"
    BY <1>1 DEF Opened
  <1>3. Typed' /\ UpgradesCounted'
    BY <1>2, SameUpgrades DEF Typed
  <1>4. ASSUME NEW q \in Requests \ {r} PROVE Handling(q)' /\ EndSeen(q)'
    <2>1. req'[q] = req[q] /\ Handling(q) /\ EndSeen(q) /\ req[q] \in Handlers
      BY <1>1 DEF Typed
    <2>2. req[q].kind = "poll" => Opened(req[q].sid)'
      BY <1>2, <2>1 DEF Handling
    <2>3. Handling(q)'
      BY <2>1, <2>2 DEF Handling, New
    <2>4. EndSeen(q)'
      BY <2>1 DEF EndSeen
    <2>5. QED
      BY <2>3, <2>4
  <1>5. SocketsHeld' /\ BoundToTheirOwn' /\ TornIsGone' /\ OwingIsOver' /\ SlotsAreSessions'
    BY <1>2 DEF SocketsHeld, BoundToTheirOwn, TornIsGone, OwingIsOver, SlotsAreSessions,
                Typed, Ledgers
  <1>6. \A who \in SUBSET Sessions : Counted(ledger, who)' \subseteq Counted(ledger, who)
    BY <1>2 DEF Counted, Typed, Ledgers
  <1>7. Quota'
    BY <1>6, QuotaStays
  <1>8. QED
    BY <1>3, <1>4, <1>5, <1>7

\* A message that does not pass: the session is gone, or the binding.
LEMMA RefreshedKnows ==
  ASSUME NEW r \in Requests, NEW L \in Ledgers, NEW me \in Handlers
  PROVE  LET h == Refreshed(r, L, me) IN
         /\ h \in Handlers
         /\ \/ h = me
            \/ (/\ h.kind = me.kind /\ h.session = me.session /\ h.sid = me.sid
                /\ h.stage = me.stage /\ h.task = me.task /\ h.slot = me.slot
                /\ h.told = me.told /\ h.guard = me.guard /\ h.closes /\ h.invalid
                /\ (h.revoked \/ L.bound[req[r].sid] = Nobody)
                /\ me.kind \in WebSocket)
  <1> DEFINE seen == Refresh(r, L)
             h == [me EXCEPT !.invalid = TRUE, !.closes = TRUE, !.revoked = seen.revoked]
  <1>1. seen.revoked \in BOOLEAN /\ (seen.closes => seen.revoked \/ L.bound[req[r].sid] = Nobody)
    BY DEF Refresh
  <1> HIDE DEF seen
  <1>2. CASE me.kind \in WebSocket /\ seen.closes
    <2>1. Refreshed(r, L, me) = h
      BY <1>2 DEF Refreshed, seen
    <2>2. /\ h \in Handlers
          /\ h.kind = me.kind /\ h.session = me.session /\ h.sid = me.sid
          /\ h.stage = me.stage /\ h.task = me.task /\ h.slot = me.slot
          /\ h.told = me.told /\ h.guard = me.guard /\ h.closes /\ h.invalid
          /\ (h.revoked <=> seen.revoked)
      BY <1>1 DEF Handlers
    <2> HIDE DEF h
    <2>3. QED
      BY <1>1, <1>2, <2>1, <2>2
  <1>3. CASE ~(me.kind \in WebSocket /\ seen.closes)
    BY <1>3 DEF Refreshed, seen
  <1>4. QED
    BY <1>2, <1>3

\* A request sees the end of its transport.
LEMMA SeesCloseKeeps ==
  ASSUME TransportAssumption, AdmissionInv, NEW r \in Requests, SeesClose(r)
  PROVE  AdmissionInv'
  <1> DEFINE h == [req[r] EXCEPT !.closes = TRUE]
  <1>1. req' = [req EXCEPT ![r] = h] /\ UNCHANGED <<live, sockets, ledger>>
        /\ req[r].stage = "serving" /\ req[r].task = "running" /\ ~req[r].invalid
        /\ (req[r].told \/ req[r].guard \/ req[r].kind = "poll")
    BY DEF SeesClose
  <1>2. req[r] \in Handlers /\ Handling(r) /\ EndSeen(r) /\ ledger \in Ledgers
    BY OwnFacts
  <1>3. /\ h \in Handlers
        /\ h.kind = req[r].kind /\ h.session = req[r].session /\ h.sid = req[r].sid
        /\ h.stage = req[r].stage /\ h.task = req[r].task /\ h.slot = req[r].slot
        /\ h.told = req[r].told /\ h.guard = req[r].guard /\ h.closes
        /\ h.invalid = req[r].invalid /\ h.revoked = req[r].revoked
    BY <1>2 DEF Handlers
  <1> HIDE DEF h
  <1>4. req'[r] = h
    BY <1>1 DEF AdmissionInv, Typed
  <1>5. req[r].kind = "poll" => Opened(req[r].sid)'
    BY <1>1, <1>2, <1>3, <1>4 DEF Handling, Opened, AdmissionInv, Typed
  <1>6. Handling(r)'
    BY <1>1, <1>2, <1>3, <1>4, <1>5 DEF Handling, New
  <1>7. EndSeen(r)'
    BY <1>1, <1>3, <1>4 DEF EndSeen
  <1>8. QED
    BY <1>1, <1>2, <1>3, <1>6, <1>7, KnowingKeeps

\* A request is cut short, or its handler resists.
LEMMA CutOrDetachKeeps ==
  ASSUME TransportAssumption, AdmissionInv, NEW r \in Requests, Cut(r) \/ Detach(r)
  PROVE  AdmissionInv'
  <1>1. PICK next \in {"cancelling", "detached"} :
          /\ req' = [req EXCEPT ![r].stage = next] /\ UNCHANGED <<live, sockets, ledger>>
          /\ req[r].stage \in {"serving", "cancelling"}
    BY DEF Cut, Detach
  <1> DEFINE h == [req[r] EXCEPT !.stage = next]
  <1>2. req[r] \in Handlers /\ Handling(r) /\ EndSeen(r) /\ ledger \in Ledgers
    BY OwnFacts
  <1>3. /\ h \in Handlers
        /\ h.kind = req[r].kind /\ h.session = req[r].session /\ h.sid = req[r].sid
        /\ h.stage = next /\ h.task = req[r].task /\ h.slot = req[r].slot
        /\ h.told = req[r].told /\ h.guard = req[r].guard /\ h.closes = req[r].closes
        /\ h.invalid = req[r].invalid /\ h.revoked = req[r].revoked
    BY <1>2 DEF Handlers
  <1>4. req' = [req EXCEPT ![r] = h]
    BY <1>1
  <1> HIDE DEF h
  <1>5. req'[r] = h
    BY <1>4 DEF AdmissionInv, Typed
  <1>6. req[r].kind = "poll" => Opened(req[r].sid)'
    BY <1>1, <1>2, <1>3, <1>4, <1>5 DEF Handling, Opened, AdmissionInv, Typed
  <1>7. Handling(r)'
    BY <1>1, <1>2, <1>3, <1>5, <1>6 DEF Handling, New
  <1>8. EndSeen(r)'
    BY <1>1, <1>2, <1>3, <1>5 DEF EndSeen
  <1>9. QED
    BY <1>1, <1>2, <1>3, <1>4, <1>7, <1>8, KnowingKeeps

\* The Engine.IO handler returns.
LEMMA TaskEndsKeeps ==
  ASSUME TransportAssumption, AdmissionInv, NEW r \in Requests, TaskEnds(r)
  PROVE  AdmissionInv'
  <1> DEFINE h == [req[r] EXCEPT !.task = "done"]
  <1>1. /\ req' = [req EXCEPT ![r] = h] /\ UNCHANGED <<live, ledger>>
        /\ \/ sockets' = sockets \ {req[r].sid}
           \/ (/\ ~(req[r].stage = "serving" /\ req[r].closes /\ ~req[r].invalid)
               /\ sockets' = sockets)
    BY DEF TaskEnds
  <1>2. req[r] \in Handlers /\ Handling(r) /\ EndSeen(r) /\ ledger \in Ledgers
    BY OwnFacts
  <1>3. /\ h \in Handlers
        /\ h.kind = req[r].kind /\ h.session = req[r].session /\ h.sid = req[r].sid
        /\ h.stage = req[r].stage /\ h.task = "done" /\ h.slot = req[r].slot
        /\ h.told = req[r].told /\ h.guard = req[r].guard /\ h.closes = req[r].closes
        /\ h.invalid = req[r].invalid /\ h.revoked = req[r].revoked
    BY <1>2 DEF Handlers
  <1> HIDE DEF h
  <1>4. req'[r] = h
    BY <1>1 DEF AdmissionInv, Typed
  <1>5. req[r].kind = "poll" => Opened(req[r].sid)'
    BY <1>1, <1>2, <1>3, <1>4 DEF Handling, Opened, AdmissionInv, Typed
  <1>6. Handling(r)'
    BY <1>1, <1>2, <1>3, <1>4, <1>5 DEF Handling, New
  <1>7. EndSeen(r)'
    BY <1>1, <1>2, <1>3, <1>4 DEF EndSeen
  <1>8. sockets' \subseteq sockets
    BY <1>1
  <1>9. QED
    BY <1>1, <1>2, <1>3, <1>6, <1>7, <1>8, KnowingKeeps

\* A message that does not pass ends its WebSocket.
LEMMA MessageKeeps ==
  ASSUME TransportAssumption, AdmissionInv, NEW r \in Requests, Message(r)
  PROVE  AdmissionInv'
  <1> DEFINE h == Refreshed(r, ledger, req[r])
  <1>1. /\ req' = [req EXCEPT ![r] = h] /\ UNCHANGED <<live, sockets, ledger>>
        /\ req[r].guard
    BY DEF Message
  <1>2. req[r] \in Handlers /\ Handling(r) /\ EndSeen(r) /\ ledger \in Ledgers
    BY OwnFacts
  <1>3. /\ h \in Handlers
        /\ \/ h = req[r]
           \/ (/\ h.kind = req[r].kind /\ h.session = req[r].session /\ h.sid = req[r].sid
               /\ h.stage = req[r].stage /\ h.task = req[r].task /\ h.slot = req[r].slot
               /\ h.told = req[r].told /\ h.guard = req[r].guard /\ h.closes /\ h.invalid
               /\ (h.revoked \/ ledger.bound[req[r].sid] = Nobody)
               /\ req[r].kind \in WebSocket)
    BY <1>2, RefreshedKnows
  <1> HIDE DEF h
  <1>4. req'[r] = h
    BY <1>1 DEF AdmissionInv, Typed
  <1>5. req[r].kind # "poll"
    BY <1>1, <1>2 DEF Handling
  <1>6. Handling(r)'
    BY <1>1, <1>2, <1>3, <1>4, <1>5 DEF Handling, New
  <1>7. EndSeen(r)'
    <2>1. ledger'.bound[req[r].sid] = ledger.bound[req[r].sid]
      BY <1>1
    <2>2. CASE h = req[r]
      BY <1>1, <1>2, <1>4, <2>2 DEF EndSeen
    <2>3. CASE h # req[r]
      BY <1>3, <1>4, <2>1, <2>3 DEF EndSeen
    <2>4. QED
      BY <2>2, <2>3
  <1>8. QED
    BY <1>1, <1>2, <1>3, <1>6, <1>7, KnowingKeeps

\* An upgrade is accepted or refused.
LEMMA AcceptKeeps ==
  ASSUME TransportAssumption, AdmissionInv, NEW r \in Requests, Accept(r)
  PROVE  AdmissionInv'
  <1> DEFINE seen == Refreshed(r, ledger, req[r])
  <1>1. /\ req[r].kind = "upgrade" /\ ~req[r].guard /\ ~req[r].invalid
        /\ UNCHANGED <<live, sockets>>
    BY DEF Accept
  <1>2. req[r] \in Handlers /\ Handling(r) /\ EndSeen(r) /\ ledger \in Ledgers
    BY OwnFacts
  <1>3. ~req[r].closes
    BY <1>1, <1>2 DEF Handling
  <1>4. CASE seen.invalid
    <2>1. req' = [req EXCEPT ![r] = seen] /\ UNCHANGED ledger
      BY <1>4 DEF Accept
    <2>2. /\ seen \in Handlers
          /\ \/ seen = req[r]
             \/ (/\ seen.kind = req[r].kind /\ seen.session = req[r].session
                 /\ seen.sid = req[r].sid
                 /\ seen.stage = req[r].stage /\ seen.task = req[r].task
                 /\ seen.slot = req[r].slot
                 /\ seen.told = req[r].told /\ seen.guard = req[r].guard
                 /\ seen.closes /\ seen.invalid
                 /\ (seen.revoked \/ ledger.bound[req[r].sid] = Nobody)
                 /\ req[r].kind \in WebSocket)
      BY <1>2, RefreshedKnows
    <2> HIDE DEF seen
    <2>3. req'[r] = seen
      BY <2>1 DEF AdmissionInv, Typed
    <2>4. Handling(r)'
      BY <1>1, <1>2, <2>1, <2>2, <2>3 DEF Handling, New
    <2>5. EndSeen(r)'
      BY <1>1, <1>2, <2>1, <2>2, <2>3 DEF EndSeen
    <2>6. QED
      BY <1>1, <1>2, <2>1, <2>2, <2>4, <2>5, KnowingKeeps
  <1>5. CASE ~seen.invalid
    <2> DEFINE taken == req[r].sid \in ledger.guards
               h == [req[r] EXCEPT !.guard = ~taken, !.invalid = taken]
               L == [ledger EXCEPT !.guards = @ \cup {req[r].sid}]
    <2>1. req' = [req EXCEPT ![r] = h] /\ ledger' = L
      BY <1>5 DEF Accept
    <2>2. L \in Ledgers /\ L.bound = ledger.bound /\ L.upgrades = ledger.upgrades
          /\ L.torn = ledger.torn /\ L.slots = ledger.slots /\ L.owing = ledger.owing
      <3>1. req[r].sid \in Requests
        BY <1>1, <1>2 DEF Handling
      <3>2. QED
        BY <1>2, <3>1 DEF Ledgers
    <2>3. taken \in BOOLEAN
      OBVIOUS
    <2> HIDE DEF taken, L
    <2>4. /\ h \in Handlers
          /\ h.kind = req[r].kind /\ h.session = req[r].session /\ h.sid = req[r].sid
          /\ h.stage = req[r].stage /\ h.task = req[r].task /\ h.slot = req[r].slot
          /\ h.told = req[r].told /\ h.closes = req[r].closes
          /\ h.revoked = req[r].revoked
      BY <1>2, <2>3 DEF Handlers
    <2> HIDE DEF h
    <2>5. req'[r] = h
      BY <2>1 DEF AdmissionInv, Typed
    <2>6. ~h.revoked
      BY <1>1, <1>2, <2>4 DEF Handling
    <2>7. Handling(r)'
      BY <1>1, <1>2, <1>3, <2>1, <2>2, <2>4, <2>5, <2>6 DEF Handling, New
    <2>8. EndSeen(r)'
      BY <1>3, <2>4, <2>5 DEF EndSeen
    <2>9. QED
      BY <1>1, <1>2, <2>1, <2>2, <2>4, <2>7, <2>8, KnowingKeeps
  <1>6. QED
    BY <1>4, <1>5

\* A request arrives: it has no socket and no slot yet.
LEMMA ArrivingKeeps ==
  ASSUME TransportAssumption, AdmissionInv, NEW r \in Requests, req[r].stage = "idle",
         NEW h \in Handlers, req' = [req EXCEPT ![r] = h], h.stage = "serving", ~h.closes,
         UNCHANGED <<live, sockets>>, ledger' \in Ledgers,
         ledger'.bound = ledger.bound, ledger'.torn = ledger.torn,
         ledger'.owing = ledger.owing,
         \/ ledger'.slots = ledger.slots
         \/ (ledger'.slots = ledger.slots \cup {r} /\ h.session \in Sessions),
         Handling(r)', UpgradesCounted', Quota'
  PROVE  AdmissionInv'
  <1> USE DEF AdmissionInv
  <1>1. req'[r] = h /\ \A q \in Requests \ {r} : req'[q] = req[q]
    BY DEF Typed
  <1>2. /\ r \notin sockets /\ r \notin ledger.torn /\ r \notin ledger.owing
        /\ ledger.bound[r] = Nobody /\ ~Opened(r) /\ r \notin ledger.slots
    <2>1. Handling(r)
      OBVIOUS
    <2>2. req[r].sid = Nobody /\ ~Opened(r) /\ r \notin ledger.slots
      BY <2>1 DEF Handling, Opened
    <2>3. QED
      BY <2>2, NobodyIsNone
      DEF SocketsHeld, TornIsGone, OwingIsOver, BoundToTheirOwn, Typed
  <1>3. \A q \in Requests : Opened(q) => Opened(q)' /\ q # r
    BY <1>1, <1>2 DEF Opened
  <1>4. ASSUME NEW q \in Requests \ {r} PROVE Handling(q)' /\ EndSeen(q)'
    <2>1. req'[q] = req[q] /\ Handling(q) /\ EndSeen(q)
      BY <1>1
    <2>2. req[q].kind = "poll" => Opened(req[q].sid)'
      BY <1>3, <2>1 DEF Handling
    <2>3. Handling(q)'
      BY <2>1, <2>2 DEF Handling, New
    <2>4. EndSeen(q)'
      BY <2>1 DEF EndSeen
    <2>5. QED
      BY <2>3, <2>4
  <1>5. EndSeen(r)'
    BY <1>1 DEF EndSeen
  <1>6. SocketsHeld' /\ BoundToTheirOwn' /\ TornIsGone' /\ OwingIsOver' /\ SlotsAreSessions'
    <2>1. SocketsHeld'
      BY <1>1, <1>2 DEF SocketsHeld, Typed
    <2>2. BoundToTheirOwn'
      BY <1>1, <1>2, <1>3 DEF BoundToTheirOwn
    <2>3. TornIsGone' /\ OwingIsOver'
      BY <1>1, <1>2, <1>3 DEF TornIsGone, OwingIsOver, Typed, Ledgers
    <2>4. SlotsAreSessions'
      BY <1>1, <1>2 DEF SlotsAreSessions, Typed, Ledgers
    <2>5. QED
      BY <2>1, <2>2, <2>3, <2>4
  <1>7. Typed'
    BY DEF Typed
  <1>8. QED
    BY <1>4, <1>5, <1>6, <1>7

\* What a request that arrives holds.
LEMMA ServedFacts ==
  ASSUME NEW kind \in {"polling", "direct", "poll", "upgrade"},
         NEW session \in Sessions, NEW sid \in Sids
  PROVE  LET h == Served(kind, session, sid) IN
         /\ h \in Handlers /\ h.kind = kind /\ h.session = session /\ h.sid = sid
         /\ h.stage = "serving" /\ (h.slot <=> kind \in New) /\ ~h.told /\ ~h.guard
         /\ ~h.closes /\ ~h.invalid /\ ~h.revoked
  <1> DEFINE new == kind \in New
             h == [Fresh EXCEPT !.kind = kind, !.session = session, !.sid = sid,
                                !.stage = "serving", !.task = "running", !.slot = new]
  <1>1. Fresh \in Handlers /\ ~Fresh.told /\ ~Fresh.guard /\ ~Fresh.closes
        /\ ~Fresh.invalid /\ ~Fresh.revoked
    BY DEF Fresh, Handlers, Sids
  <1>2. Served(kind, session, sid) = h
    BY DEF Served
  <1>3. new \in BOOLEAN
    OBVIOUS
  <1> HIDE DEF new
  <1>4. /\ h \in Handlers /\ h.kind = kind /\ h.session = session /\ h.sid = sid
        /\ h.stage = "serving" /\ (h.slot <=> new) /\ ~h.told /\ ~h.guard
        /\ ~h.closes /\ ~h.invalid /\ ~h.revoked
    BY <1>1, <1>3 DEF Handlers
  <1> HIDE DEF h
  <1>5. QED
    BY <1>2, <1>4 DEF new

\* A handshake reserves its slot within the limits.
LEMMA ConnectKeeps ==
  ASSUME TransportAssumption, AdmissionInv, NEW r \in Requests, NEW kind \in New,
         NEW session \in Sessions, Connect(r, kind, session)
  PROVE  AdmissionInv'
  <1> DEFINE h == Served(kind, session, Nobody)
             L == [ledger EXCEPT !.slots = @ \cup {r}]
  <1>1. /\ req[r].stage = "idle" /\ Admits(session)
        /\ ledger' = L /\ req' = [req EXCEPT ![r] = h] /\ UNCHANGED <<live, sockets>>
    BY DEF Connect, Arrives
  <1>2. ledger \in Ledgers /\ Handling(r) /\ Typed /\ UpgradesCounted
    BY OwnFacts DEF AdmissionInv
  <1>3. L \in Ledgers /\ L.bound = ledger.bound /\ L.upgrades = ledger.upgrades
        /\ L.torn = ledger.torn /\ L.owing = ledger.owing /\ L.slots = ledger.slots \cup {r}
    BY <1>2 DEF Ledgers
  <1>4. /\ h \in Handlers /\ h.kind = kind /\ h.session = session /\ h.sid = Nobody
        /\ h.stage = "serving" /\ h.slot /\ ~h.told /\ ~h.guard
        /\ ~h.closes /\ ~h.invalid /\ ~h.revoked
    BY ServedFacts DEF Sids, New
  <1> HIDE DEF h, L
  <1>5. req'[r] = h /\ \A q \in Requests \ {r} : req'[q] = req[q]
    BY <1>1 DEF AdmissionInv, Typed
  <1>6. Handling(r)'
    BY <1>1, <1>3, <1>4, <1>5 DEF Handling, New
  <1>7. UpgradesCounted'
    <2>1. req[r].kind = "none"
      BY <1>1, <1>2 DEF Handling
    <2>2. \A s \in Requests : Upgrading(s)' = Upgrading(s)
      BY <1>4, <1>5, <2>1 DEF Upgrading, New
    <2>3. QED
      BY <1>1, <1>2, <1>3, <2>2 DEF UpgradesCounted
  <1>8. ASSUME NEW who \in SUBSET Sessions
        PROVE  /\ Cardinality(Counted(ledger, who)') =< Cardinality(Counted(ledger, who)) + 1
               /\ session \notin who =>
                    Cardinality(Counted(ledger, who)') =< Cardinality(Counted(ledger, who))
               /\ Cardinality(Counted(ledger, who)') \in Nat
               /\ Cardinality(Counted(ledger, who)) \in Nat
    <2>1. Counted(ledger, who) \in SUBSET Requests
      BY <1>2, CountedAreRequests
    <2>2. /\ Counted(ledger, who)' \subseteq Counted(ledger, who) \cup {r}
          /\ session \notin who => Counted(ledger, who)' \subseteq Counted(ledger, who)
      BY <1>1, <1>3, <1>4, <1>5 DEF Counted, AdmissionInv, Typed, Ledgers
    <2>3. Counted(ledger, who)' \in SUBSET Requests
      BY <2>1, <2>2
    <2>4. Cardinality(Counted(ledger, who) \cup {r}) =< Cardinality(Counted(ledger, who)) + 1
      <3>1. CASE r \in Counted(ledger, who)
        <4>1. Counted(ledger, who) \cup {r} = Counted(ledger, who)
          BY <3>1
        <4>2. QED
          BY <2>1, <4>1, RequestsCount
      <3>2. CASE r \notin Counted(ledger, who)
        BY <2>1, <3>2, RequestsCount
      <3>3. QED
        BY <3>1, <3>2
    <2>5. Counted(ledger, who) \cup {r} \in SUBSET Requests
      BY <2>1
    <2>6. Cardinality(Counted(ledger, who)') =< Cardinality(Counted(ledger, who) \cup {r})
      BY <2>2, <2>5, RequestsCount
    <2>7. Cardinality(Counted(ledger, who)') \in Nat
          /\ Cardinality(Counted(ledger, who)) \in Nat
          /\ Cardinality(Counted(ledger, who) \cup {r}) \in Nat
      BY <2>1, <2>3, <2>5, RequestsCount
    <2>8. session \notin who =>
            Cardinality(Counted(ledger, who)') =< Cardinality(Counted(ledger, who))
      BY <2>1, <2>2, RequestsCount
    <2>9. QED
      BY <2>4, <2>6, <2>7, <2>8
  <1>9. Quota'
    <2>1. Cardinality(Counted(ledger, Sessions)') =< MaxConnections
      BY <1>1, <1>8 DEF Admits, TransportAssumption
    <2>2. ASSUME NEW u \in Sessions
          PROVE  Cardinality(Counted(ledger, {u})') =< MaxPerSession
      <3>1. CASE u = session
        BY <1>1, <1>8, <3>1 DEF Admits, TransportAssumption
      <3>2. CASE u # session
        BY <1>8, <3>2 DEF AdmissionInv, Quota, TransportAssumption
      <3>3. QED
        BY <3>1, <3>2
    <2>3. QED
      BY <2>1, <2>2 DEF Quota
  <1>10. QED
    BY <1>1, <1>3, <1>4, <1>6, <1>7, <1>9, ArrivingKeeps

\* A poll joins the transport of a socket that is bound.
LEMMA PollKeeps ==
  ASSUME TransportAssumption, AdmissionInv, NEW r \in Requests, NEW s \in Requests, Poll(r, s)
  PROVE  AdmissionInv'
  <1> DEFINE h == Served("poll", ledger.bound[s], s)
  <1>1. /\ req[r].stage = "idle" /\ ledger.bound[s] \in Sessions
        /\ req' = [req EXCEPT ![r] = h] /\ UNCHANGED <<live, sockets, ledger>>
    BY DEF Poll, Arrives, AdmissionInv, Typed
  <1>2. ledger \in Ledgers /\ Handling(r) /\ Typed /\ UpgradesCounted
    BY OwnFacts DEF AdmissionInv
  <1>3. /\ h \in Handlers /\ h.kind = "poll" /\ h.sid = s
        /\ h.stage = "serving" /\ ~h.slot /\ ~h.told /\ ~h.guard
        /\ ~h.closes /\ ~h.invalid /\ ~h.revoked
    BY <1>1, ServedFacts DEF Sids, New
  <1> HIDE DEF h
  <1>4. req'[r] = h /\ \A q \in Requests \ {r} : req'[q] = req[q]
    BY <1>1 DEF AdmissionInv, Typed
  <1>5. Opened(s) /\ s # r
    BY <1>1, <1>2, NobodyIsNone DEF AdmissionInv, BoundToTheirOwn, Opened, Handling
  <1>6. Handling(r)'
    BY <1>1, <1>3, <1>4, <1>5 DEF Handling, New, Opened
  <1>7. req[r].kind = "none" /\ r \notin ledger.slots
    BY <1>1, <1>2 DEF Handling
  <1>8. UpgradesCounted'
    <2>1. \A t \in Requests : Upgrading(t)' = Upgrading(t)
      BY <1>3, <1>4, <1>7 DEF Upgrading
    <2>2. QED
      BY <1>1, <1>2, <2>1 DEF UpgradesCounted
  <1>9. Quota'
    <2>1. \A who \in SUBSET Sessions : Counted(ledger, who)' \subseteq Counted(ledger, who)
      BY <1>1, <1>2, <1>4, <1>7 DEF Counted, Typed, Ledgers
    <2>2. QED
      BY <1>2, <2>1, QuotaStays DEF AdmissionInv
  <1>10. QED
    BY <1>1, <1>2, <1>3, <1>6, <1>8, <1>9, ArrivingKeeps

\* So does an upgrade, which is counted.
LEMMA UpgradeKeeps ==
  ASSUME TransportAssumption, AdmissionInv, NEW r \in Requests, NEW s \in Requests,
         Upgrade(r, s)
  PROVE  AdmissionInv'
  <1> DEFINE h == Served("upgrade", ledger.bound[s], s)
             L == [ledger EXCEPT !.upgrades[s] = @ + 1]
  <1>1. /\ req[r].stage = "idle" /\ ledger.bound[s] \in Sessions
        /\ ledger' = L /\ req' = [req EXCEPT ![r] = h] /\ UNCHANGED <<live, sockets>>
    BY DEF Upgrade, Arrives, AdmissionInv, Typed
  <1>2. ledger \in Ledgers /\ Handling(r) /\ Typed /\ UpgradesCounted
        /\ ledger.upgrades \in [Requests -> Nat]
    BY OwnFacts DEF AdmissionInv, Ledgers
  <1>3. /\ h \in Handlers /\ h.kind = "upgrade" /\ h.sid = s /\ h.session = ledger.bound[s]
        /\ h.stage = "serving" /\ ~h.slot /\ ~h.told /\ ~h.guard
        /\ ~h.closes /\ ~h.invalid /\ ~h.revoked
    BY <1>1, ServedFacts DEF Sids, New
  <1>4. L \in Ledgers /\ L.bound = ledger.bound /\ L.slots = ledger.slots
        /\ L.torn = ledger.torn /\ L.owing = ledger.owing
        /\ L.upgrades = [ledger.upgrades EXCEPT ![s] = @ + 1]
    BY <1>2 DEF Ledgers
  <1> HIDE DEF h, L
  <1>5. req'[r] = h /\ \A q \in Requests \ {r} : req'[q] = req[q]
    BY <1>1 DEF AdmissionInv, Typed
  <1>6. Handling(r)'
    BY <1>1, <1>3, <1>4, <1>5 DEF Handling, New
  <1>7. req[r].kind = "none" /\ r \notin ledger.slots
    BY <1>1, <1>2 DEF Handling
  <1>8. ASSUME NEW t \in Requests PROVE ledger'.upgrades[t] = Cardinality(Upgrading(t)')
    <2>1. CASE t = s
      <3>1. Upgrading(t)' = Upgrading(t) \cup {r} /\ r \in Requests \ Upgrading(t)
        BY <1>3, <1>5, <1>7, <2>1 DEF Upgrading
      <3>2. Upgrading(t) \in SUBSET Requests
        BY DEF Upgrading
      <3>3. Cardinality(Upgrading(t)') = Cardinality(Upgrading(t)) + 1
        BY <3>1, <3>2, RequestsCount
      <3>4. QED
        BY <1>1, <1>2, <1>4, <2>1, <3>3 DEF UpgradesCounted
    <2>2. CASE t # s
      <3>1. Upgrading(t)' = Upgrading(t)
        BY <1>3, <1>5, <1>7, <2>2 DEF Upgrading
      <3>2. QED
        BY <1>1, <1>2, <1>4, <2>2, <3>1 DEF UpgradesCounted
    <2>3. QED
      BY <2>1, <2>2
  <1>9. Quota'
    <2>1. \A who \in SUBSET Sessions : Counted(ledger, who)' \subseteq Counted(ledger, who)
      BY <1>1, <1>2, <1>4, <1>5, <1>7 DEF Counted, Typed, Ledgers
    <2>2. QED
      BY <1>2, <2>1, QuotaStays DEF AdmissionInv
  <1>10. UpgradesCounted'
    BY <1>8 DEF UpgradesCounted
  <1>11. QED
    BY <1>1, <1>2, <1>3, <1>4, <1>6, <1>9, <1>10, ArrivingKeeps

\* While a request has its slot, its socket is not opened for anybody else.
LEMMA NotYetOpened ==
  ASSUME TransportAssumption, AdmissionInv, NEW r \in Requests, req[r].kind \in New,
         ~req[r].told
  PROVE  /\ ~Opened(r) /\ r \notin ledger.torn /\ r \notin ledger.owing
         /\ ledger.bound[r] = Nobody /\ r \in ledger.slots
         /\ req[r].session \in Sessions
         /\ \A q \in Requests \ {r} : req[q].kind # "none" => req[q].sid # r
  <1>1. Handling(r) /\ req[r].slot
    BY OwnFacts DEF Handling
  <1>2. ~Opened(r) /\ r \in ledger.slots /\ req[r].session \in Sessions
    BY <1>1 DEF Handling, New, Opened
  <1>3. r \notin ledger.torn /\ r \notin ledger.owing /\ ledger.bound[r] = Nobody
    BY <1>2 DEF AdmissionInv, TornIsGone, OwingIsOver, BoundToTheirOwn, Opened
  <1>4. ASSUME NEW q \in Requests \ {r}, req[q].kind # "none", req[q].sid = r
        PROVE  FALSE
    <2>1. Handling(q) /\ req[q] \in Handlers
      BY OwnFacts
    <2>2. CASE req[q].kind \in New
      BY <1>4, <2>1, <2>2, NobodyIsNone DEF Handling
    <2>3. CASE req[q].kind = "poll"
      BY <1>2, <1>4, <2>1, <2>3 DEF Handling
    <2>4. CASE req[q].kind = "upgrade"
      BY <1>3, <1>4, <2>1, <2>4, NobodyIsNone DEF Handling
    <2>5. QED
      BY <1>4, <2>1, <2>2, <2>3, <2>4 DEF Handlers, New
  <1>5. QED
    BY <1>2, <1>3, <1>4

\* Engine.IO opens the socket of a request that has its slot.
LEMMA EngineOpensKeeps ==
  ASSUME TransportAssumption, AdmissionInv, NEW r \in Requests, EngineOpens(r)
  PROVE  AdmissionInv'
  <1> DEFINE h == [req[r] EXCEPT !.sid = r]
  <1>1. /\ req[r].kind \in New /\ req[r].sid = Nobody
        /\ sockets' = sockets \cup {r} /\ req' = [req EXCEPT ![r] = h]
        /\ UNCHANGED <<live, ledger>>
    BY DEF EngineOpens
  <1>2. req[r] \in Handlers /\ Handling(r) /\ ledger \in Ledgers /\ Typed
    BY OwnFacts DEF AdmissionInv
  <1>3. ~req[r].told
    BY <1>1, <1>2, NobodyIsNone DEF Handling
  <1>4. /\ h \in Handlers
        /\ h.kind = req[r].kind /\ h.session = req[r].session /\ h.sid = r
        /\ h.stage = req[r].stage /\ h.task = req[r].task /\ h.slot = req[r].slot
        /\ h.told = req[r].told /\ h.guard = req[r].guard /\ h.closes = req[r].closes
        /\ h.invalid = req[r].invalid /\ h.revoked = req[r].revoked
    BY <1>2 DEF Handlers, Sids
  <1> HIDE DEF h
  <1>5. req'[r] = h /\ \A q \in Requests \ {r} : req'[q] = req[q]
    BY <1>1, <1>2 DEF Typed
  <1>6. /\ ~Opened(r) /\ r \notin ledger.torn /\ r \notin ledger.owing
        /\ ledger.bound[r] = Nobody /\ r \in ledger.slots
        /\ \A q \in Requests \ {r} : req[q].kind # "none" => req[q].sid # r
    BY <1>1, <1>3, NotYetOpened
  <1>7. \A q \in Requests : Opened(q)' <=> Opened(q)
    BY <1>4, <1>5 DEF Opened
  <1>8. Handling(r)'
    BY <1>1, <1>2, <1>4, <1>5 DEF Handling, New
  <1>9. ~req[r].closes
    BY <1>1, <1>2, <1>3 DEF Handling
  <1>10. EndSeen(r)'
    BY <1>4, <1>5, <1>9 DEF EndSeen
  <1>11. ASSUME NEW q \in Requests \ {r} PROVE Handling(q)' /\ EndSeen(q)'
    <2>1. req'[q] = req[q] /\ Handling(q) /\ EndSeen(q)
      BY <1>5, OwnFacts
    <2>2. req[q].kind = "poll" => Opened(req[q].sid)'
      BY <1>7, <2>1 DEF Handling
    <2>3. Handling(q)'
      BY <1>1, <2>1, <2>2 DEF Handling, New
    <2>4. req[q].kind # "none" => (req[q].sid \in sockets' <=> req[q].sid \in sockets)
      BY <1>1, <1>6
    <2>5. EndSeen(q)'
      BY <1>1, <2>1, <2>4 DEF EndSeen
    <2>6. QED
      BY <2>3, <2>5
  <1>12. SocketsHeld'
    BY <1>1, <1>2, <1>4, <1>5, <1>6 DEF AdmissionInv, SocketsHeld, Typed
  <1>13. BoundToTheirOwn'
    BY <1>1, <1>4, <1>5, <1>7 DEF AdmissionInv, BoundToTheirOwn
  <1>14. TornIsGone' /\ OwingIsOver' /\ SlotsAreSessions'
    BY <1>1, <1>2, <1>4, <1>5, <1>6, <1>7
    DEF AdmissionInv, TornIsGone, OwingIsOver, SlotsAreSessions, Ledgers
  <1>15. \A s \in Requests : Upgrading(s)' = Upgrading(s)
    BY <1>1, <1>4, <1>5 DEF Upgrading, New
  <1>16. UpgradesCounted'
    BY <1>1, <1>15 DEF AdmissionInv, UpgradesCounted
  <1>17. \A who \in SUBSET Sessions : Counted(ledger, who)' \subseteq Counted(ledger, who)
    BY <1>1, <1>2, <1>4, <1>5 DEF Counted, Ledgers
  <1>18. Quota'
    BY <1>2, <1>17, QuotaStays DEF AdmissionInv
  <1>19. Typed'
    BY <1>1, <1>2, <1>4 DEF Typed
  <1>20. QED
    BY <1>8, <1>10, <1>11, <1>12, <1>13, <1>14, <1>16, <1>18, <1>19 DEF AdmissionInv

\* The open packet passes: the slot becomes the binding.
LEMMA SendOpenKeeps ==
  ASSUME TransportAssumption, AdmissionInv, NEW r \in Requests, SendOpen(r)
  PROVE  AdmissionInv'
  <1> DEFINE direct == req[r].kind = "direct"
             L == [ledger EXCEPT !.slots = @ \ {r}, !.bound[r] = req[r].session,
                                 !.guards = IF direct THEN @ \cup {r} ELSE @]
             me == [req[r] EXCEPT !.told = TRUE, !.slot = FALSE, !.guard = direct]
             h == Refreshed(r, L, me)
  <1>1. /\ req[r].kind \in New /\ req[r].sid = r /\ ~req[r].told
        /\ req[r].stage = "serving"
        /\ ledger' = L /\ req' = [req EXCEPT ![r] = h] /\ UNCHANGED <<live, sockets>>
    BY DEF SendOpen
  <1>2. req[r] \in Handlers /\ Handling(r) /\ ledger \in Ledgers /\ Typed
    BY OwnFacts DEF AdmissionInv
  <1>3. /\ ~Opened(r) /\ r \notin ledger.torn /\ r \notin ledger.owing
        /\ ledger.bound[r] = Nobody /\ r \in ledger.slots /\ req[r].session \in Sessions
        /\ \A q \in Requests \ {r} : req[q].kind # "none" => req[q].sid # r
    BY <1>1, NotYetOpened
  <1>4. ~req[r].closes /\ ~req[r].invalid /\ ~req[r].revoked
    BY <1>1, <1>2 DEF Handling
  <1>5. direct \in BOOLEAN
    OBVIOUS
  <1> HIDE DEF direct
  <1>6. L \in Ledgers /\ L.bound = [ledger.bound EXCEPT ![r] = req[r].session]
        /\ L.upgrades = ledger.upgrades /\ L.torn = ledger.torn
        /\ L.owing = ledger.owing /\ L.slots = ledger.slots \ {r}
    BY <1>2, <1>3 DEF Ledgers
  <1>7. L.bound[r] = req[r].session
    BY <1>2, <1>6 DEF Ledgers
  <1> HIDE DEF L
  <1>8. /\ me \in Handlers
        /\ me.kind = req[r].kind /\ me.session = req[r].session /\ me.sid = req[r].sid
        /\ me.stage = req[r].stage /\ ~me.slot /\ me.told
        /\ ~me.closes /\ ~me.invalid /\ ~me.revoked
    BY <1>2, <1>4, <1>5 DEF Handlers
  <1> HIDE DEF me
  <1>9. /\ h \in Handlers
        /\ \/ h = me
           \/ (/\ h.kind = me.kind /\ h.session = me.session /\ h.sid = me.sid
               /\ h.stage = me.stage /\ h.task = me.task /\ h.slot = me.slot
               /\ h.told = me.told /\ h.guard = me.guard /\ h.closes /\ h.invalid
               /\ (h.revoked \/ L.bound[req[r].sid] = Nobody)
               /\ me.kind \in WebSocket)
    BY <1>6, <1>8, RefreshedKnows
  <1> HIDE DEF h
  <1>10. /\ h.kind = req[r].kind /\ h.session = req[r].session /\ h.sid = r
         /\ h.stage = "serving" /\ ~h.slot /\ h.told
         /\ (~h.closes /\ ~h.invalid /\ ~h.revoked) \/ (h.closes /\ h.invalid /\ h.revoked)
    BY <1>1, <1>3, <1>7, <1>8, <1>9, NobodyIsNone
  <1>11. req'[r] = h /\ \A q \in Requests \ {r} : req'[q] = req[q]
    BY <1>1, <1>2 DEF Typed
  <1>12. \A q \in Requests : Opened(q) => Opened(q)'
    BY <1>1, <1>10, <1>11 DEF Opened
  <1>13. /\ ledger'.bound[r] = req[r].session
         /\ \A q \in Requests \ {r} : ledger'.bound[q] = ledger.bound[q]
    BY <1>1, <1>2, <1>6 DEF Ledgers
  <1>14. Handling(r)' /\ EndSeen(r)'
    BY <1>1, <1>3, <1>10, <1>11 DEF Handling, EndSeen, New
  <1>15. ASSUME NEW q \in Requests \ {r} PROVE Handling(q)' /\ EndSeen(q)'
    <2>1. req'[q] = req[q] /\ Handling(q) /\ EndSeen(q) /\ req[q] \in Handlers
      BY <1>11, OwnFacts
    <2>2. req[q].kind = "poll" => Opened(req[q].sid)'
      BY <1>12, <2>1 DEF Handling
    <2>3. req[q].sid \in Requests /\ req[q].kind # "none" =>
            ledger'.bound[req[q].sid] = ledger.bound[req[q].sid]
      BY <1>3, <1>13
    <2>4. Handling(q)'
      BY <1>1, <1>6, <2>1, <2>2, <2>3 DEF Handling, New
    <2>5. req[q].kind # "none" /\ req[q].closes => req[q].sid \in Requests
      BY <2>1 DEF Handling, Handlers, New
    <2>6. EndSeen(q)'
      BY <1>1, <2>1, <2>3, <2>5 DEF EndSeen
    <2>7. QED
      BY <2>4, <2>6
  <1>16. SocketsHeld'
    BY <1>1, <1>2, <1>3, <1>6, <1>10, <1>11, <1>13, NobodyIsNone
    DEF AdmissionInv, SocketsHeld, Typed
  <1>17. BoundToTheirOwn'
    BY <1>10, <1>11, <1>12, <1>13 DEF AdmissionInv, BoundToTheirOwn, Opened
  <1>18. TornIsGone' /\ OwingIsOver' /\ SlotsAreSessions'
    BY <1>1, <1>2, <1>3, <1>6, <1>11, <1>12
    DEF AdmissionInv, TornIsGone, OwingIsOver, SlotsAreSessions, Ledgers
  <1>19. \A s \in Requests : Upgrading(s)' = Upgrading(s)
    BY <1>1, <1>10, <1>11 DEF Upgrading, New
  <1>20. UpgradesCounted'
    BY <1>1, <1>6, <1>19 DEF AdmissionInv, UpgradesCounted
  <1>21. \A who \in SUBSET Sessions : Counted(ledger, who)' \subseteq Counted(ledger, who)
    BY <1>1, <1>2, <1>3, <1>6, <1>10, <1>11, <1>13 DEF Counted, Ledgers
  <1>22. Quota'
    BY <1>2, <1>21, QuotaStays DEF AdmissionInv
  <1>23. Typed'
    BY <1>1, <1>2, <1>6, <1>9 DEF Typed
  <1>24. QED
    BY <1>14, <1>15, <1>16, <1>17, <1>18, <1>20, <1>22, <1>23 DEF AdmissionInv

-----------------------------------------------------------------------------
(* The theorems *)

\* At first nothing is open and nothing counted.
LEMMA InitAdmits == ASSUME TransportAssumption PROVE Init => AdmissionInv
  <1> SUFFICES ASSUME Init PROVE AdmissionInv
    OBVIOUS
  <1>1. Fresh \in Handlers
    BY DEF Fresh, Handlers, Sids
  <1>2. /\ ledger.bound = [s \in Requests |-> Nobody] /\ ledger.upgrades = [s \in Requests |-> 0]
        /\ ledger.torn = {} /\ ledger.slots = {} /\ ledger.owing = {} /\ ledger \in Ledgers
    BY DEF Init, Ledgers
  <1>3. /\ req = [r \in Requests |-> Fresh] /\ sockets = {} /\ live = Sessions
    BY DEF Init
  <1>4. Typed
    BY <1>1, <1>2, <1>3 DEF Typed
  <1>5. \A r \in Requests : Handling(r) /\ EndSeen(r)
    BY <1>2, <1>3 DEF Handling, EndSeen, Fresh, New
  <1>6. SocketsHeld /\ BoundToTheirOwn /\ TornIsGone /\ OwingIsOver /\ SlotsAreSessions
    BY <1>2, <1>3 DEF SocketsHeld, BoundToTheirOwn, TornIsGone, OwingIsOver, SlotsAreSessions
  <1>7. UpgradesCounted
    <2>1. \A s \in Requests : Upgrading(s) = {}
      BY <1>3 DEF Upgrading, Fresh
    <2>2. QED
      BY <1>2, <2>1, FS_EmptySet DEF UpgradesCounted
  <1>8. Quota
    <2>1. \A who \in SUBSET Sessions : Counted(ledger, who) = {}
      BY <1>2, NobodyIsNone DEF Counted
    <2>2. Cardinality(Counted(ledger, Sessions)) = 0
      BY <2>1, FS_EmptySet
    <2>3. \A u \in Sessions : Cardinality(Counted(ledger, {u})) = 0
      BY <2>1, FS_EmptySet
    <2>4. QED
      BY <2>2, <2>3 DEF Quota, TransportAssumption
  <1>9. QED
    BY <1>4, <1>5, <1>6, <1>7, <1>8 DEF AdmissionInv

\* Every step keeps the invariant.
LEMMA NextAdmits ==
  ASSUME TransportAssumption, AdmissionInv, [Next]_vars PROVE AdmissionInv'
  <1>1. CASE UNCHANGED vars
    <2>1. UNCHANGED <<live, sockets, ledger, req>>
      BY <1>1 DEF vars
    <2>2. Typed' /\ UpgradesCounted'
      BY <2>1, SameUpgrades DEF AdmissionInv, Typed
    <2>3. QED
      BY <2>1, <2>2, GivingBackKeeps
  <1>2. ASSUME NEW r \in Requests, Arrive(r) PROVE AdmissionInv'
    BY <1>2, ConnectKeeps, PollKeeps, UpgradeKeeps, PollRevokedKeeps DEF Arrive
  <1>3. ASSUME NEW r \in Requests,
               \/ EngineOpens(r) \/ SendOpen(r) \/ Accept(r) \/ Message(r) \/ SeesClose(r)
        PROVE  AdmissionInv'
    BY <1>3, EngineOpensKeeps, SendOpenKeeps, AcceptKeeps, MessageKeeps, SeesCloseKeeps
  <1>4. ASSUME NEW r \in Requests,
               \/ TaskEnds(r) \/ Leave(r) \/ Cut(r) \/ Cancelled(r) \/ Detach(r)
               \/ DetachedEnds(r)
        PROVE  AdmissionInv'
    BY <1>4, TaskEndsKeeps, LeaveKeeps, CutOrDetachKeeps, CancelledKeeps, DetachedEndsKeeps
  <1>5. ASSUME NEW s \in Requests, DisconnectDone(s) \/ EngineDrops(s) \/ Lapse(s)
        PROVE  AdmissionInv'
    BY <1>5, DisconnectDoneKeeps, QuietStepsKeep
  <1>6. ASSUME NEW session \in Sessions, Revoke(session) PROVE AdmissionInv'
    BY <1>6, QuietStepsKeep
  <1>7. QED
    BY <1>1, <1>2, <1>3, <1>4, <1>5, <1>6 DEF Next

\* The session of a socket counts it, and the sockets are within the limits.
LEMMA AdmissionBounds ==
  ASSUME TransportAssumption, AdmissionInv
  PROVE  SocketsAreCounted /\ ConnectionsBounded
  <1>1. Typed /\ sockets \in SUBSET Requests /\ ledger \in Ledgers
    BY DEF AdmissionInv, Typed
  <1>2. ASSUME NEW s \in sockets
        PROVE  req[s].session \in Sessions /\ s \in Counted(ledger, {req[s].session})
    <2>1. CASE ledger.bound[s] # Nobody
      <3>1. ledger.bound[s] = req[s].session /\ ledger.bound[s] \in Sessions
        BY <1>1, <2>1 DEF AdmissionInv, BoundToTheirOwn, Ledgers
      <3>2. QED
        BY <1>1, <3>1 DEF Counted
    <2>2. CASE s \in ledger.slots
      <3>1. req[s].session \in Sessions
        BY <2>2 DEF AdmissionInv, SlotsAreSessions
      <3>2. QED
        BY <2>2, <3>1 DEF Counted
    <2>3. QED
      BY <2>1, <2>2 DEF AdmissionInv, SocketsHeld
  <1>3. SocketsAreCounted
    <2>1. ASSUME NEW r \in Requests, req[r].kind = "upgrade"
          PROVE  ledger.bound[req[r].sid] = req[r].session
      BY <2>1, OwnFacts DEF Handling
    <2>2. QED
      BY <1>2, <2>1 DEF SocketsAreCounted
  <1>4. Cardinality(sockets) =< MaxConnections
    <2>1. sockets \in SUBSET Counted(ledger, Sessions)
      BY <1>2 DEF Counted
    <2>2. Counted(ledger, Sessions) \in SUBSET Requests
      BY <1>1, CountedAreRequests
    <2>3. /\ Cardinality(sockets) =< Cardinality(Counted(ledger, Sessions))
          /\ Cardinality(sockets) \in Nat /\ Cardinality(Counted(ledger, Sessions)) \in Nat
      BY <1>1, <2>1, <2>2, RequestsCount
    <2>4. QED
      BY <2>3 DEF AdmissionInv, Quota, TransportAssumption
  <1>5. ASSUME NEW u \in Sessions
        PROVE  Cardinality({s \in sockets : req[s].session = u}) =< MaxPerSession
    <2> DEFINE mine == {s \in sockets : req[s].session = u}
    <2>1. mine \in SUBSET Counted(ledger, {u})
      BY <1>2
    <2>2. Counted(ledger, {u}) \in SUBSET Requests
      BY <1>1, CountedAreRequests
    <2>3. mine \in SUBSET Requests
      BY <1>1
    <2> HIDE DEF mine
    <2>4. /\ Cardinality(mine) =< Cardinality(Counted(ledger, {u}))
          /\ Cardinality(mine) \in Nat /\ Cardinality(Counted(ledger, {u})) \in Nat
      BY <2>1, <2>2, <2>3, RequestsCount
    <2>5. Cardinality(mine) =< MaxPerSession
      BY <2>4 DEF AdmissionInv, Quota, TransportAssumption
    <2>6. QED
      BY <2>5 DEF mine
  <1>6. QED
    BY <1>3, <1>4, <1>5 DEF ConnectionsBounded

\* Every socket Engine.IO has, and every upgrade handler that runs, is counted
\* against the session that opened it, whichever of its requests timed out, were
\* cancelled, resisted or returned in whatever order (asgi.py 1379-2006).
THEOREM SocketsCounted == TransportAssumption /\ Spec => []SocketsAreCounted
  <1> SUFFICES ASSUME TransportAssumption PROVE Spec => []SocketsAreCounted
    OBVIOUS
  <1>1. Init => AdmissionInv
    BY InitAdmits
  <1>2. AdmissionInv /\ [Next]_vars => AdmissionInv'
    BY NextAdmits
  <1>3. AdmissionInv => SocketsAreCounted
    BY AdmissionBounds
  <1>4. QED
    BY <1>1, <1>2, <1>3, PTL DEF Spec

\* Engine.IO never has more sockets than the limits admit, in all and for one
\* session, although what is admitted is a slot and the socket comes later.
THEOREM ConnectionsWithinLimits == TransportAssumption /\ Spec => []ConnectionsBounded
  <1> SUFFICES ASSUME TransportAssumption PROVE Spec => []ConnectionsBounded
    OBVIOUS
  <1>1. Init => AdmissionInv
    BY InitAdmits
  <1>2. AdmissionInv /\ [Next]_vars => AdmissionInv'
    BY NextAdmits
  <1>3. AdmissionInv => ConnectionsBounded
    BY AdmissionBounds
  <1>4. QED
    BY <1>1, <1>2, <1>3, PTL DEF Spec

-----------------------------------------------------------------------------
(* Locks of several accounts *)

\* A lease in Redis is its request's, and the request knows it.
LeasesAgree ==
  IF coordinated THEN \A r \in Threads, k \in Lock!AllKeys : lease[k] = r <=> k \in got[r]
  ELSE \A k \in Lock!AllKeys : lease[k] = Nobody

\* Only who takes keys waits for a lease, and only with Redis.
HalfTaken == \A r \in Threads : half[r] => at[r] = "taking" /\ coordinated

\* Who takes keys begins with the gate; who has not begun has none.
GateFirst ==
  \A r \in Threads :
    /\ at[r] = "idle" => got[r] = {}
    /\ at[r] = "taking" => Lock!Gate \in wants[r] /\ (got[r] = {} \/ Lock!Gate \in got[r])

\* A stripe has one holder: two requests of one process share none.
StripesApart ==
  \A r, s \in Threads, slot \in Slots :
    Lock!InTheWay(r, s, slot) => ~Lock!HoldsStripe(r, slot)

LockInv == Lock!TypeOK /\ LeasesAgree /\ HalfTaken /\ GateFirst /\ StripesApart

-----------------------------------------------------------------------------
(* Keys and stripes *)

\* The gate is the first of the keys.
LEMMA KeysAreNumbers ==
  ASSUME Lock!LockAssumption
  PROVE  /\ Lock!AllKeys \subseteq Nat /\ Lock!Gate \in Lock!AllKeys
         /\ \A k \in Lock!AllKeys : Lock!Gate =< k /\ SlotOf[k] \in Slots
  BY DEF Lock!LockAssumption, Lock!AllKeys, Lock!Gate

\* A request takes one key next.
LEMMA NextIsOne ==
  ASSUME Lock!LockAssumption, NEW r, NEW j \in Lock!AllKeys, NEW k \in Lock!AllKeys,
         Lock!IsNext(r, j), Lock!IsNext(r, k)
  PROVE  j = k
  BY KeysAreNumbers DEF Lock!IsNext

\* A request that wants the gate and has nothing takes the gate next.
LEMMA GateIsNext ==
  ASSUME Lock!LockAssumption, NEW r, NEW k \in Lock!AllKeys, Lock!IsNext(r, k),
         Lock!Gate \in wants[r] \ got[r]
  PROVE  k = Lock!Gate
  BY KeysAreNumbers DEF Lock!IsNext

\* The stripes of a request depend on its own keys only.
LEMMA StripesOfItsOwn ==
  ASSUME NEW s, NEW slot, got'[s] = got[s], half'[s] = half[s], wants'[s] = wants[s]
  PROVE  Lock!HoldsStripe(s, slot)' <=> Lock!HoldsStripe(s, slot)
  BY DEF Lock!HoldsStripe, Lock!IsNext

\* A step of one request that takes no stripe but a free one keeps them apart.
LEMMA StripesStayApart ==
  ASSUME StripesApart, NEW r \in Threads,
         \A s \in Threads \ {r} :
            got'[s] = got[s] /\ half'[s] = half[s] /\ wants'[s] = wants[s],
         \A slot \in Slots :
            Lock!HoldsStripe(r, slot)' => Lock!HoldsStripe(r, slot) \/ Lock!StripeFree(r, slot)
  PROVE  StripesApart'
  <1> SUFFICES ASSUME NEW q \in Threads, NEW s \in Threads, NEW slot \in Slots,
                      s # q, ProcessOf[s] = ProcessOf[q],
                      Lock!HoldsStripe(s, slot)', Lock!HoldsStripe(q, slot)'
               PROVE  FALSE
    BY DEF StripesApart, Lock!InTheWay
  <1>1. \A p \in Threads \ {r} : Lock!HoldsStripe(p, slot)' => Lock!HoldsStripe(p, slot)
    BY StripesOfItsOwn
  <1>2. CASE q # r /\ s # r
    BY <1>1, <1>2 DEF StripesApart, Lock!InTheWay
  <1>3. CASE q = r
    BY <1>1, <1>3 DEF StripesApart, Lock!InTheWay, Lock!StripeFree
  <1>4. CASE s = r
    BY <1>1, <1>4 DEF StripesApart, Lock!InTheWay, Lock!StripeFree
  <1>5. QED
    BY <1>2, <1>3, <1>4

-----------------------------------------------------------------------------
(* The actions *)

\* At first nobody has anything.
LEMMA InitLocks == ASSUME Lock!LockAssumption PROVE Lock!Init => LockInv
  <1> SUFFICES ASSUME Lock!Init
               PROVE  LockInv
    OBVIOUS
  <1>1. Lock!TypeOK
    BY DEF Lock!Init, Lock!TypeOK
  <1>2. LeasesAgree
    BY DEF Lock!LockAssumption, Lock!Init, LeasesAgree
  <1>3. HalfTaken /\ GateFirst
    BY DEF Lock!Init, HalfTaken, GateFirst
  <1>4. StripesApart
    BY DEF Lock!Init, StripesApart, Lock!InTheWay, Lock!HoldsStripe
  <1>5. QED
    BY <1>1, <1>2, <1>3, <1>4 DEF LockInv

\* A request begins: it has no key yet.
LEMMA BeginKeeps ==
  ASSUME Lock!LockAssumption, LockInv, NEW r \in Threads, Lock!Begin(r)
  PROVE  LockInv'
  <1>1. PICK keys \in SUBSET Keys : wants' = [wants EXCEPT ![r] = keys \cup {Lock!Gate}]
    BY DEF Lock!Begin, Lock!Behind
  <1>2. at[r] = "idle" /\ at' = [at EXCEPT ![r] = "taking"]
        /\ UNCHANGED <<got, half, lease, coordinated>>
        /\ \E provisions \in BOOLEAN : keeps' = [keeps EXCEPT ![r] = provisions]
    BY DEF Lock!Begin
  <1>3. Lock!TypeOK'
    BY <1>1, <1>2 DEF LockInv, Lock!TypeOK, Lock!AllKeys
  <1>4. LeasesAgree'
    BY <1>2 DEF LockInv, LeasesAgree
  <1>5. got[r] = {} /\ ~half[r]
    BY <1>2 DEF LockInv, HalfTaken, GateFirst
  <1>6. HalfTaken'
    BY <1>2 DEF LockInv, HalfTaken, Lock!TypeOK
  <1>7. GateFirst'
    BY <1>1, <1>2, <1>5 DEF LockInv, GateFirst, Lock!TypeOK
  <1>8. \A slot \in Slots : ~Lock!HoldsStripe(r, slot)'
    BY <1>2, <1>5 DEF Lock!HoldsStripe
  <1>9. \A s \in Threads \ {r} :
           got'[s] = got[s] /\ half'[s] = half[s] /\ wants'[s] = wants[s]
    BY <1>1, <1>2 DEF LockInv, Lock!TypeOK
  <1>10. StripesApart'
    BY <1>8, <1>9, StripesStayApart DEF LockInv
  <1>11. QED
    BY <1>3, <1>4, <1>6, <1>7, <1>10 DEF LockInv

\* A key is added to those of a request, which has its stripe.
LEMMA TakesKeeps ==
  ASSUME Lock!LockAssumption, LockInv, NEW r \in Threads, NEW k \in Lock!AllKeys,
         at[r] = "taking", Lock!IsNext(r, k), Lock!Takes(r, k),
         half' = [half EXCEPT ![r] = FALSE],
         Lock!HoldsStripe(r, SlotOf[k]) \/ Lock!StripeFree(r, SlotOf[k])
  PROVE  HalfTaken' /\ GateFirst' /\ StripesApart'
  <1> USE DEF Lock!TypeOK, LockInv
  <1>1. got' = [got EXCEPT ![r] = @ \cup {k}] /\ UNCHANGED <<wants, coordinated>>
        /\ \E place \in {"inside", "ungating", "taking"} : at' = [at EXCEPT ![r] = place]
    BY DEF Lock!Takes, Lock!After
  <1>2. HalfTaken'
    BY <1>1 DEF HalfTaken
  <1>3. Lock!Gate \in got'[r]
    BY <1>1, GateIsNext DEF GateFirst
  <1>4. GateFirst'
    BY <1>1, <1>3 DEF GateFirst
  <1>5. \A slot \in Slots :
           Lock!HoldsStripe(r, slot)' => Lock!HoldsStripe(r, slot) \/ Lock!StripeFree(r, slot)
    BY <1>1 DEF Lock!HoldsStripe
  <1>6. StripesApart'
    BY <1>1, <1>5, StripesStayApart
  <1>7. QED
    BY <1>2, <1>4, <1>6

\* A stripe is taken: with Redis half of the key, else the key.
LEMMA TakeStripeKeeps ==
  ASSUME Lock!LockAssumption, LockInv, NEW r \in Threads, Lock!TakeStripe(r)
  PROVE  LockInv'
  <1>1. PICK k \in Lock!AllKeys :
           /\ Lock!IsNext(r, k) /\ Lock!StripeFree(r, SlotOf[k])
           /\ IF coordinated
              THEN half' = [half EXCEPT ![r] = TRUE]
                   /\ UNCHANGED <<at, keeps, wants, got, coordinated>>
              ELSE Lock!Takes(r, k) /\ UNCHANGED half
    BY DEF Lock!TakeStripe
  <1>2. at[r] = "taking" /\ ~half[r] /\ UNCHANGED lease
    BY DEF Lock!TakeStripe
  <1>3. CASE coordinated
    <2>1. half' = [half EXCEPT ![r] = TRUE] /\ UNCHANGED <<at, keeps, wants, got, coordinated>>
      BY <1>1, <1>3
    <2>2. Lock!TypeOK' /\ LeasesAgree' /\ HalfTaken' /\ GateFirst'
      BY <1>2, <1>3, <2>1 DEF LockInv, Lock!TypeOK, LeasesAgree, HalfTaken, GateFirst
    <2>3. \A slot \in Slots :
             Lock!HoldsStripe(r, slot)' => Lock!HoldsStripe(r, slot) \/ Lock!StripeFree(r, slot)
      <3> SUFFICES ASSUME NEW slot \in Slots, Lock!HoldsStripe(r, slot)', ~Lock!HoldsStripe(r, slot)
                   PROVE  Lock!StripeFree(r, slot)
        OBVIOUS
      <3>1. PICK j \in Lock!AllKeys : Lock!IsNext(r, j) /\ SlotOf[j] = slot
        BY <2>1 DEF Lock!HoldsStripe, Lock!IsNext
      <3>2. j = k
        BY <1>1, <3>1, NextIsOne
      <3>3. QED
        BY <1>1, <3>1, <3>2
    <2>4. StripesApart'
      BY <2>1, <2>3, StripesStayApart DEF LockInv, Lock!TypeOK
    <2>5. QED
      BY <2>2, <2>4 DEF LockInv
  <1>4. CASE ~coordinated
    <2>1. Lock!Takes(r, k) /\ half' = [half EXCEPT ![r] = FALSE]
      BY <1>1, <1>2, <1>4 DEF LockInv, Lock!TypeOK
    <2>2. HalfTaken' /\ GateFirst' /\ StripesApart'
      BY <1>1, <1>2, <2>1, TakesKeeps
    <2>3. Lock!TypeOK'
      BY <1>2, <2>1 DEF LockInv, Lock!TypeOK, Lock!Takes, Lock!After
    <2>4. LeasesAgree'
      BY <1>2, <1>4, <2>1 DEF LockInv, LeasesAgree, Lock!Takes
    <2>5. QED
      BY <2>2, <2>3, <2>4 DEF LockInv
  <1>5. QED
    BY <1>3, <1>4

\* The lease of a key whose stripe is held is free, and is taken.
LEMMA TakeLeaseKeeps ==
  ASSUME Lock!LockAssumption, LockInv, NEW r \in Threads, Lock!TakeLease(r)
  PROVE  LockInv'
  <1>1. PICK k \in Lock!AllKeys :
           Lock!IsNext(r, k) /\ lease[k] = Nobody /\ lease' = [lease EXCEPT ![k] = r] /\ Lock!Takes(r, k)
    BY DEF Lock!TakeLease, Lock!LeaseFree
  <1>2. at[r] = "taking" /\ half[r] /\ half' = [half EXCEPT ![r] = FALSE]
    BY DEF Lock!TakeLease
  <1>3. Lock!HoldsStripe(r, SlotOf[k])
    BY <1>1, <1>2 DEF Lock!HoldsStripe
  <1>4. HalfTaken' /\ GateFirst' /\ StripesApart'
    BY <1>1, <1>2, <1>3, TakesKeeps
  <1>5. Lock!TypeOK'
    BY <1>1, <1>2 DEF LockInv, Lock!TypeOK, Lock!Takes, Lock!After
  <1>6. coordinated /\ coordinated'
    BY <1>1, <1>2 DEF LockInv, HalfTaken, Lock!Takes
  <1>7. LeasesAgree'
    BY <1>1, <1>6 DEF LockInv, LeasesAgree, Lock!Takes, Lock!TypeOK, Lock!LockAssumption
  <1>8. QED
    BY <1>4, <1>5, <1>7 DEF LockInv

\* Keys that are let go of are given back with their leases.
LEMMA LettingGoKeeps ==
  ASSUME Lock!LockAssumption, LockInv, NEW r \in Threads, NEW keys \in SUBSET Lock!AllKeys,
         got' = [got EXCEPT ![r] = @ \ keys], lease' = Lock!Without(r, keys),
         \E h \in {half[r], FALSE} : half' = [half EXCEPT ![r] = h],
         \E place \in {"inside", "done"} : at' = [at EXCEPT ![r] = place],
         at[r] # "taking" \/ ~half'[r],
         UNCHANGED <<keeps, wants, coordinated>>
  PROVE  LockInv'
  <1> USE DEF LockInv, Lock!TypeOK
  <1>1. ~half'[r]
    BY DEF HalfTaken
  <1>2. Lock!TypeOK'
    BY DEF Lock!Without
  <1>3. LeasesAgree'
    BY DEF LeasesAgree, Lock!Without, Lock!LockAssumption
  <1>4. HalfTaken'
    BY <1>1 DEF HalfTaken
  <1>5. GateFirst'
    BY DEF GateFirst
  <1>6. \A slot \in Slots : Lock!HoldsStripe(r, slot)' => Lock!HoldsStripe(r, slot)
    BY <1>1 DEF Lock!HoldsStripe
  <1>7. StripesApart'
    BY <1>6, StripesStayApart
  <1>8. QED
    BY <1>2, <1>3, <1>4, <1>5, <1>7

\* A request that leaves or gives up lets everything go.
LEMMA LetGoKeeps ==
  ASSUME Lock!LockAssumption, LockInv, NEW r \in Threads, Lock!LetGo(r)
  PROVE  LockInv'
  <1>1. got' = [got EXCEPT ![r] = @ \ Lock!AllKeys]
    BY DEF Lock!LetGo, LockInv, Lock!TypeOK
  <1>2. ~half'[r] /\ half' = [half EXCEPT ![r] = FALSE]
    BY DEF Lock!LetGo, LockInv, Lock!TypeOK
  <1>3. QED
    BY <1>1, <1>2, LettingGoKeeps DEF Lock!LetGo

\* Every step keeps the invariant.
LEMMA NextKeeps == ASSUME Lock!LockAssumption PROVE LockInv /\ [Lock!Next]_Lock!vars => LockInv'
  <1> SUFFICES ASSUME LockInv, [Lock!Next]_Lock!vars
               PROVE  LockInv'
    OBVIOUS
  <1>1. ASSUME NEW r \in Threads, Lock!Begin(r)
        PROVE  LockInv'
    BY <1>1, BeginKeeps
  <1>2. ASSUME NEW r \in Threads, Lock!TakeStripe(r)
        PROVE  LockInv'
    BY <1>2, TakeStripeKeeps
  <1>3. ASSUME NEW r \in Threads, Lock!TakeLease(r)
        PROVE  LockInv'
    BY <1>3, TakeLeaseKeeps
  <1>4. ASSUME NEW r \in Threads, Lock!Ungate(r)
        PROVE  LockInv'
    <2>1. got' = [got EXCEPT ![r] = @ \ {Lock!Gate}] /\ lease' = Lock!Without(r, {Lock!Gate})
          /\ at' = [at EXCEPT ![r] = "inside"] /\ at[r] # "taking"
          /\ UNCHANGED <<keeps, wants, half, coordinated>>
      BY <1>4 DEF Lock!Ungate
    <2>2. half' = [half EXCEPT ![r] = half[r]]
      BY <2>1 DEF LockInv, Lock!TypeOK
    <2>3. {Lock!Gate} \subseteq Lock!AllKeys
      BY KeysAreNumbers
    <2>4. QED
      BY <2>1, <2>2, <2>3, LettingGoKeeps
  <1>5. ASSUME NEW r \in Threads, Lock!Leave(r) \/ Lock!GiveUp(r)
        PROVE  LockInv'
    BY <1>5, LetGoKeeps DEF Lock!Leave, Lock!GiveUp
  <1>6. CASE UNCHANGED Lock!vars
    BY <1>6 DEF Lock!vars, LockInv, Lock!TypeOK, LeasesAgree, HalfTaken, GateFirst, StripesApart,
                Lock!InTheWay, Lock!HoldsStripe, Lock!IsNext
  <1>7. QED
    BY <1>1, <1>2, <1>3, <1>4, <1>5, <1>6 DEF Lock!Next, Lock!Step

-----------------------------------------------------------------------------
(* The theorems *)

\* The invariant holds in every state.
LEMMA LocksInvariant == ASSUME Lock!LockAssumption PROVE Lock!Spec => []LockInv
  <1>1. Lock!Init => LockInv
    BY InitLocks
  <1>2. LockInv /\ [Lock!Next]_Lock!vars => LockInv'
    BY NextKeeps
  <1>3. QED
    BY <1>1, <1>2, PTL DEF Lock!Spec

\* It keeps a key to one request.
LEMMA HeldOnce == ASSUME Lock!LockAssumption PROVE LockInv => Lock!KeyHeldOnce
  <1> SUFFICES ASSUME LockInv, NEW r \in Threads, NEW s \in Threads,
                      NEW k \in got[r] \cap got[s], r # s
               PROVE  ~coordinated /\ ProcessOf[r] # ProcessOf[s]
    BY DEF Lock!KeyHeldOnce
  <1>1. k \in Lock!AllKeys /\ SlotOf[k] \in Slots
    BY KeysAreNumbers DEF LockInv, Lock!TypeOK
  <1>2. Lock!HoldsStripe(r, SlotOf[k]) /\ Lock!HoldsStripe(s, SlotOf[k])
    BY DEF Lock!HoldsStripe
  <1>3. ProcessOf[r] # ProcessOf[s]
    BY <1>1, <1>2 DEF LockInv, StripesApart, Lock!InTheWay
  <1>4. ~coordinated
    BY <1>1 DEF LockInv, LeasesAgree
  <1>5. QED
    BY <1>3, <1>4

\* A key has one holder at a time: within a process by its stripe, across
\* processes by its lease (resource_lock, app.py:944-953).
THEOREM KeysAreExclusive == ASSUME Lock!LockAssumption PROVE Lock!Spec => []Lock!KeyHeldOnce
  <1>1. LockInv => Lock!KeyHeldOnce
    BY HeldOnce
  <1>2. QED
    BY <1>1, LocksInvariant, PTL

\* Who is waited for has the gate, if it still takes keys at all, or waits for
\* the lease of the gate; and nobody who has the gate waits for such a one.
LEMMA WaitsGoForward == ASSUME Lock!LockAssumption PROVE LockInv => Lock!WaitsLeadOut
  <1> SUFFICES ASSUME LockInv, NEW r \in Threads, NEW s \in Threads, Lock!WaitsFor(r, s)
               PROVE  Lock!Distance(s) < Lock!Distance(r)
    BY DEF Lock!WaitsLeadOut
  <1>1. PICK k \in Lock!AllKeys :
           /\ Lock!IsNext(r, k)
           /\ IF half[r] THEN lease[k] = s ELSE Lock!InTheWay(r, s, SlotOf[k])
    BY DEF Lock!WaitsFor
  <1>2. r # s /\ at[r] = "taking" /\ Lock!Gate \in wants[r]
    BY DEF Lock!WaitsFor, LockInv, GateFirst
  <1>3. half[r] => k \in got[s] /\ coordinated
    BY <1>1 DEF LockInv, LeasesAgree, HalfTaken
  <1>4. Lock!Distance(s) \in 0..3 /\ (at[s] # "taking" => Lock!Distance(s) = 0)
    BY DEF Lock!Distance
  <1>5. CASE Lock!Gate \in got[r]
    <2>1. Lock!Distance(r) = 1
      BY <1>2, <1>5 DEF Lock!Distance
    <2>2. SUFFICES ASSUME at[s] = "taking"
                   PROVE  FALSE
      BY <1>4, <2>1
    <2>3. ~(Lock!Gate \in got[s] /\ (half[r] \/ ProcessOf[r] = ProcessOf[s]))
      BY <1>2, <1>3, <1>5, HeldOnce DEF Lock!KeyHeldOnce
    <2>4. CASE half[r]
      BY <1>3, <2>2, <2>3, <2>4 DEF LockInv, GateFirst
    <2>5. CASE ~half[r]
      <3>1. ProcessOf[r] = ProcessOf[s] /\ Lock!HoldsStripe(s, SlotOf[k])
        BY <1>1, <2>5 DEF Lock!InTheWay
      <3>2. got[s] = {} /\ Lock!Gate \in wants[s] \ got[s]
        BY <2>2, <2>3, <3>1 DEF LockInv, GateFirst
      <3>3. PICK j \in Lock!AllKeys : half[s] /\ Lock!IsNext(s, j) /\ SlotOf[j] = SlotOf[k]
        BY <3>1, <3>2 DEF Lock!HoldsStripe
      <3>4. j = Lock!Gate
        BY <3>2, <3>3, GateIsNext
      <3>5. Lock!HoldsStripe(s, SlotOf[Lock!Gate]) /\ Lock!HoldsStripe(r, SlotOf[Lock!Gate])
        BY <1>5, <3>3, <3>4 DEF Lock!HoldsStripe
      <3>6. QED
        BY <1>2, <3>1, <3>5, KeysAreNumbers DEF LockInv, StripesApart, Lock!InTheWay
    <2>6. QED
      BY <2>4, <2>5
  <1>6. CASE Lock!Gate \notin got[r] /\ half[r]
    <2>1. k = Lock!Gate /\ Lock!Gate \in got[s]
      BY <1>1, <1>2, <1>3, <1>6, GateIsNext
    <2>2. Lock!Distance(r) = 2 /\ Lock!Distance(s) < 2
      BY <1>2, <1>6, <2>1 DEF Lock!Distance
    <2>3. QED
      BY <2>2
  <1>7. CASE Lock!Gate \notin got[r] /\ ~half[r]
    <2>1. Lock!HoldsStripe(s, SlotOf[k])
      BY <1>1, <1>7 DEF Lock!InTheWay
    <2>2. at[s] = "taking" => Lock!Gate \in got[s] \/ half[s]
      BY <2>1 DEF LockInv, GateFirst, Lock!HoldsStripe
    <2>3. Lock!Distance(r) = 3 /\ Lock!Distance(s) < 3
      BY <1>2, <1>7, <2>2 DEF Lock!Distance
    <2>4. QED
      BY <2>3
  <1>8. QED
    BY <1>5, <1>6, <1>7

\* Threads never wait for each other in a circle: who is waited for is nearer to
\* having all its keys (mutation_locks and its gate, app.py:955-980).
THEOREM NoCircularWait == ASSUME Lock!LockAssumption PROVE Lock!Spec => []Lock!WaitsLeadOut
  <1>1. LockInv => Lock!WaitsLeadOut
    BY WaitsGoForward
  <1>2. QED
    BY <1>1, LocksInvariant, PTL

\* The variables keep their types.
THEOREM TypeCorrect == ASSUME Lock!LockAssumption PROVE Lock!Spec => []Lock!TypeOK
  <1>1. LockInv => Lock!TypeOK
    BY DEF LockInv
  <1>2. QED
    BY <1>1, LocksInvariant, PTL

-----------------------------------------------------------------------------
(* Profile shares *)

\* What the ghosts count is what the share counts; a share never made has
\* neither downloads nor wrong codes.
SharesCount ==
  /\ \A s \in Share!Held : delivered[s] = items[s].downloads /\ wrong[s] = items[s].failed
  /\ \A s \in Shares \ made : delivered[s] = 0 /\ wrong[s] = 0
  /\ Share!DownloadsBounded

\* A closed store is empty; who was told that a share is gone was told so of one
\* that was made and is no longer there.
SharesEnd ==
  /\ closed => Share!Held = {}
  /\ \A c \in Clients :
       /\ step[c].at # "idle" => step[c].share \in made
       /\ step[c].answer = "gone" => step[c].share \in made \ Share!Held

ShareInv == Share!TypeOK /\ SharesCount /\ SharesEnd

\* What is left of a function after a step.
LEMMA WithoutOK ==
  ASSUME NEW f, NEW s
  PROVE  /\ DOMAIN Share!Without(f, s) = DOMAIN f \ {s}
         /\ \A t \in DOMAIN f \ {s} : Share!Without(f, s)[t] = f[t]
  BY DEF Share!Without

LEMMA PurgedOK ==
  /\ DOMAIN Share!Purged(0) = Share!Held \ overdue
  /\ \A s : Share!Purged(s) = Share!Purged(0)
  /\ \A t \in Share!Held \ overdue : Share!Purged(0)[t] = items[t]
  BY DEF Share!Purged

\* A wrong code: one more of them, or the lock and none.
LEMMA AfterWrongOK ==
  ASSUME Share!ShareAssumption, NEW item \in Share!Item
  PROVE  /\ Share!AfterWrong(item) \in Share!Item
         /\ Share!AfterWrong(item).downloads = item.downloads
         /\ item.locked = "locked" => Share!AfterWrong(item) = item
         /\ item.locked # "locked" /\ Share!AfterWrong(item).locked = "locked"
              => Share!AfterWrong(item).failed = 0
         /\ item.locked # "locked" /\ Share!AfterWrong(item).locked # "locked"
              => Share!AfterWrong(item).failed =
                   IF item.locked = "over" THEN 1 ELSE item.failed + 1
  <1> DEFINE failed == IF item.locked = "over" THEN 1 ELSE item.failed + 1
             locked == [item EXCEPT !.failed = 0, !.locked = "locked"]
             counted == [item EXCEPT !.failed = failed, !.locked = "no"]
  <1>1. /\ MaxFailures \in Nat \ {0} /\ item.failed \in 0..(MaxFailures - 1)
        /\ item.downloads \in 0..(MaxDownloads - 1) /\ item.locked \in {"no", "locked", "over"}
    BY DEF Share!ShareAssumption, Share!Item
  <1>0. 0 \in 0..(MaxFailures - 1)
    BY <1>1
  <1>2. locked \in Share!Item /\ locked.failed = 0 /\ locked.locked = "locked"
        /\ locked.downloads = item.downloads
    BY <1>0, <1>1 DEF Share!Item
  <1>3. failed \in Nat
    BY <1>1
  <1>4. CASE item.locked = "locked"
    <2>1. Share!AfterWrong(item) = item
      BY <1>4 DEF Share!AfterWrong
    <2>2. QED
      BY <1>4, <2>1
  <1>5. CASE item.locked # "locked" /\ failed >= MaxFailures
    <2>1. Share!AfterWrong(item) = locked
      BY <1>5 DEF Share!AfterWrong
    <2>2. QED
      BY <1>2, <1>5, <2>1
  <1>6. CASE item.locked # "locked" /\ ~(failed >= MaxFailures)
    <2>1. Share!AfterWrong(item) = counted
      BY <1>6 DEF Share!AfterWrong
    <2>2. failed \in 0..(MaxFailures - 1)
      BY <1>1, <1>3, <1>6
    <2>3. counted \in Share!Item /\ counted.failed = failed /\ counted.locked = "no"
          /\ counted.downloads = item.downloads
      BY <1>1, <2>2 DEF Share!Item
    <2>4. QED
      BY <1>6, <2>1, <2>3
  <1>7. QED
    BY <1>4, <1>5, <1>6

\* A right code: one download more, or the last, and the share is gone.
LEMMA AfterRightOK ==
  ASSUME Share!ShareAssumption, NEW f, NEW s \in DOMAIN f, f[s] \in Share!Item
  PROVE  LET g == Share!AfterRight(f, s)
         IN  /\ \A t \in DOMAIN f \ {s} : t \in DOMAIN g /\ g[t] = f[t]
             /\ DOMAIN g \subseteq DOMAIN f
             /\ f[s].downloads + 1 =< MaxDownloads
             /\ s \in DOMAIN g => /\ g[s] \in Share!Item /\ g[s].failed = 0
                                  /\ g[s].downloads = f[s].downloads + 1
  <1> DEFINE more == [downloads |-> f[s].downloads + 1, failed |-> 0, locked |-> "no"]
  <1>1. MaxDownloads \in Nat \ {0} /\ MaxFailures \in Nat \ {0}
        /\ f[s].downloads \in 0..(MaxDownloads - 1)
    BY DEF Share!ShareAssumption, Share!Item
  <1>2. CASE f[s].downloads + 1 >= MaxDownloads
    <2>1. Share!AfterRight(f, s) = Share!Without(f, s)
      BY <1>2 DEF Share!AfterRight
    <2>2. s \notin DOMAIN Share!Without(f, s)
      BY WithoutOK
    <2>3. \A t \in DOMAIN f \ {s} :
            t \in DOMAIN Share!Without(f, s) /\ Share!Without(f, s)[t] = f[t]
      BY WithoutOK
    <2>4. f[s].downloads + 1 =< MaxDownloads
      BY <1>1
    <2>5. DOMAIN Share!Without(f, s) \subseteq DOMAIN f
      BY WithoutOK
    <2> DEFINE g == Share!Without(f, s)
    <2> HIDE DEF g
    <2>6. /\ \A t \in DOMAIN f \ {s} : t \in DOMAIN g /\ g[t] = f[t]
          /\ DOMAIN g \subseteq DOMAIN f /\ s \notin DOMAIN g
      BY <2>2, <2>3, <2>5 DEF g
    <2>7. Share!AfterRight(f, s) = g
      BY <2>1 DEF g
    <2>8. QED
      BY <2>4, <2>6, <2>7
  <1>3. CASE ~(f[s].downloads + 1 >= MaxDownloads)
    <2>1. Share!AfterRight(f, s) = Share!With(f, s, more)
      BY <1>3 DEF Share!AfterRight
    <2>2. more \in Share!Item /\ more.failed = 0 /\ more.downloads = f[s].downloads + 1
      BY <1>1, <1>3 DEF Share!Item
    <2>3. \A t \in DOMAIN f \ {s} :
            t \in DOMAIN Share!With(f, s, more) /\ Share!With(f, s, more)[t] = f[t]
      BY DEF Share!With
    <2>4. f[s].downloads + 1 =< MaxDownloads
      BY <1>1, <1>3
    <2>5. Share!With(f, s, more)[s] = more /\ DOMAIN Share!With(f, s, more) \subseteq DOMAIN f
      BY DEF Share!With
    <2>6. QED
      BY <2>1, <2>2, <2>3, <2>4, <2>5
  <1>4. QED
    BY <1>2, <1>3

\* Most steps leave of the shares what the purge does, and the counts alone.
ItemsShrink ==
  /\ DOMAIN items' \subseteq Share!Held
  /\ \A s \in DOMAIN items' : items'[s] = items[s]

LEMMA ShrinkOK ==
  ASSUME ShareInv, ItemsShrink, made' = made, closed' = closed,
         delivered' = delivered, wrong' = wrong
  PROVE  /\ DOMAIN items' \subseteq made' /\ \A s \in DOMAIN items' : items'[s] \in Share!Item
         /\ SharesCount' /\ (closed' => Share!Held' = {})
  BY DEF ShareInv, ItemsShrink, SharesCount, SharesEnd, Share!TypeOK, Share!Held,
         Share!DownloadsBounded

LEMMA PurgeShrinks ==
  ASSUME ShareInv, NEW s, items' = items \/ items' = Share!Purged(s)
  PROVE  ItemsShrink
  BY PurgedOK DEF ItemsShrink, Share!Held

LEMMA PutKeeps ==
  ASSUME Share!ShareAssumption, ShareInv, NEW s \in Shares, Share!Put(s)
  PROVE  ShareInv'
  <1>1. s \notin made /\ made' = made \cup {s} /\ s \notin Share!Held
        /\ UNCHANGED <<overdue, closed, published, step, delivered, wrong>>
    BY DEF Share!Put, ShareInv, Share!TypeOK
  <1>2. Share!Fresh \in Share!Item /\ Share!Fresh.downloads = 0 /\ Share!Fresh.failed = 0
    BY DEF Share!Fresh, Share!Item, Share!ShareAssumption
  <1>3. CASE closed
    <2>1. items' = items
      BY <1>3 DEF Share!Put
    <2>2. QED
      BY <1>1, <2>1 DEF ShareInv, SharesCount, SharesEnd, Share!TypeOK, Share!Held,
                        Share!DownloadsBounded
  <1>4. CASE ~closed
    <2>1. items' = Share!With(Share!Purged(s), s, Share!Fresh)
      BY <1>4 DEF Share!Put
    <2>2. /\ DOMAIN items' = (Share!Held \ overdue) \cup {s} /\ items'[s] = Share!Fresh
          /\ \A t \in Share!Held \ overdue : items'[t] = items[t]
      BY <1>1, <2>1 DEF Share!With, Share!Purged, Share!Held
    <2>3. QED
      BY <1>1, <1>2, <1>4, <2>2 DEF ShareInv, SharesCount, SharesEnd, Share!TypeOK, Share!Held,
                             Share!DownloadsBounded
  <1>5. QED
    BY <1>3, <1>4

LEMMA PublishKeeps ==
  ASSUME ShareInv, NEW s \in Shares, Share!Publish(s)
  PROVE  ShareInv'
  <1>1. ItemsShrink
    BY PurgeShrinks DEF Share!Publish
  <1>2. QED
    BY <1>1, ShrinkOK DEF Share!Publish, ShareInv, SharesEnd, Share!TypeOK, Share!Held, ItemsShrink

\* A share that is the same but for its lock.
LEMMA UnlockKeeps ==
  ASSUME ShareInv, NEW s \in Shares, Share!Lapse(s) \/ Share!Unlock(s)
  PROVE  ShareInv'
  <1> DEFINE over == [items[s] EXCEPT !.locked = "over"]
  <1>1. s \in Share!Held /\ items[s] \in Share!Item
    BY DEF Share!Lapse, Share!Unlock, ShareInv, Share!TypeOK
  <1>2. over \in Share!Item /\ over.downloads = items[s].downloads
        /\ over.failed = items[s].failed
    BY <1>1 DEF Share!Item
  <1>3. items' = items \/ items' = Share!With(items, s, over)
    BY DEF Share!Lapse, Share!Unlock
  <1> HIDE DEF over
  <1>4. DOMAIN items' = Share!Held
        /\ \A t \in Share!Held : items'[t] = items[t] \/ (t = s /\ items'[t] = over)
    BY <1>1, <1>3 DEF Share!With, Share!Held
  <1>5. UNCHANGED <<closed, made, published, step, delivered, wrong>>
        /\ overdue' \subseteq overdue \cup {s}
    BY DEF Share!Lapse, Share!Unlock
  <1>6. QED
    BY <1>1, <1>2, <1>4, <1>5 DEF ShareInv, SharesCount, SharesEnd, Share!TypeOK, Share!Held,
                             Share!DownloadsBounded

LEMMA PurgeThreadKeeps ==
  ASSUME ShareInv, Share!PurgeThread \/ Share!Close
  PROVE  ShareInv'
  <1>1. ItemsShrink
    BY DEF Share!PurgeThread, Share!Close, ItemsShrink, Share!Held
  <1>2. CASE Share!PurgeThread
    BY <1>1, <1>2, ShrinkOK DEF Share!PurgeThread, ShareInv, SharesEnd, Share!TypeOK,
                                Share!Held, ItemsShrink
  <1>3. CASE Share!Close
    <2>1. DOMAIN items' = {}
      BY <1>3 DEF Share!Close
    <2>2. QED
      BY <1>3, <2>1 DEF Share!Close, ShareInv, SharesCount, SharesEnd, Share!TypeOK, Share!Held,
                    Share!DownloadsBounded
  <1>4. QED
    BY <1>2, <1>3

LEMMA TakeKeeps ==
  ASSUME Share!ShareAssumption, ShareInv,
         NEW c \in Clients, NEW s \in made, NEW right \in BOOLEAN, Share!Take(c, s, right)
  PROVE  ShareInv'
  <1> DEFINE f == Share!Purged(s)
  <1>1. /\ DOMAIN f = Share!Held \ overdue /\ s \in Shares
        /\ \A t \in DOMAIN f : f[t] = items[t] /\ f[t] \in Share!Item
    BY DEF Share!Purged, ShareInv, Share!TypeOK
  <1>2. UNCHANGED <<overdue, closed, made, published>>
    BY DEF Share!Take
  <1> HIDE DEF f
  <1>3. CASE s \notin DOMAIN f
    <2>1. /\ items' = f /\ UNCHANGED <<delivered, wrong>>
          /\ step' = [step EXCEPT ![c] = [at |-> "refused", share |-> s, answer |-> "none"]]
      BY <1>3 DEF Share!Take, f
    <2>2. ItemsShrink
      BY <1>1, <2>1 DEF ItemsShrink
    <2>3. QED
      BY <1>1, <1>2, <2>1, <2>2, ShrinkOK DEF ShareInv, SharesEnd, Share!TypeOK, Share!Held,
                                 Share!Points, Share!Answers, ItemsShrink
  <1>4. CASE s \in DOMAIN f /\ ~right
    <2> DEFINE item == Share!AfterWrong(f[s])
    <2>1. /\ items' = Share!With(f, s, item) /\ UNCHANGED delivered
          /\ wrong' = [wrong EXCEPT ![s] = IF f[s].locked = "locked" THEN @
                                           ELSE IF item.locked = "locked" THEN 0
                                           ELSE IF f[s].locked = "over" THEN 1 ELSE @ + 1]
          /\ step' = [step EXCEPT ![c] = [at |-> "refused", share |-> s, answer |-> "none"]]
      BY <1>4 DEF Share!Take, f
    <2>2. /\ item \in Share!Item /\ item.downloads = f[s].downloads
          /\ item.failed = IF f[s].locked = "locked" THEN f[s].failed
                           ELSE IF item.locked = "locked" THEN 0
                           ELSE IF f[s].locked = "over" THEN 1 ELSE f[s].failed + 1
      BY <1>1, <1>4, AfterWrongOK
    <2> HIDE DEF item
    <2>3. /\ DOMAIN items' = DOMAIN f /\ items'[s] = item
          /\ \A t \in DOMAIN f \ {s} : items'[t] = items[t]
      BY <1>1, <1>4, <2>1 DEF Share!With
    <2>4. /\ wrong' \in [Shares -> Nat] /\ wrong'[s] = item.failed
          /\ \A t \in Shares \ {s} : wrong'[t] = wrong[t]
      BY <1>1, <1>4, <2>1, <2>2 DEF ShareInv, SharesCount, Share!TypeOK, Share!Held
    <2>5. Share!TypeOK'
      BY <1>1, <1>2, <2>1, <2>2, <2>3, <2>4 DEF ShareInv, Share!TypeOK, Share!Held,
                                              Share!Points, Share!Answers
    <2>6. SharesCount'
      BY <1>1, <1>2, <1>4, <2>1, <2>2, <2>3, <2>4
         DEF ShareInv, SharesCount, Share!TypeOK, Share!Held, Share!DownloadsBounded
    <2>7. SharesEnd'
      BY <1>1, <1>2, <2>1, <2>3 DEF ShareInv, SharesEnd, Share!TypeOK, Share!Held
    <2>8. QED
      BY <2>5, <2>6, <2>7 DEF ShareInv
  <1>5. CASE s \in DOMAIN f /\ right
    <2>1. /\ items' = Share!AfterRight(f, s)
          /\ delivered' = [delivered EXCEPT ![s] = @ + 1]
          /\ wrong' = [wrong EXCEPT ![s] = 0]
          /\ step' = [step EXCEPT ![c] = [at |-> "idle", share |-> s, answer |-> "archive"]]
      BY <1>5 DEF Share!Take, f
    <2>2. /\ \A t \in DOMAIN f \ {s} : t \in DOMAIN items' /\ items'[t] = f[t]
          /\ DOMAIN items' \subseteq DOMAIN f
          /\ f[s].downloads + 1 =< MaxDownloads
          /\ s \in DOMAIN items' => /\ items'[s] \in Share!Item /\ items'[s].failed = 0
                                    /\ items'[s].downloads = f[s].downloads + 1
      BY <1>1, <1>5, <2>1, AfterRightOK
    <2>3. delivered[s] = f[s].downloads /\ f[s].downloads \in Nat
      BY <1>1, <1>5 DEF ShareInv, SharesCount, Share!Item
    <2>4. /\ delivered' \in [Shares -> Nat] /\ delivered'[s] = f[s].downloads + 1
          /\ wrong' \in [Shares -> Nat] /\ wrong'[s] = 0
          /\ \A t \in Shares \ {s} : delivered'[t] = delivered[t] /\ wrong'[t] = wrong[t]
      BY <1>1, <2>1, <2>3 DEF ShareInv, Share!TypeOK
    <2>5. Share!TypeOK'
      BY <1>1, <1>2, <2>1, <2>2, <2>4 DEF ShareInv, Share!TypeOK, Share!Held,
                                         Share!Points, Share!Answers
    <2>6. SharesCount'
      BY <1>1, <1>2, <1>5, <2>2, <2>3, <2>4
         DEF ShareInv, SharesCount, Share!TypeOK, Share!Held, Share!DownloadsBounded
    <2>7. SharesEnd'
      BY <1>1, <1>2, <2>1, <2>2 DEF ShareInv, SharesEnd, Share!TypeOK, Share!Held
    <2>8. QED
      BY <2>5, <2>6, <2>7 DEF ShareInv
  <1>6. QED
    BY <1>3, <1>4, <1>5

LEMMA AnswerKeeps ==
  ASSUME ShareInv, NEW c \in Clients, Share!Available(c) \/ Share!Landing(c)
  PROVE  ShareInv'
  <1> DEFINE s == step[c].share
             f == Share!Purged(s)
  <1>1. items' = f /\ UNCHANGED <<overdue, closed, made, published, delivered, wrong>>
    BY DEF Share!Available, Share!Landing
  <1>2. step[c].at # "idle" /\ s \in made
    BY DEF Share!Available, Share!Landing, ShareInv, SharesEnd
  <1>3. PICK new \in [at : Share!Points, share : Shares, answer : Share!Answers] :
          /\ step' = [step EXCEPT ![c] = new] /\ new.share = s
          /\ new.answer = "gone" => s \notin DOMAIN f \/ step[c].answer = "gone"
    <2>1. step[c] \in [at : Share!Points, share : Shares, answer : Share!Answers]
      BY DEF ShareInv, Share!TypeOK
    <2>2. CASE Share!Available(c) /\ s \in DOMAIN f
      <3>1. step' = [step EXCEPT ![c] = [step[c] EXCEPT !.at = "wrongCode"]]
        BY <2>2 DEF Share!Available
      <3>2. [step[c] EXCEPT !.at = "wrongCode"]
              \in [at : Share!Points, share : Shares, answer : Share!Answers]
        BY <2>1 DEF Share!Points
      <3>3. [step[c] EXCEPT !.at = "wrongCode"].share = s
            /\ [step[c] EXCEPT !.at = "wrongCode"].answer = step[c].answer
        BY <2>1
      <3>4. QED
        BY <3>1, <3>2, <3>3
    <2>3. CASE Share!Available(c) /\ s \notin DOMAIN f
      BY <2>1, <2>3 DEF Share!Available, Share!Points, Share!Answers
    <2>4. CASE Share!Landing(c)
      <3>1. PICK answer \in Share!Answers :
              /\ step' = [step EXCEPT ![c] = [step[c] EXCEPT !.at = "idle", !.answer = answer]]
              /\ answer = "gone" => s \notin DOMAIN f
        BY <2>4 DEF Share!Landing, Share!Answers
      <3>2. QED
        BY <2>1, <3>1 DEF Share!Points
    <2>5. QED
      BY <2>2, <2>3, <2>4
  <1>4. ItemsShrink
    BY <1>1, PurgeShrinks
  <1>5. Share!TypeOK'
    BY <1>1, <1>3, <1>4, ShrinkOK DEF ShareInv, Share!TypeOK, Share!Held
  <1>6. SharesEnd'
    BY <1>1, <1>2, <1>3, <1>4, ShrinkOK DEF ShareInv, SharesEnd, Share!TypeOK, Share!Held,
                                         ItemsShrink
  <1>7. QED
    BY <1>1, <1>4, <1>5, <1>6, ShrinkOK DEF ShareInv

LEMMA SharesInitially == ASSUME Share!ShareAssumption, Share!Init, Shares # {} PROVE ShareInv
  <1>1. DOMAIN items = {} /\ made = {} /\ overdue = {} /\ published = {} /\ closed = FALSE
        /\ delivered = [s \in Shares |-> 0] /\ wrong = [s \in Shares |-> 0]
    BY DEF Share!Init
  <1>2. PICK s \in Shares : step = [c \in Clients |-> [at |-> "idle", share |-> s, answer |-> "none"]]
    <2>1. (CHOOSE s \in Shares : TRUE) \in Shares
      OBVIOUS
    <2>2. QED
      BY <2>1 DEF Share!Init, Share!Resting
  <1>3. Share!TypeOK
    BY <1>1, <1>2 DEF Share!TypeOK, Share!Held, Share!Points, Share!Answers
  <1>4. SharesCount /\ SharesEnd
    BY <1>1, <1>2 DEF SharesCount, SharesEnd, Share!Held, Share!DownloadsBounded,
                      Share!ShareAssumption
  <1>5. QED
    BY <1>3, <1>4 DEF ShareInv

LEMMA SharesStep == ASSUME Share!ShareAssumption, ShareInv, [Share!Next]_Share!vars PROVE ShareInv'
  <1>1. CASE UNCHANGED Share!vars
    BY <1>1 DEF Share!vars, ShareInv, SharesCount, SharesEnd, Share!TypeOK, Share!Held,
                Share!DownloadsBounded
  <1>2. CASE \E s \in Shares :
               Share!Put(s) \/ Share!Publish(s) \/ Share!Lapse(s) \/ Share!Unlock(s)
    BY <1>2, PutKeeps, PublishKeeps, UnlockKeeps
  <1>3. CASE \E c \in Clients, s \in made, right \in BOOLEAN : Share!Take(c, s, right)
    BY <1>3, TakeKeeps
  <1>4. CASE \E c \in Clients : Share!Available(c) \/ Share!Landing(c)
    BY <1>4, AnswerKeeps
  <1>5. CASE Share!PurgeThread \/ Share!Close
    BY <1>5, PurgeThreadKeeps
  <1>6. QED
    BY <1>1, <1>2, <1>3, <1>4, <1>5 DEF Share!Next

LEMMA SharesInvariant ==
  ASSUME Share!ShareAssumption, Shares # {} PROVE Share!Spec => []ShareInv
  <1>1. Share!Init => ShareInv
    BY SharesInitially
  <1>2. ShareInv /\ [Share!Next]_Share!vars => ShareInv'
    BY SharesStep
  <1>3. QED
    BY <1>1, <1>2, PTL DEF Share!Spec

\* The items of shares and the handlers of downloads keep their types.
THEOREM SharesHaveTypes ==
  ASSUME Share!ShareAssumption, Shares # {} PROVE Share!Spec => []Share!TypeOK
  <1>1. ShareInv => Share!TypeOK
    BY DEF ShareInv
  <1>2. QED
    BY <1>1, SharesInvariant, PTL

\* A share is downloaded at most MaxDownloads times, whatever its clients do at once
\* (ProfileShareStore.take, app.py:856-890).
THEOREM DownloadsAreBounded ==
  ASSUME Share!ShareAssumption, Shares # {} PROVE Share!Spec => []Share!DownloadsBounded
  <1>1. ShareInv => Share!DownloadsBounded
    BY DEF ShareInv, SharesCount
  <1>2. QED
    BY <1>1, SharesInvariant, PTL

\* Between two locks or downloads fewer than MaxFailures wrong codes are tried
\* (ProfileShareStore.take).
THEOREM WrongCodesAreLocked ==
  ASSUME Share!ShareAssumption, Shares # {} PROVE Share!Spec => []Share!WrongCodesLock
  <1>1. ShareInv => Share!WrongCodesLock
    BY DEF ShareInv, SharesCount, Share!TypeOK, Share!WrongCodesLock, Share!Held, Share!Item,
           Share!ShareAssumption
  <1>2. QED
    BY <1>1, SharesInvariant, PTL

\* No archive is sent past a share's ten minutes or the shutdown, purge thread or not
\* (ProfileShareStore._purge, close).
THEOREM NothingIsLate ==
  ASSUME Share!ShareAssumption, Shares # {} PROVE Share!Spec => Share!NothingLate
  <1>1. ShareInv /\ [Share!Next]_Share!vars => [Share!NothingLateStep]_Share!vars
    <2> SUFFICES ASSUME ShareInv, Share!Next, NEW t \in Shares, delivered'[t] # delivered[t]
                 PROVE  t \notin overdue /\ ~closed
      BY DEF Share!NothingLateStep
    <2>1. PICK c \in Clients, s \in made, right \in BOOLEAN : Share!Take(c, s, right)
      BY DEF Share!Next, Share!Put, Share!Publish, Share!Lapse, Share!Unlock,
             Share!Available, Share!Landing, Share!PurgeThread, Share!Close
    <2>2. s \in Share!Held \ overdue /\ delivered' = [delivered EXCEPT ![s] = @ + 1]
      BY <2>1 DEF Share!Take, Share!Purged
    <2>3. QED
      BY <2>2 DEF ShareInv, SharesEnd, Share!TypeOK
  <1>2. QED
    BY <1>1, SharesInvariant, PTL DEF Share!Spec, Share!NothingLate

\* A link is published only while it can be used, and a client is told that a share
\* is gone only of one that never comes back (publish_if_open, is_available).
THEOREM LinksTellTheTruth ==
  ASSUME Share!ShareAssumption, Shares # {} PROVE Share!Spec => Share!LinksAreHonest
  <1>1. ShareInv /\ ShareInv' /\ [Share!Next]_Share!vars => [Share!LinksAreHonestStep]_Share!vars
    <2> SUFFICES ASSUME ShareInv, ShareInv', Share!Next
                 PROVE  Share!LinksAreHonestStep
      OBVIOUS
    <2>1. \A s \in published' \ published : s \in Share!Held /\ s \notin overdue /\ ~closed
      BY DEF Share!Next, Share!Put, Share!Publish, Share!Lapse, Share!Unlock, Share!Take,
             Share!Available, Share!Landing, Share!PurgeThread, Share!Close,
             Share!Open, Share!Purged
    <2>2. \A c \in Clients : step[c].answer = "gone" /\ step'[c] = step[c]
            => step[c].share \notin DOMAIN items'
      BY DEF ShareInv, SharesEnd, Share!Held
    <2>3. QED
      BY <2>1, <2>2 DEF Share!LinksAreHonestStep
  <1>2. QED
    BY <1>1, SharesInvariant, PTL DEF Share!Spec, Share!LinksAreHonest

-----------------------------------------------------------------------------
(* Profile migration *)

BoundsAreNumbers == MaxRequests \in Nat /\ MaxMishaps \in Nat

\* Who is about to store a retirement has seen the old certificate revoked, and if
\* it calls it verified, the replacement active at that time.
RetirementsSeen ==
  /\ \A r \in Replacements : old = "revoked" /\ cert[r] = "active" => r \in bridged
  /\ \A w \in Workers : req[w].at = "store" =>
       /\ old = "revoked"
       /\ req[w].state = "verified" /\ req[w].to # Retire!None => req[w].to \in bridged

\* A recorded test stands on a recorded import and on a session of its own.
TestsStand == row.tested => row.imported /\ row.testedOn \ row.seen # {}

MigrationInv ==
  /\ Retire!TypeOK /\ RetirementsSeen
  /\ TestsStand /\ Retire!RetiredIsRevoked /\ Retire!RetirementLeavesAWay

Steps == [kind : Kinds \cup {"none"}, at : Retire!Points, to : Retire!Sides,
          found : SUBSET Rows, state : {"", "verified", "partial"}, after : BOOLEAN]

\* A request goes from one point to another, which is not the storing one.
LEMMA IdleOK == Retire!Idle \in Steps /\ Retire!Idle.at # "store"
  BY DEF Retire!Idle, Steps, Retire!Points, Retire!Sides

LEMMA StepsKeep ==
  ASSUME MigrationInv, NEW w \in Workers, NEW r \in Steps, Retire!Goes(w, r),
         r.at # "store", UNCHANGED <<old, cert, bridged>>
  PROVE  /\ req' \in [Workers -> Steps]
         /\ RetirementsSeen'
  BY DEF MigrationInv, Retire!TypeOK, Steps, RetirementsSeen, Retire!Goes

\* Steps that change what requests and reviews say, no certificate and no row.
LEMMA QuietKeeps ==
  ASSUME BoundsAreNumbers, MigrationInv, NEW w \in Workers, NEW r \in Steps,
         Retire!Goes(w, r), r.at # "store",
         UNCHANGED <<managed, old, cert, bridged, row, local>>, sessions' \subseteq Rows,
         reviews' \subseteq Retire!Sides, issuing' \in Workers \cup {Nobody},
         begun' \in 0..MaxRequests, mishaps' \in 0..MaxMishaps
  PROVE  MigrationInv'
  <1>1. req' \in [Workers -> Steps] /\ RetirementsSeen'
    BY StepsKeep
  <1>2. Retire!TypeOK'
    BY <1>1 DEF MigrationInv, Retire!TypeOK, Steps
  <1>3. QED
    BY <1>1, <1>2 DEF MigrationInv, TestsStand, Retire!RetiredIsRevoked,
                  Retire!RetirementLeavesAWay

\* Every mishap and every request is counted.
LEMMA CountsOK ==
  ASSUME BoundsAreNumbers, Retire!TypeOK
  PROVE  /\ Retire!Smooth \/ Retire!Mishap => mishaps' \in 0..MaxMishaps
         /\ begun < MaxRequests /\ begun' = begun + 1 => begun' \in 0..MaxRequests
  <1>1. /\ MaxRequests \in Nat /\ MaxMishaps \in Nat
        /\ begun \in 0..MaxRequests /\ mishaps \in 0..MaxMishaps
    BY DEF BoundsAreNumbers, Retire!TypeOK
  <1>2. Retire!Smooth \/ Retire!Mishap => mishaps' \in 0..MaxMishaps
    BY <1>1 DEF Retire!Smooth, Retire!Mishap
  <1>3. begun < MaxRequests /\ begun' = begun + 1 => begun' \in 0..MaxRequests
    BY <1>1
  <1>4. QED
    BY <1>2, <1>3

LEMMA ReqOK == ASSUME MigrationInv, NEW w \in Workers PROVE req[w] \in Steps
  BY DEF MigrationInv, Retire!TypeOK, Steps

LEMMA BeginsKeep ==
  ASSUME BoundsAreNumbers, MigrationInv, NEW w \in Workers,
         \/ Retire!BeginIssue(w)
         \/ \E s \in {"imported", "tested"} : Retire!BeginStep(w, s)
         \/ \E kind \in {"preview", "retire"} : Retire!BeginRetire(w, kind)
  PROVE  MigrationInv'
  <1>1. Retire!TypeOK /\ row.to \in Retire!Sides
    BY DEF MigrationInv, Retire!TypeOK
  <1>2. PICK r \in Steps : Retire!Goes(w, r) /\ r.at # "store"
    <2>1. CASE Retire!BeginIssue(w)
      <3>1. [Retire!Idle EXCEPT !.kind = "replace", !.at = "issue"] \in Steps
        BY <2>1, IdleOK DEF Retire!BeginIssue, Steps, Retire!Points
      <3>2. [Retire!Idle EXCEPT !.kind = "replace", !.at = "issue"].at = "issue"
        BY DEF Retire!Idle
      <3>3. QED
        BY <2>1, <3>1, <3>2 DEF Retire!BeginIssue
    <2>2. CASE \E s \in {"imported", "tested"} : Retire!BeginStep(w, s)
      <3>1. PICK s \in {"imported", "tested"} : Retire!BeginStep(w, s)
        BY <2>2
      <3> DEFINE new == [Retire!Idle EXCEPT !.kind = s, !.at = "certificates", !.to = row.to]
      <3>2. new \in Steps /\ new.at = "certificates"
        BY <1>1, <3>1, IdleOK DEF Retire!BeginStep, Steps, Retire!Points
      <3>3. QED
        BY <3>1, <3>2 DEF Retire!BeginStep
    <2>3. CASE \E kind \in {"preview", "retire"} : Retire!BeginRetire(w, kind)
      <3>1. PICK kind \in {"preview", "retire"} : Retire!BeginRetire(w, kind)
        BY <2>3
      <3> DEFINE new == [Retire!Idle EXCEPT !.kind = kind, !.at = "check", !.to = row.to]
      <3>2. new \in Steps /\ new.at = "check"
        BY <1>1, <3>1, IdleOK DEF Retire!BeginRetire, Steps, Retire!Points
      <3>3. QED
        BY <3>1, <3>2 DEF Retire!BeginRetire
    <2>4. QED
      BY <2>1, <2>2, <2>3
  <1>3. /\ UNCHANGED <<managed, old, cert, sessions, bridged, row, local, reviews>>
        /\ issuing' \in {w, issuing} /\ Retire!Smooth
        /\ begun < MaxRequests /\ begun' = begun + 1
    BY DEF Retire!BeginIssue, Retire!BeginStep, Retire!BeginRetire, Retire!router
  <1>4. sessions' \subseteq Rows /\ reviews' \subseteq Retire!Sides /\ issuing' \in Workers \cup {Nobody}
        /\ begun' \in 0..MaxRequests /\ mishaps' \in 0..MaxMishaps
    BY <1>1, <1>3, CountsOK DEF Retire!TypeOK
  <1>5. QED
    BY <1>2, <1>3, <1>4, QuietKeeps

\* Reads of RouterOS, and of what was reviewed.
LEMMA ReadsKeep ==
  ASSUME BoundsAreNumbers, MigrationInv, NEW w \in Workers,
         Retire!CheckCertificates(w) \/ Retire!ListSessions(w) \/ Retire!Review(w)
  PROVE  MigrationInv'
  <1>1. Retire!TypeOK /\ req[w] \in Steps
    BY ReqOK DEF MigrationInv
  <1>2. PICK r \in Steps : Retire!Goes(w, r) /\ r.at # "store"
    <2>1. CASE Retire!Ends(w)
      BY <2>1, IdleOK DEF Retire!Ends
    <2>2. CASE Retire!Goes(w, [req[w] EXCEPT !.at = "list"])
      <3>1. [req[w] EXCEPT !.at = "list"] \in Steps /\ [req[w] EXCEPT !.at = "list"].at = "list"
        BY <1>1 DEF Steps, Retire!Points
      <3>2. QED
        BY <2>2, <3>1
    <2>3. CASE Retire!Goes(w, [req[w] EXCEPT !.at = "write", !.found = sessions,
                                 !.after = row.to = req[w].to /\ row.imported])
      <3> DEFINE new == [req[w] EXCEPT !.at = "write", !.found = sessions,
                           !.after = row.to = req[w].to /\ row.imported]
      <3>1. new \in Steps /\ new.at = "write"
        BY <1>1 DEF Steps, Retire!Points, Retire!TypeOK
      <3>2. QED
        BY <2>3, <3>1
    <2>4. CASE Retire!Goes(w, [req[w] EXCEPT !.at = "send"])
      <3>1. [req[w] EXCEPT !.at = "send"] \in Steps /\ [req[w] EXCEPT !.at = "send"].at = "send"
        BY <1>1 DEF Steps, Retire!Points
      <3>2. QED
        BY <2>4, <3>1
    <2>5. QED
      BY <2>1, <2>2, <2>3, <2>4
         DEF Retire!CheckCertificates, Retire!ListSessions, Retire!Review
  <1>3. /\ UNCHANGED <<managed, old, cert, sessions, bridged, row, local, issuing, begun>>
        /\ Retire!Smooth \/ Retire!Mishap
        /\ reviews' \subseteq reviews \cup {req[w].to}
    BY DEF Retire!CheckCertificates, Retire!ListSessions, Retire!Review, Retire!router
  <1>4. sessions' \subseteq Rows /\ reviews' \subseteq Retire!Sides
        /\ issuing' \in Workers \cup {Nobody}
        /\ begun' \in 0..MaxRequests /\ mishaps' \in 0..MaxMishaps
    BY <1>1, <1>3, CountsOK DEF Retire!TypeOK, Steps
  <1>5. QED
    BY <1>2, <1>3, <1>4, QuietKeeps

\* Certificates change, the old one only to be revoked; rows and reviews stay.
LEMMA CertificatesKeep ==
  ASSUME BoundsAreNumbers, MigrationInv,
         NEW o \in {old, "revoked"}, NEW c \in [Replacements -> {"absent", "active", "revoked"}],
         Retire!Certificates(o, c),
         req' = req \/ \E w \in Workers, r \in Steps : Retire!Goes(w, r) /\ r.at # "store",
         UNCHANGED <<managed, row, local, reviews, begun>>,
         issuing' \in Workers \cup {Nobody}, mishaps' \in 0..MaxMishaps
  PROVE  MigrationInv'
  <1>1. /\ old' = o /\ cert' = c /\ sessions' = sessions
        /\ bridged' = bridged \cup {r \in Replacements : o = "revoked" /\ c[r] = "active"}
    BY DEF Retire!Certificates
  <1>2. req' \in [Workers -> Steps]
        /\ \A w \in Workers : req'[w].at = "store" => req'[w] = req[w]
    <2>1. req \in [Workers -> Steps]
      BY DEF MigrationInv, Retire!TypeOK, Steps
    <2>2. CASE req' = req
      BY <2>1, <2>2
    <2>3. CASE \E w \in Workers, r \in Steps : Retire!Goes(w, r) /\ r.at # "store"
      <3>1. PICK w \in Workers, r \in Steps : req' = [req EXCEPT ![w] = r] /\ r.at # "store"
        BY <2>3 DEF Retire!Goes
      <3>2. QED
        BY <2>1, <3>1
    <2>4. QED
      BY <2>2, <2>3
  <1>3. Retire!TypeOK'
    BY <1>1, <1>2 DEF MigrationInv, Retire!TypeOK, Steps
  <1>4. RetirementsSeen'
    BY <1>1, <1>2 DEF MigrationInv, RetirementsSeen
  <1>5. QED
    BY <1>1, <1>3, <1>4 DEF MigrationInv, TestsStand, Retire!RetiredIsRevoked,
                            Retire!RetirementLeavesAWay

LEMMA RouterKeeps ==
  ASSUME BoundsAreNumbers, MigrationInv, NEW w \in Workers,
         \/ \E r \in Replacements : Retire!Issue(w, r)
         \/ Retire!Undo(w) \/ Retire!SendRevoke(w)
  PROVE  MigrationInv'
  <1>1. Retire!TypeOK /\ req[w] \in Steps
    BY ReqOK DEF MigrationInv
  <1>2. mishaps' \in 0..MaxMishaps /\ issuing' \in Workers \cup {Nobody}
        /\ UNCHANGED <<managed, row, local, reviews, begun>>
    BY <1>1, CountsOK DEF Retire!Issue, Retire!Undo, Retire!SendRevoke, Retire!TypeOK
  <1>3. \E r \in Steps : Retire!Goes(w, r) /\ r.at # "store"
    <2>1. CASE \E r \in Replacements : Retire!Issue(w, r)
      <3>1. PICK r \in Replacements : Retire!Issue(w, r)
        BY <2>1
      <3> DEFINE new == [req[w] EXCEPT !.at = "record", !.to = r]
      <3>2. new \in Steps /\ new.at = "record"
        BY <1>1 DEF Steps, Retire!Points, Retire!Sides
      <3>3. QED
        BY <3>1, <3>2 DEF Retire!Issue
    <2>2. CASE Retire!Undo(w)
      BY <2>2, IdleOK DEF Retire!Undo, Retire!Ends
    <2>3. CASE Retire!SendRevoke(w)
      <3>1. [req[w] EXCEPT !.at = "readBack"] \in Steps
            /\ [req[w] EXCEPT !.at = "readBack"].at = "readBack"
        BY <1>1 DEF Steps, Retire!Points
      <3>2. QED
        BY <2>3, <3>1 DEF Retire!SendRevoke
    <2>4. QED
      BY <2>1, <2>2, <2>3
  <1>4. CASE \E o \in {old, "revoked"}, c \in [Replacements -> {"absent", "active", "revoked"}] :
               Retire!Certificates(o, c)
    BY <1>2, <1>3, <1>4, CertificatesKeep
  <1>5. CASE UNCHANGED Retire!router
    <2>1. UNCHANGED <<old, cert, sessions, bridged>>
      BY <1>5 DEF Retire!router
    <2>2. sessions' \subseteq Rows /\ reviews' \subseteq Retire!Sides /\ begun' \in 0..MaxRequests
      BY <1>1, <1>2, <2>1 DEF Retire!TypeOK
    <2>3. QED
      BY <1>2, <1>3, <2>1, <2>2, QuietKeeps
  <1>6. (\E o \in {old, "revoked"}, c \in [Replacements -> {"absent", "active", "revoked"}] :
           Retire!Certificates(o, c)) \/ UNCHANGED Retire!router
    <2>1. CASE \E r \in Replacements : Retire!Issue(w, r)
      <3>1. PICK r \in Replacements : Retire!Issue(w, r)
        BY <2>1
      <3>2. [cert EXCEPT ![r] = "active"] \in [Replacements -> {"absent", "active", "revoked"}]
        BY <1>1 DEF Retire!TypeOK
      <3>3. QED
        BY <3>1, <3>2 DEF Retire!Issue
    <2>2. CASE Retire!Undo(w)
      <3>1. [cert EXCEPT ![req[w].to] = "revoked"]
              \in [Replacements -> {"absent", "active", "revoked"}]
        BY <1>1 DEF Retire!TypeOK
      <3>2. QED
        BY <2>2, <3>1 DEF Retire!Undo
    <2>3. CASE Retire!SendRevoke(w)
      <3>1. cert \in [Replacements -> {"absent", "active", "revoked"}]
        BY <1>1 DEF Retire!TypeOK
      <3>2. QED
        BY <2>3, <3>1 DEF Retire!SendRevoke
    <2>4. QED
      BY <2>1, <2>2, <2>3
  <1>7. QED
    BY <1>4, <1>5, <1>6

LEMMA WorldKeeps ==
  ASSUME BoundsAreNumbers, MigrationInv,
         \/ \E s \in Rows : Retire!Connect(s) \/ Retire!Disconnect(s)
         \/ \E r \in Replacements : Retire!RevokeReplacement(r)
  PROVE  MigrationInv'
  <1>1. Retire!TypeOK
    BY DEF MigrationInv
  <1>2. CASE \E s \in Rows : Retire!Connect(s) \/ Retire!Disconnect(s)
    <2>1. /\ UNCHANGED <<managed, old, cert, bridged, row, local, reviews, issuing, req, begun,
                         mishaps>>
          /\ sessions' \subseteq Rows
      BY <1>1, <1>2 DEF Retire!Connect, Retire!Disconnect, Retire!TypeOK
    <2>2. Retire!TypeOK' /\ RetirementsSeen'
      BY <1>1, <2>1 DEF MigrationInv, Retire!TypeOK, RetirementsSeen
    <2>3. QED
      BY <2>1, <2>2 DEF MigrationInv, TestsStand, Retire!RetiredIsRevoked,
                        Retire!RetirementLeavesAWay
  <1>3. CASE \E r \in Replacements : Retire!RevokeReplacement(r)
    <2>1. PICK r \in Replacements : Retire!RevokeReplacement(r)
      BY <1>3
    <2>2. [cert EXCEPT ![r] = "revoked"] \in [Replacements -> {"absent", "active", "revoked"}]
      BY <1>1 DEF Retire!TypeOK
    <2>3. mishaps' \in 0..MaxMishaps /\ issuing' \in Workers \cup {Nobody} /\ req' = req
          /\ UNCHANGED <<managed, row, local, reviews, begun>>
      BY <1>1, <2>1, CountsOK DEF Retire!RevokeReplacement, Retire!TypeOK
    <2>4. Retire!Certificates(old, [cert EXCEPT ![r] = "revoked"])
      BY <2>1 DEF Retire!RevokeReplacement
    <2>5. QED
      BY <2>2, <2>3, <2>4, CertificatesKeep
  <1>4. QED
    BY <1>2, <1>3

RowsOfMigration ==
  [to : Retire!Sides, imported : BOOLEAN, tested : BOOLEAN, seen : SUBSET Rows,
   state : {"", "verified", "partial"}, retiredFor : Retire!Sides, testedOn : SUBSET Rows,
   testedFor : Retire!Sides, testedAfter : BOOLEAN]

LEMMA NoRowOK ==
  ASSUME NEW r \in Retire!Sides
  PROVE  /\ Retire!Replaced(r) \in RowsOfMigration
         /\ Retire!Replaced(r).tested = FALSE /\ Retire!Replaced(r).state = ""
  BY DEF Retire!Replaced, Retire!NoRow, RowsOfMigration, Retire!Sides, Retire!None

LEMMA RecordKeeps ==
  ASSUME BoundsAreNumbers, MigrationInv, NEW w \in Workers, Retire!Record(w)
  PROVE  MigrationInv'
  <1>1. Retire!TypeOK /\ req[w] \in Steps
    BY ReqOK DEF MigrationInv
  <1>2. /\ UNCHANGED <<managed, old, cert, sessions, bridged, local, reviews, begun>>
        /\ mishaps' \in 0..MaxMishaps /\ issuing' \in Workers \cup {Nobody}
    BY <1>1, CountsOK DEF Retire!Record, Retire!router, Retire!TypeOK
  <1>3. PICK r \in Steps : Retire!Goes(w, r) /\ r.at # "store"
    <2>1. [req[w] EXCEPT !.at = "undo"] \in Steps /\ [req[w] EXCEPT !.at = "undo"].at = "undo"
      BY <1>1 DEF Steps, Retire!Points
    <2>2. QED
      BY <2>1, IdleOK DEF Retire!Record, Retire!Ends
  <1>4. CASE row' = row
    <2>1. sessions' \subseteq Rows /\ reviews' \subseteq Retire!Sides /\ begun' \in 0..MaxRequests
      BY <1>1, <1>2 DEF Retire!TypeOK
    <2>2. QED
      BY <1>2, <1>3, <1>4, <2>1, QuietKeeps
  <1>5. CASE row' = Retire!Replaced(req[w].to)
    <2>1. row' \in RowsOfMigration /\ row'.tested = FALSE /\ row'.state = ""
      BY <1>1, <1>5, NoRowOK DEF Steps
    <2>2. req' \in [Workers -> Steps] /\ RetirementsSeen'
      BY <1>2, <1>3, StepsKeep
    <2>3. Retire!TypeOK'
      BY <1>2, <2>1, <2>2 DEF MigrationInv, Retire!TypeOK, Steps, RowsOfMigration
    <2>4. QED
      BY <1>2, <2>1, <2>2, <2>3 DEF MigrationInv, TestsStand,
                                   Retire!RetiredIsRevoked, Retire!RetirementLeavesAWay
  <1>6. QED
    BY <1>4, <1>5 DEF Retire!Record

\* A confirmation: an import is recorded once, a test only when it counts.
LEMMA ConfirmationKeeps ==
  ASSUME BoundsAreNumbers, MigrationInv, NEW w \in Workers, Retire!RecordStep(w)
  PROVE  MigrationInv'
  <1>1. Retire!TypeOK /\ req[w] \in Steps /\ row \in RowsOfMigration
    BY ReqOK DEF MigrationInv, Retire!TypeOK, RowsOfMigration
  <1>2. /\ UNCHANGED <<managed, old, cert, sessions, bridged, local, reviews, issuing, begun>>
        /\ mishaps' \in 0..MaxMishaps /\ Retire!Goes(w, Retire!Idle)
    BY <1>1, CountsOK DEF Retire!RecordStep, Retire!router, Retire!Ends
  <1>3. req' \in [Workers -> Steps] /\ RetirementsSeen'
    BY <1>2, IdleOK, StepsKeep
  <1>4. /\ row' \in RowsOfMigration /\ row'.state = row.state /\ row'.retiredFor = row.retiredFor
        /\ row'.tested => row'.imported /\ row'.testedOn \ row'.seen # {}
    <2>1. row.tested => row.imported /\ row.testedOn \ row.seen # {}
      BY DEF MigrationInv, TestsStand
    <2>2. CASE row' = row
      BY <1>1, <2>1, <2>2
    <2>3. CASE ~row.imported /\ row' = [row EXCEPT !.imported = TRUE, !.seen = req[w].found]
      BY <1>1, <2>1, <2>3 DEF RowsOfMigration, Steps
    <2>4. CASE row.imported /\ req[w].found \ row.seen # {}
               /\ row' = [row EXCEPT !.tested = TRUE, !.testedOn = req[w].found,
                                     !.testedFor = req[w].to, !.testedAfter = req[w].after]
      BY <1>1, <2>4 DEF RowsOfMigration, Steps
    <2>5. QED
      BY <2>2, <2>3, <2>4 DEF Retire!RecordStep, Retire!Imported, Retire!TestCounts
  <1>5. Retire!TypeOK'
    BY <1>2, <1>3, <1>4 DEF MigrationInv, Retire!TypeOK, Steps, RowsOfMigration
  <1>6. QED
    BY <1>2, <1>3, <1>4, <1>5 DEF MigrationInv, TestsStand,
                                 Retire!RetiredIsRevoked, Retire!RetirementLeavesAWay

\* The readback that calls a retirement verified sees both certificates at once.
LEMMA ReadBackKeeps ==
  ASSUME BoundsAreNumbers, MigrationInv, NEW w \in Workers, Retire!ReadBack(w)
  PROVE  MigrationInv'
  <1>1. Retire!TypeOK /\ req[w] \in Steps
    BY ReqOK DEF MigrationInv
  <1>2. /\ UNCHANGED <<managed, old, cert, sessions, bridged, row, local, reviews, issuing, begun>>
        /\ mishaps' \in 0..MaxMishaps
    BY <1>1, CountsOK DEF Retire!ReadBack, Retire!router
  <1>3. CASE Retire!Ends(w)
    <2>1. Retire!Goes(w, Retire!Idle) /\ sessions' \subseteq Rows /\ reviews' \subseteq Retire!Sides
          /\ issuing' \in Workers \cup {Nobody} /\ begun' \in 0..MaxRequests
      BY <1>1, <1>2, <1>3 DEF Retire!Ends, Retire!TypeOK
    <2>2. QED
      BY <1>2, <2>1, IdleOK, QuietKeeps
  <1>4. CASE old = "revoked"
             /\ Retire!Goes(w, [req[w] EXCEPT !.at = "store", !.state = Retire!Outcome(req[w].to)])
    <2> DEFINE new == [req[w] EXCEPT !.at = "store", !.state = Retire!Outcome(req[w].to)]
    <2>1. Retire!Outcome(req[w].to) \in {"", "verified", "partial"}
      BY DEF Retire!Outcome
    <2>2. new \in Steps /\ new.to = req[w].to /\ new.state = Retire!Outcome(req[w].to)
      BY <1>1, <2>1 DEF Steps, Retire!Points
    <2>3. new.state = "verified" /\ new.to # Retire!None => new.to \in bridged
      BY <1>1, <1>4, <2>2 DEF Retire!Outcome, Retire!Active, MigrationInv, RetirementsSeen,
                              Steps, Retire!Sides
    <2>4. req' = [req EXCEPT ![w] = new]
      BY <1>4 DEF Retire!Goes
    <2> HIDE DEF new
    <2>5. req' \in [Workers -> Steps]
      BY <1>1, <2>2, <2>4 DEF Retire!TypeOK, Steps
    <2>6. RetirementsSeen'
      BY <1>1, <1>2, <1>4, <2>3, <2>4 DEF MigrationInv, RetirementsSeen, Retire!TypeOK
    <2>7. Retire!TypeOK'
      BY <1>2, <2>5 DEF MigrationInv, Retire!TypeOK, Steps
    <2>8. QED
      BY <1>2, <2>6, <2>7 DEF MigrationInv, TestsStand,
                              Retire!RetiredIsRevoked, Retire!RetirementLeavesAWay
  <1>5. QED
    BY <1>3, <1>4 DEF Retire!ReadBack, Retire!ShownRevoked

\* What is stored was seen.
LEMMA StoreKeeps ==
  ASSUME BoundsAreNumbers, MigrationInv, NEW w \in Workers, Retire!StoreRetired(w)
  PROVE  MigrationInv'
  <1>1. Retire!TypeOK /\ req[w] \in Steps /\ row \in RowsOfMigration
    BY ReqOK DEF MigrationInv, Retire!TypeOK, RowsOfMigration
  <1>2. /\ UNCHANGED <<managed, old, cert, sessions, bridged, reviews, issuing, begun>>
        /\ mishaps' \in 0..MaxMishaps /\ Retire!Goes(w, Retire!Idle) /\ local' = managed
    BY <1>1, CountsOK DEF Retire!StoreRetired, Retire!router, Retire!Ends
  <1>3. req' \in [Workers -> Steps] /\ RetirementsSeen'
    BY <1>2, IdleOK, StepsKeep
  <1>4. old = "revoked"
        /\ (req[w].state = "verified" /\ req[w].to # Retire!None => req[w].to \in bridged)
    BY DEF Retire!StoreRetired, MigrationInv, RetirementsSeen
  <1>5. /\ row' \in RowsOfMigration
        /\ row'.tested => row'.imported /\ row'.testedOn \ row'.seen # {}
        /\ row'.state = "verified" => row'.retiredFor \in bridged
    <2>1. /\ row.tested => row.imported /\ row.testedOn \ row.seen # {}
          /\ row.state = "verified" => row.retiredFor \in bridged
      BY DEF MigrationInv, TestsStand, Retire!RetirementLeavesAWay
    <2>2. CASE row' = row
      BY <1>1, <2>1, <2>2
    <2>3. CASE req[w].to # Retire!None
               /\ row' = [row EXCEPT !.state = req[w].state, !.retiredFor = req[w].to]
      BY <1>1, <1>4, <2>1, <2>3 DEF RowsOfMigration, Steps
    <2>4. QED
      BY <2>2, <2>3 DEF Retire!StoreRetired
  <1>6. Retire!TypeOK'
    BY <1>2, <1>3, <1>5 DEF MigrationInv, Retire!TypeOK, Steps, RowsOfMigration
  <1>7. QED
    BY <1>2, <1>3, <1>4, <1>5, <1>6 DEF MigrationInv, TestsStand,
                                     Retire!RetiredIsRevoked, Retire!RetirementLeavesAWay

LEMMA MigrationInitially == ASSUME BoundsAreNumbers, Retire!Init PROVE MigrationInv
  <1>1. Retire!NoRow \in RowsOfMigration /\ Retire!NoRow.tested = FALSE /\ Retire!NoRow.state = ""
    BY DEF Retire!NoRow, RowsOfMigration, Retire!Sides, Retire!None
  <1>2. Retire!TypeOK
    <2>1. req \in [Workers -> Steps] /\ row \in RowsOfMigration
      BY <1>1, IdleOK DEF Retire!Init
    <2>2. begun \in 0..MaxRequests /\ mishaps \in 0..MaxMishaps
      BY DEF Retire!Init, BoundsAreNumbers
    <2>3. managed \in BOOLEAN /\ old = "active" /\ cert = [r \in Replacements |-> "absent"]
          /\ sessions = {} /\ local = FALSE /\ reviews = {} /\ issuing = Nobody /\ bridged = {}
      BY DEF Retire!Init
    <2>4. QED
      BY <2>1, <2>2, <2>3 DEF Retire!TypeOK, Steps, RowsOfMigration
  <1>3. RetirementsSeen
    BY IdleOK DEF Retire!Init, RetirementsSeen
  <1>4. QED
    BY <1>1, <1>2, <1>3 DEF Retire!Init, MigrationInv, TestsStand,
                            Retire!RetiredIsRevoked, Retire!RetirementLeavesAWay

LEMMA MigrationStep ==
  ASSUME BoundsAreNumbers, MigrationInv, [Retire!Next]_Retire!vars PROVE MigrationInv'
  <1>1. CASE UNCHANGED Retire!vars
    <2>1. Retire!TypeOK' /\ RetirementsSeen'
      BY <1>1 DEF Retire!vars, MigrationInv, Retire!TypeOK, RetirementsSeen
    <2>2. QED
      BY <1>1, <2>1 DEF Retire!vars, MigrationInv, TestsStand,
                        Retire!RetiredIsRevoked, Retire!RetirementLeavesAWay
  <1>2. CASE \E w \in Workers :
               \/ Retire!BeginIssue(w)
               \/ \E s \in {"imported", "tested"} : Retire!BeginStep(w, s)
               \/ \E kind \in {"preview", "retire"} : Retire!BeginRetire(w, kind)
    BY <1>2, BeginsKeep
  <1>3. CASE \E w \in Workers :
               Retire!CheckCertificates(w) \/ Retire!ListSessions(w) \/ Retire!Review(w)
    BY <1>3, ReadsKeep
  <1>4. CASE \E w \in Workers :
               \/ \E r \in Replacements : Retire!Issue(w, r)
               \/ Retire!Undo(w) \/ Retire!SendRevoke(w)
    BY <1>4, RouterKeeps
  <1>5. CASE \E w \in Workers : \/ Retire!Record(w) \/ Retire!RecordStep(w)
                                \/ Retire!ReadBack(w) \/ Retire!StoreRetired(w)
    BY <1>5, RecordKeeps, ConfirmationKeeps, ReadBackKeeps, StoreKeeps
  <1>6. CASE \/ \E s \in Rows : Retire!Connect(s) \/ Retire!Disconnect(s)
             \/ \E r \in Replacements : Retire!RevokeReplacement(r)
    BY <1>6, WorldKeeps
  <1>7. QED
    BY <1>1, <1>2, <1>3, <1>4, <1>5, <1>6 DEF Retire!Next

LEMMA MigrationInvariant == ASSUME BoundsAreNumbers PROVE Retire!Spec => []MigrationInv
  <1>1. Retire!Init => MigrationInv
    BY MigrationInitially
  <1>2. MigrationInv /\ [Retire!Next]_Retire!vars => MigrationInv'
    BY MigrationStep
  <1>3. QED
    BY <1>1, <1>2, PTL DEF Retire!Spec

(* Which replacement a request is about.  A profile that is being recorded is new: *)
(* no row and no confirmation of a test names it yet.  So a test that was begun   *)
(* for the replacement in the row was begun after the import was recorded there.  *)

Recording(q) == q.at = "record"
Testing(q) == q.kind = "tested" /\ q.at \in {"certificates", "list", "write"}
Issued(c, r) == r \in Replacements /\ c[r] # "absent"

TestsAfter == row.tested /\ row.testedFor = row.to => row.testedAfter

Aimed ==
  /\ row.to # Retire!None => Issued(cert, row.to)
  /\ \A w \in Workers : Recording(req[w]) =>
       /\ Issued(cert, req[w].to)
       /\ req[w].to # Retire!None => req[w].to # row.to
       /\ \A u \in Workers : (Recording(req[u]) /\ u # w) \/ Testing(req[u])
                                => req[u].to # req[w].to
  /\ \A w \in Workers : Testing(req[w]) =>
       /\ Issued(cert, req[w].to) /\ req[w].to # Retire!None
       /\ req[w].to = row.to => row.imported /\ (req[w].at = "write" => req[w].after)
  /\ TestsAfter

\* A step of a request that records no profile.
LEMMA AimKeeps ==
  ASSUME Aimed, NEW w \in Workers, NEW r, req \in [Workers -> Steps],
         Retire!Goes(w, r), ~Recording(r),
         \A x \in Replacements : cert[x] # "absent" => cert'[x] # "absent",
         row'.to = row.to, row.imported => row'.imported, TestsAfter',
         Testing(r) =>
           /\ Issued(cert, r.to) /\ r.to # Retire!None
           /\ r.to = row.to => row.imported /\ (r.at = "write" => r.after)
           /\ \A u \in Workers : Recording(req[u]) => r.to # req[u].to
  PROVE  Aimed'
  <1>1. req' = [req EXCEPT ![w] = r]
    BY DEF Retire!Goes
  <1>2. \A u \in Workers : req'[u] = IF u = w THEN r ELSE req[u]
    BY <1>1
  <1>3. \A x : Issued(cert, x) => Issued(cert', x)
    BY DEF Issued
  <1>4. row'.to # Retire!None => Issued(cert', row'.to)
    BY <1>3 DEF Aimed
  <1>5. \A v \in Workers : Recording(req'[v]) =>
          /\ Issued(cert', req'[v].to)
          /\ req'[v].to # Retire!None => req'[v].to # row'.to
          /\ \A u \in Workers : (Recording(req'[u]) /\ u # v) \/ Testing(req'[u])
                                   => req'[u].to # req'[v].to
    <2> SUFFICES ASSUME NEW v \in Workers, Recording(req'[v])
                 PROVE  /\ Issued(cert', req'[v].to)
                        /\ req'[v].to # Retire!None => req'[v].to # row'.to
                        /\ \A u \in Workers : (Recording(req'[u]) /\ u # v) \/ Testing(req'[u])
                                                 => req'[u].to # req'[v].to
      OBVIOUS
    <2>1. v # w /\ req'[v] = req[v]
      BY <1>2
    <2>2. /\ Issued(cert, req[v].to)
          /\ req[v].to # Retire!None => req[v].to # row.to
          /\ \A u \in Workers : (Recording(req[u]) /\ u # v) \/ Testing(req[u])
                                   => req[u].to # req[v].to
      BY <2>1 DEF Aimed
    <2>3. \A u \in Workers : (Recording(req'[u]) /\ u # v) \/ Testing(req'[u])
                                => req'[u].to # req'[v].to
      BY <1>2, <2>1, <2>2
    <2>4. QED
      BY <1>3, <2>1, <2>2, <2>3
  <1>6. \A v \in Workers : Testing(req'[v]) =>
          /\ Issued(cert', req'[v].to) /\ req'[v].to # Retire!None
          /\ req'[v].to = row'.to => row'.imported /\ (req'[v].at = "write" => req'[v].after)
    BY <1>2, <1>3 DEF Aimed
  <1>7. QED
    BY <1>4, <1>5, <1>6 DEF Aimed

\* The issue of a profile, which nothing names yet.
LEMMA IssueAims ==
  ASSUME Retire!TypeOK, Aimed, NEW w \in Workers, NEW r \in Replacements, Retire!Issue(w, r)
  PROVE  Aimed'
  <1>1. /\ req \in [Workers -> Steps] /\ cert[r] = "absent" /\ row' = row
        /\ cert' = [cert EXCEPT ![r] = "active"]
        /\ req' = [req EXCEPT ![w] = [req[w] EXCEPT !.at = "record", !.to = r]]
    BY DEF Retire!Issue, Retire!Goes, Retire!Certificates, Retire!TypeOK, Steps
  <1>2. /\ \A u \in Workers \ {w} : req'[u] = req[u]
        /\ req'[w].at = "record" /\ req'[w].to = r
    BY <1>1 DEF Steps
  <1>3. Issued(cert', r) /\ ~Issued(cert, r) /\ (\A x : Issued(cert, x) => Issued(cert', x))
    BY <1>1 DEF Issued, Retire!TypeOK
  <1>4. row'.to # Retire!None => Issued(cert', row'.to)
    BY <1>1, <1>3 DEF Aimed
  <1>5. ~Testing(req'[w])
    BY <1>2 DEF Testing
  <1>6. \A v \in Workers : Recording(req'[v]) =>
          /\ Issued(cert', req'[v].to)
          /\ req'[v].to # Retire!None => req'[v].to # row'.to
          /\ \A u \in Workers : (Recording(req'[u]) /\ u # v) \/ Testing(req'[u])
                                   => req'[u].to # req'[v].to
    <2> SUFFICES ASSUME NEW v \in Workers, Recording(req'[v])
                 PROVE  /\ Issued(cert', req'[v].to)
                        /\ req'[v].to # Retire!None => req'[v].to # row'.to
                        /\ \A u \in Workers : (Recording(req'[u]) /\ u # v) \/ Testing(req'[u])
                                                 => req'[u].to # req'[v].to
      OBVIOUS
    <2>1. \A u \in Workers \ {w} : Recording(req[u]) \/ Testing(req[u]) => req[u].to # r
      BY <1>3 DEF Aimed
    <2>2. CASE v = w
      <3>1. r # Retire!None => r # row.to
        BY <1>3 DEF Aimed
      <3>2. QED
        BY <1>1, <1>2, <1>3, <1>5, <2>1, <2>2, <3>1
    <2>3. CASE v # w
      <3>1. /\ Issued(cert, req[v].to)
            /\ req[v].to # Retire!None => req[v].to # row.to
            /\ \A u \in Workers : (Recording(req[u]) /\ u # v) \/ Testing(req[u])
                                     => req[u].to # req[v].to
        BY <1>2, <2>3 DEF Aimed
      <3>2. \A u \in Workers : (Recording(req'[u]) /\ u # v) \/ Testing(req'[u])
                                  => req'[u].to # req'[v].to
        BY <1>2, <1>5, <2>1, <2>3, <3>1
      <3>3. QED
        BY <1>1, <1>2, <1>3, <2>3, <3>1, <3>2
    <2>4. QED
      BY <2>2, <2>3
  <1>7. \A v \in Workers : Testing(req'[v]) =>
          /\ Issued(cert', req'[v].to) /\ req'[v].to # Retire!None
          /\ req'[v].to = row'.to => row'.imported /\ (req'[v].at = "write" => req'[v].after)
    BY <1>1, <1>2, <1>3, <1>5 DEF Aimed
  <1>8. TestsAfter'
    BY <1>1 DEF Aimed, TestsAfter
  <1>9. QED
    BY <1>4, <1>6, <1>7, <1>8 DEF Aimed

\* The row of a replacement is new, or the old one is left: no confirmation that is
\* under way names the new one.
LEMMA RecordAims ==
  ASSUME Retire!TypeOK, Aimed, NEW w \in Workers, Retire!Record(w)
  PROVE  Aimed'
  <1>1. req \in [Workers -> Steps]
    BY DEF Retire!TypeOK, Steps
  <1>2. PICK r \in Steps : Retire!Goes(w, r) /\ r.at \in {"idle", "undo"}
    <2>1. Retire!Idle \in Steps /\ Retire!Idle.at = "idle"
      BY IdleOK DEF Retire!Idle
    <2>2. [req[w] EXCEPT !.at = "undo"] \in Steps /\ [req[w] EXCEPT !.at = "undo"].at = "undo"
      BY <1>1 DEF Steps, Retire!Points
    <2>3. QED
      BY <2>1, <2>2 DEF Retire!Record, Retire!Ends
  <1>3. ~Recording(r) /\ ~Testing(r)
    BY <1>2 DEF Recording, Testing
  <1>4. cert' = cert
    BY DEF Retire!Record, Retire!router
  <1>5. CASE row' = row
    <2>1. TestsAfter'
      BY <1>5 DEF Aimed, TestsAfter
    <2>2. QED
      BY <1>1, <1>2, <1>3, <1>4, <1>5, <2>1, AimKeeps
  <1>6. CASE row' = Retire!Replaced(req[w].to)
    <2>1. row'.to = req[w].to /\ row'.tested = FALSE
      BY <1>6 DEF Retire!Replaced, Retire!NoRow
    <2>2. Recording(req[w])
      BY DEF Retire!Record, Recording
    <2>3. /\ Issued(cert, req[w].to)
          /\ \A u \in Workers \ {w} : Recording(req[u]) \/ Testing(req[u])
                                         => req[u].to # req[w].to
      BY <2>2 DEF Aimed
    <2>4. \A u \in Workers : req'[u] = IF u = w THEN r ELSE req[u]
      BY <1>1, <1>2 DEF Retire!Goes
    <2>5. \A x : Issued(cert, x) <=> Issued(cert', x)
      BY <1>4 DEF Issued
    <2>6. \A v \in Workers : Recording(req'[v]) =>
            /\ Issued(cert', req'[v].to)
            /\ req'[v].to # Retire!None => req'[v].to # row'.to
            /\ \A u \in Workers : (Recording(req'[u]) /\ u # v) \/ Testing(req'[u])
                                     => req'[u].to # req'[v].to
      <3> SUFFICES ASSUME NEW v \in Workers, Recording(req'[v])
                   PROVE  /\ Issued(cert', req'[v].to)
                          /\ req'[v].to # Retire!None => req'[v].to # row'.to
                          /\ \A u \in Workers : (Recording(req'[u]) /\ u # v) \/ Testing(req'[u])
                                                   => req'[u].to # req'[v].to
        OBVIOUS
      <3>1. v # w /\ req'[v] = req[v]
        BY <1>3, <2>4
      <3>2. /\ Issued(cert, req[v].to)
            /\ \A u \in Workers : (Recording(req[u]) /\ u # v) \/ Testing(req[u])
                                     => req[u].to # req[v].to
        BY <3>1 DEF Aimed
      <3>3. QED
        BY <1>3, <2>1, <2>3, <2>4, <2>5, <3>1, <3>2
    <2>7. \A v \in Workers : Testing(req'[v]) =>
            /\ Issued(cert', req'[v].to) /\ req'[v].to # Retire!None /\ req'[v].to # row'.to
      BY <1>3, <2>1, <2>3, <2>4, <2>5 DEF Aimed
    <2>8. QED
      BY <2>1, <2>3, <2>5, <2>6, <2>7 DEF Aimed, TestsAfter
  <1>7. QED
    BY <1>5, <1>6 DEF Retire!Record

\* A confirmation of a test begins when the row's import is recorded, goes on, and is
\* recorded.
LEMMA ConfirmationAims ==
  ASSUME Retire!TypeOK, Aimed, NEW w \in Workers,
         \/ \E s \in {"imported", "tested"} : Retire!BeginStep(w, s)
         \/ Retire!CheckCertificates(w) \/ Retire!ListSessions(w) \/ Retire!RecordStep(w)
  PROVE  Aimed'
  <1>1. req \in [Workers -> Steps] /\ req[w] \in Steps /\ row \in RowsOfMigration
    BY DEF Retire!TypeOK, Steps, RowsOfMigration
  <1>2. cert' = cert
    BY DEF Retire!BeginStep, Retire!CheckCertificates, Retire!ListSessions,
           Retire!RecordStep, Retire!router
  <1>3. ~Recording(Retire!Idle) /\ ~Testing(Retire!Idle)
    BY DEF Recording, Testing, Retire!Idle
  <1>4. CASE \E s \in {"imported", "tested"} : Retire!BeginStep(w, s)
    <2>1. PICK s \in {"imported", "tested"} : Retire!BeginStep(w, s)
      BY <1>4
    <2> DEFINE new == [Retire!Idle EXCEPT !.kind = s, !.at = "certificates", !.to = row.to]
    <2>2. /\ new.kind = s /\ new.at = "certificates" /\ new.to = row.to
          /\ Retire!Goes(w, new) /\ row' = row /\ row.to # Retire!None
          /\ s = "tested" => row.imported
      BY <2>1 DEF Retire!BeginStep, Retire!Idle
    <2> HIDE DEF new
    <2>3. ~Recording(new) /\ TestsAfter'
      BY <2>2 DEF Recording, Aimed, TestsAfter
    <2>4. Testing(new) =>
            /\ Issued(cert, new.to) /\ new.to # Retire!None
            /\ new.to = row.to => row.imported /\ (new.at = "write" => new.after)
            /\ \A u \in Workers : Recording(req[u]) => new.to # req[u].to
      BY <2>2 DEF Testing, Aimed
    <2>5. QED
      BY <1>1, <1>2, <2>2, <2>3, <2>4, AimKeeps
  <1>5. CASE Retire!CheckCertificates(w) \/ Retire!ListSessions(w)
    <2>1. row' = row /\ TestsAfter'
      BY <1>5 DEF Retire!CheckCertificates, Retire!ListSessions, Aimed, TestsAfter
    <2>2. CASE Retire!Ends(w)
      BY <1>1, <1>2, <1>3, <2>1, <2>2, AimKeeps DEF Retire!Ends
    <2>3. CASE /\ req[w].at \in {"certificates", "list"}
               /\ \E r \in Steps :
                    /\ Retire!Goes(w, r) /\ r.kind = req[w].kind /\ r.to = req[w].to
                    /\ \/ r.at = "list"
                       \/ r.at = "write" /\ r.after = (row.to = req[w].to /\ row.imported)
      <3>1. PICK r \in Steps :
                    /\ Retire!Goes(w, r) /\ r.kind = req[w].kind /\ r.to = req[w].to
                    /\ \/ r.at = "list"
                       \/ r.at = "write" /\ r.after = (row.to = req[w].to /\ row.imported)
        BY <2>3
      <3>2. ~Recording(r)
        BY <3>1 DEF Recording
      <3>3. Testing(r) => Testing(req[w])
        BY <2>3, <3>1 DEF Testing
      <3>4. Testing(req[w]) =>
              /\ Issued(cert, req[w].to) /\ req[w].to # Retire!None
              /\ req[w].to = row.to => row.imported
              /\ \A u \in Workers : Recording(req[u]) => req[w].to # req[u].to
        BY DEF Aimed
      <3>5. Testing(r) =>
              /\ Issued(cert, r.to) /\ r.to # Retire!None
              /\ r.to = row.to => row.imported /\ (r.at = "write" => r.after)
              /\ \A u \in Workers : Recording(req[u]) => r.to # req[u].to
        BY <3>1, <3>3, <3>4
      <3>6. QED
        BY <1>1, <1>2, <2>1, <3>1, <3>2, <3>5, AimKeeps
    <2>4. CASE Retire!CheckCertificates(w) /\ Retire!Goes(w, [req[w] EXCEPT !.at = "list"])
      <3> DEFINE new == [req[w] EXCEPT !.at = "list"]
      <3>1. new \in Steps /\ new.at = "list" /\ new.kind = req[w].kind /\ new.to = req[w].to
        BY <1>1 DEF Steps, Retire!Points
      <3>2. QED
        BY <2>3, <2>4, <3>1 DEF Retire!CheckCertificates
    <2>5. CASE Retire!ListSessions(w)
               /\ Retire!Goes(w, [req[w] EXCEPT !.at = "write", !.found = sessions,
                                    !.after = row.to = req[w].to /\ row.imported])
      <3> DEFINE new == [req[w] EXCEPT !.at = "write", !.found = sessions,
                           !.after = row.to = req[w].to /\ row.imported]
      <3>1. /\ new \in Steps /\ new.at = "write" /\ new.kind = req[w].kind
            /\ new.to = req[w].to /\ new.after = (row.to = req[w].to /\ row.imported)
        BY <1>1 DEF Steps, Retire!Points, Retire!TypeOK, RowsOfMigration
      <3>2. QED
        BY <2>3, <2>5, <3>1 DEF Retire!ListSessions
    <2>6. QED
      BY <1>5, <2>2, <2>4, <2>5 DEF Retire!CheckCertificates, Retire!ListSessions
  <1>6. CASE Retire!RecordStep(w)
    <2>1. Retire!Goes(w, Retire!Idle) /\ req[w].at = "write"
      BY <1>6 DEF Retire!RecordStep, Retire!Ends
    <2>2. row'.to = row.to /\ (row.imported => row'.imported) /\ TestsAfter'
      <3>1. CASE row' = row
        BY <3>1 DEF Aimed, TestsAfter
      <3>2. CASE row' = [row EXCEPT !.imported = TRUE, !.seen = req[w].found]
        BY <1>1, <3>2 DEF Aimed, TestsAfter, RowsOfMigration
      <3>3. CASE req[w].kind = "tested"
                 /\ row' = [row EXCEPT !.tested = TRUE, !.testedOn = req[w].found,
                                       !.testedFor = req[w].to, !.testedAfter = req[w].after]
        <4>1. req[w].to = row.to => req[w].after
          BY <2>1, <3>3 DEF Aimed, Testing
        <4>2. QED
          BY <1>1, <3>3, <4>1 DEF TestsAfter, RowsOfMigration
      <3>4. QED
        BY <1>6, <3>1, <3>2, <3>3 DEF Retire!RecordStep, Retire!Imported
    <2>3. QED
      BY <1>1, <1>2, <1>3, <2>1, <2>2, AimKeeps
  <1>7. QED
    BY <1>4, <1>5, <1>6

\* Every other step of a request neither records a profile nor confirms a test.
LEMMA OthersAim ==
  ASSUME Retire!TypeOK, Aimed, NEW w \in Workers,
         \/ Retire!BeginIssue(w) \/ Retire!Undo(w)
         \/ \E kind \in {"preview", "retire"} : Retire!BeginRetire(w, kind)
         \/ Retire!Review(w) \/ Retire!SendRevoke(w) \/ Retire!ReadBack(w)
         \/ Retire!StoreRetired(w)
  PROVE  Aimed'
  <1>1. req \in [Workers -> Steps] /\ req[w] \in Steps /\ row \in RowsOfMigration
    BY DEF Retire!TypeOK, Steps, RowsOfMigration
  <1>2. \E r : Retire!Goes(w, r) /\ r.at \in {"idle", "issue", "check", "send", "readBack", "store"}
    <2>1. Retire!Idle.at = "idle"
      BY DEF Retire!Idle
    <2>2. [Retire!Idle EXCEPT !.kind = "replace", !.at = "issue"].at = "issue"
          /\ \A k : [Retire!Idle EXCEPT !.kind = k, !.at = "check", !.to = row.to].at = "check"
      BY DEF Retire!Idle
    <2>3. /\ [req[w] EXCEPT !.at = "send"].at = "send"
          /\ [req[w] EXCEPT !.at = "readBack"].at = "readBack"
          /\ \A s : [req[w] EXCEPT !.at = "store", !.state = s].at = "store"
      BY <1>1 DEF Steps
    <2>4. CASE Retire!BeginIssue(w)
      BY <2>2, <2>4 DEF Retire!BeginIssue
    <2>5. CASE Retire!Undo(w) \/ Retire!StoreRetired(w)
      BY <2>1, <2>5 DEF Retire!Undo, Retire!StoreRetired, Retire!Ends
    <2>6. CASE \E kind \in {"preview", "retire"} : Retire!BeginRetire(w, kind)
      BY <2>2, <2>6 DEF Retire!BeginRetire
    <2>7. CASE Retire!Review(w)
      BY <2>1, <2>3, <2>7 DEF Retire!Review, Retire!Ends
    <2>8. CASE Retire!SendRevoke(w)
      BY <2>3, <2>8 DEF Retire!SendRevoke
    <2>9. CASE Retire!ReadBack(w)
      <3>1. CASE Retire!Goes(w, [req[w] EXCEPT !.at = "store", !.state = Retire!Outcome(req[w].to)])
        BY <2>3, <3>1
      <3>2. CASE Retire!Ends(w)
        BY <2>1, <3>2 DEF Retire!Ends
      <3>3. QED
        BY <2>9, <3>1, <3>2 DEF Retire!ReadBack
    <2>10. QED
      BY <2>4, <2>5, <2>6, <2>7, <2>8, <2>9
  <1>3. PICK r : Retire!Goes(w, r) /\ ~Recording(r) /\ ~Testing(r)
    BY <1>2 DEF Recording, Testing
  <1>4. \A x \in Replacements : cert[x] # "absent" => cert'[x] # "absent"
    <2>1. CASE Retire!Undo(w) \/ Retire!SendRevoke(w)
      BY <2>1 DEF Retire!Undo, Retire!SendRevoke, Retire!Certificates, Retire!TypeOK,
                  Retire!router
    <2>2. CASE cert' = cert
      BY <2>2
    <2>3. QED
      BY <2>1, <2>2 DEF Retire!BeginIssue, Retire!BeginRetire, Retire!Review,
                        Retire!ReadBack, Retire!StoreRetired, Retire!router
  <1>5. row'.to = row.to /\ row'.imported = row.imported /\ TestsAfter'
    <2>1. CASE row' = row
      BY <2>1 DEF Aimed, TestsAfter
    <2>2. CASE row' = [row EXCEPT !.state = req[w].state, !.retiredFor = req[w].to]
      BY <1>1, <2>2 DEF Aimed, TestsAfter, RowsOfMigration
    <2>3. QED
      BY <2>1, <2>2 DEF Retire!BeginIssue, Retire!Undo, Retire!BeginRetire, Retire!Review,
                        Retire!SendRevoke, Retire!ReadBack, Retire!StoreRetired
  <1>6. QED
    BY <1>1, <1>3, <1>4, <1>5, AimKeeps

\* No request moves, and no profile that was issued comes to be absent.
LEMMA WorldAims ==
  ASSUME Retire!TypeOK, Aimed, UNCHANGED <<req, row>>,
         \A x \in Replacements : cert[x] # "absent" => cert'[x] # "absent"
  PROVE  Aimed'
  <1>1. \A x : Issued(cert, x) => Issued(cert', x)
    BY DEF Issued
  <1>2. QED
    BY <1>1 DEF Aimed, TestsAfter

LEMMA AimedStep ==
  ASSUME Retire!TypeOK, Aimed, [Retire!Next]_Retire!vars PROVE Aimed'
  <1>1. CASE UNCHANGED Retire!vars
    BY <1>1, WorldAims DEF Retire!vars
  <1>2. CASE \E w \in Workers, r \in Replacements : Retire!Issue(w, r)
    BY <1>2, IssueAims
  <1>3. CASE \E w \in Workers : Retire!Record(w)
    BY <1>3, RecordAims
  <1>4. CASE \E w \in Workers :
               \/ \E s \in {"imported", "tested"} : Retire!BeginStep(w, s)
               \/ Retire!CheckCertificates(w) \/ Retire!ListSessions(w) \/ Retire!RecordStep(w)
    BY <1>4, ConfirmationAims
  <1>5. CASE \E w \in Workers :
               \/ Retire!BeginIssue(w) \/ Retire!Undo(w)
               \/ \E kind \in {"preview", "retire"} : Retire!BeginRetire(w, kind)
               \/ Retire!Review(w) \/ Retire!SendRevoke(w) \/ Retire!ReadBack(w)
               \/ Retire!StoreRetired(w)
    BY <1>5, OthersAim
  <1>6. CASE \/ \E s \in Rows : Retire!Connect(s) \/ Retire!Disconnect(s)
             \/ \E r \in Replacements : Retire!RevokeReplacement(r)
    <2>1. UNCHANGED <<req, row>>
          /\ \A x \in Replacements : cert[x] # "absent" => cert'[x] # "absent"
      BY <1>6 DEF Retire!Connect, Retire!Disconnect, Retire!RevokeReplacement,
                  Retire!Certificates, Retire!TypeOK
    <2>2. QED
      BY <2>1, WorldAims
  <1>7. QED
    BY <1>1, <1>2, <1>3, <1>4, <1>5, <1>6 DEF Retire!Next

LEMMA AimedInvariant == ASSUME BoundsAreNumbers PROVE Retire!Spec => []Aimed
  <1>1. Retire!Init => Aimed
    <2>1. Retire!NoRow.to = Retire!None /\ Retire!NoRow.tested = FALSE
          /\ Retire!Idle.at = "idle"
      BY DEF Retire!NoRow, Retire!Idle
    <2>2. ~Recording(Retire!Idle) /\ ~Testing(Retire!Idle)
      BY <2>1 DEF Recording, Testing
    <2>3. Retire!Init => \A w \in Workers : req[w] = Retire!Idle
      BY DEF Retire!Init
    <2>4. Retire!Init => row = Retire!NoRow
      BY DEF Retire!Init
    <2>5. QED
      BY <2>1, <2>2, <2>3, <2>4 DEF Aimed, TestsAfter
  <1>2. Retire!TypeOK /\ Aimed /\ [Retire!Next]_Retire!vars => Aimed'
    BY AimedStep
  <1>3. MigrationInv => Retire!TypeOK
    BY DEF MigrationInv
  <1>4. QED
    BY <1>1, <1>2, <1>3, MigrationInvariant, PTL DEF Retire!Spec

\* The certificates, the migration's row and the requests keep their types.
THEOREM MigrationHasTypes == ASSUME BoundsAreNumbers PROVE Retire!Spec => []Retire!TypeOK
  <1>1. MigrationInv => Retire!TypeOK
    BY DEF MigrationInv
  <1>2. QED
    BY <1>1, MigrationInvariant, PTL

\* However confirmations of two operators and new replacements cross, a recorded test
\* stands on a recorded import and on a session of its own; and if it was begun for the
\* replacement that the row names, RouterOS was asked for sessions after that import.
\* Of a test begun for an earlier replacement the latter is not said
\* (record_profile_migration_step, store.py:1117-1187).
THEOREM TestsStandOnImports ==
  ASSUME BoundsAreNumbers PROVE Retire!Spec => []Retire!TestsFollowImports
  <1>1. MigrationInv /\ Aimed => Retire!TestsFollowImports
    BY DEF MigrationInv, TestsStand, Aimed, TestsAfter, Retire!TestsFollowImports
  <1>2. QED
    BY <1>1, MigrationInvariant, AimedInvariant, PTL

\* What is shown as retired is revoked on the router, and what is shown as verified
\* left the user the reviewed replacement (_revoke_device, app.py:8134-8246).
THEOREM RetirementsAreHonest ==
  ASSUME BoundsAreNumbers
  PROVE  Retire!Spec => [](Retire!RetiredIsRevoked /\ Retire!RetirementLeavesAWay)
  <1>1. MigrationInv => Retire!RetiredIsRevoked /\ Retire!RetirementLeavesAWay
    BY DEF MigrationInv
  <1>2. QED
    BY <1>1, MigrationInvariant, PTL

-----------------------------------------------------------------------------
(* Responses that are held back *)

Replies ==
  [kind : {"none", "handshake", "poll"}, outer : {"idle", "waiting", "grace", "ended"},
   task : {"none", "head", "body", "authorise", "start", "rest", "drain", "failed", "done"},
   ok : BOOLEAN, parked : BOOLEAN, head : Nat, body : Nat, content : SUBSET Buffer!Contents,
   ready : BOOLEAN, held : BOOLEAN, cut : BOOLEAN, reject : BOOLEAN, answers : Nat]

\* Whoever answers has not been answered for: an id that is bound is not refused, a
\* start that was sent is not sent again, and a request that ended sends nothing.
AnsweredFor(q) ==
  /\ q.answers =< 1
  /\ q.kind = "handshake" /\ q.task \in {"start", "rest", "drain"} => q.ready
  /\ q.outer # "ended" /\ q.answers = 1 =>
       /\ q.task \in {"rest", "drain", "done"} /\ ~q.parked
       /\ q.kind = "handshake" => q.ready
  /\ q.outer \in {"grace", "ended"} => q.cut
  /\ q.outer = "grace" /\ q.reject => q.answers = 0

\* Telemetry that waits to be sent waits under the role lock.
UnderLock(q) ==
  q.kind = "poll" /\ q.ok /\ ~q.cut /\ q.task \in {"start", "rest"}
    /\ "telemetry" \in q.content => q.held

BufferInv ==
  /\ req \in [Threads -> Replies] /\ login \in {"active", "revoked"} /\ ~leaked
  /\ \A r \in Threads : AnsweredFor(req[r]) /\ UnderLock(req[r])
  /\ \A r \in Threads : req[r].held => login = "active"

\* A step of one request.
LEMMA ReplyStep ==
  ASSUME BufferInv, NEW r \in Threads, NEW q \in Replies, Buffer!Set(r, q),
         AnsweredFor(q), UnderLock(q), q.held => login = "active",
         login' = login, ~leaked'
  PROVE  BufferInv'
  <1>1. req' = [req EXCEPT ![r] = q]
    BY DEF Buffer!Set
  <1>2. req' \in [Threads -> Replies]
    BY <1>1 DEF BufferInv
  <1>3. ASSUME NEW s \in Threads
        PROVE  AnsweredFor(req'[s]) /\ UnderLock(req'[s]) /\ (req'[s].held => login = "active")
    BY <1>1 DEF BufferInv
  <1>4. QED
    BY <1>2, <1>3 DEF BufferInv, AnsweredFor, UnderLock

LEMMA ReplyOK ==
  ASSUME BufferInv, NEW r \in Threads
  PROVE  /\ req[r] \in Replies /\ AnsweredFor(req[r]) /\ UnderLock(req[r])
         /\ req[r].held => login = "active"
  BY DEF BufferInv

LEMMA UnusedOK ==
  LET q == Buffer!Unused
  IN  /\ q \in Replies /\ q.answers = 0 /\ ~q.held /\ ~q.cut /\ ~q.reject /\ q.content = {}
      /\ q.kind = "none" /\ q.outer = "idle" /\ q.task = "none"
  BY DEF Buffer!Unused, Replies

LEMMA RequestBegins ==
  ASSUME BufferInv, NEW r \in Threads, NEW k \in {"handshake", "poll"}, Buffer!Begin(r, k)
  PROVE  BufferInv'
  <1> DEFINE q == [Buffer!Unused EXCEPT !.kind = k, !.outer = "waiting", !.task = "head"]
  <1>0. /\ q \in Replies /\ q.answers = 0 /\ ~q.held /\ q.outer = "waiting" /\ q.task = "head"
    BY UnusedOK DEF Replies
  <1>1. AnsweredFor(q) /\ UnderLock(q)
    BY <1>0 DEF AnsweredFor, UnderLock
  <1>2. QED
    BY <1>0, <1>1, ReplyStep DEF Buffer!Begin, Buffer!Stay, BufferInv

LEMMA HeadKeeps ==
  ASSUME BufferInv, NEW r \in Threads, NEW ok \in BOOLEAN, Buffer!Head(r, ok)
  PROVE  BufferInv'
  <1> DEFINE passed == [req[r] EXCEPT !.task = "body"]
             full == [req[r] EXCEPT !.task = "failed"]
             parked == [req[r] EXCEPT !.task = "body", !.parked = TRUE, !.head = 1, !.ok = ok]
  <1>1. req[r] \in Replies /\ req[r].task = "head" /\ (req[r].held => login = "active")
        /\ AnsweredFor(req[r])
    BY ReplyOK DEF Buffer!Head
  <1>2. passed \in Replies /\ AnsweredFor(passed) /\ UnderLock(passed) /\ (passed.held => login = "active")
    BY <1>1 DEF Replies, AnsweredFor, UnderLock
  <1>3. full \in Replies /\ AnsweredFor(full) /\ UnderLock(full) /\ (full.held => login = "active")
    BY <1>1 DEF Replies, AnsweredFor, UnderLock
  <1>4. parked \in Replies /\ AnsweredFor(parked) /\ UnderLock(parked) /\ (parked.held => login = "active")
    BY <1>1 DEF Replies, AnsweredFor, UnderLock
  <1>5. \/ Buffer!Set(r, passed) \/ Buffer!Set(r, full) \/ Buffer!Set(r, parked)
    BY DEF Buffer!Head
  <1>6. login' = login /\ ~leaked'
    BY DEF Buffer!Head, BufferInv
  <1>7. QED
    BY <1>2, <1>3, <1>4, <1>5, <1>6, ReplyStep

\* A piece that is held back leaves a reply well formed.
LEMMA ReplyWith ==
  ASSUME NEW q \in Replies, NEW n \in Nat, NEW d \in SUBSET Buffer!Contents,
         NEW t \in {"body", "authorise", "start", "done"}, NEW b \in BOOLEAN
  PROVE  [q EXCEPT !.body = n, !.content = d, !.task = t, !.ready = b] \in Replies
  BY DEF Replies

\* What is held back, or not for want of room.  The start of a response follows
\* when its id is bound or its body is whole; no start was sent before.
LEMMA BufferedKeeps ==
  ASSUME BufferInv, NEW r \in Threads, NEW q \in Replies, NEW c \in SUBSET Buffer!Contents,
         NEW next \in {"body", "authorise", "start", "done"}, Buffer!Buffered(r, q, c, next),
         q.task \in {"body", "authorise"}, AnsweredFor(q), q.held => login = "active",
         login' = login, ~leaked',
         next = "start" => q.kind = "handshake" \/ ~q.ok
  PROVE  BufferInv'
  <1> DEFINE failed(bound) == [q EXCEPT !.task = "failed", !.held = FALSE, !.ready = bound]
             buffered == [q EXCEPT !.body = @ + 1, !.content = @ \cup c, !.task = next,
                                   !.ready = (next = "start")]
  <1>1. ASSUME NEW bound \in BOOLEAN, Buffer!Set(r, failed(bound))
        PROVE  BufferInv'
    <2> DEFINE new == failed(bound)
    <2>2. /\ new \in Replies /\ ~new.held /\ new.task = "failed" /\ new.answers = q.answers
          /\ new.outer = q.outer /\ new.cut = q.cut /\ new.reject = q.reject
          /\ q.task \notin {"rest", "drain", "done"}
      BY DEF Replies
    <2>3. Buffer!Set(r, new)
      BY <1>1
    <2> HIDE DEF new
    <2>4. AnsweredFor(new) /\ UnderLock(new)
      BY <2>2 DEF AnsweredFor, UnderLock
    <2>5. QED
      BY <2>2, <2>3, <2>4, ReplyStep
  <1>2. CASE Buffer!Set(r, buffered)
    <2>0. /\ q.body + 1 \in Nat
          /\ q.content \cup c \in SUBSET Buffer!Contents
          /\ (next = "start") \in BOOLEAN
      <3>1. q.content \in SUBSET Buffer!Contents /\ q.body \in Nat
        BY DEF Replies
      <3>2. QED
        BY <3>1
    <2>a. PICK n \in Nat, d \in SUBSET Buffer!Contents, b \in BOOLEAN :
            /\ n = q.body + 1 /\ d = q.content \cup c /\ b = (next = "start")
      BY <2>0, Zenon
    <2>b. buffered = [q EXCEPT !.body = n, !.content = d, !.task = next, !.ready = b]
      BY <2>a, Zenon
    <2>c. buffered \in Replies
      <3>1. [q EXCEPT !.body = n, !.content = d, !.task = next, !.ready = b] \in Replies
        BY ReplyWith, Zenon
      <3>2. QED
        BY <2>b, <3>1, Zenon
    <2>d. buffered.task = next /\ buffered.ready = b /\ buffered.kind = q.kind
      BY <2>b DEF Replies
    <2>e. buffered.outer = q.outer /\ buffered.ok = q.ok /\ buffered.cut = q.cut
      BY <2>b DEF Replies
    <2>f. buffered.reject = q.reject /\ buffered.held = q.held /\ buffered.answers = q.answers
      BY <2>b DEF Replies
    <2> HIDE DEF buffered
    <2>2. AnsweredFor(buffered)
      BY <2>d, <2>e, <2>f, <2>a DEF AnsweredFor, Replies
    <2>3. UnderLock(buffered)
      BY <2>d, <2>e, <2>f DEF UnderLock, Replies
    <2>4. QED
      BY <1>2, <2>c, <2>f, <2>2, <2>3, ReplyStep
  <1>3. (\E bound \in BOOLEAN : Buffer!Set(r, failed(bound))) \/ Buffer!Set(r, buffered)
    BY Zenon DEF Buffer!Buffered
  <1> HIDE DEF failed, buffered
  <1>4. QED
    BY <1>1, <1>2, <1>3

LEMMA PieceKeeps ==
  ASSUME BufferInv, NEW r \in Threads, NEW c \in Buffer!Contents, NEW last \in BOOLEAN,
         Buffer!Piece(r, c, last)
  PROVE  BufferInv'
  <1>1. /\ req[r] \in Replies /\ req[r].task = "body" /\ AnsweredFor(req[r])
        /\ req[r].held => login = "active"
        /\ login' = login /\ ~leaked'
    BY ReplyOK DEF Buffer!Piece, BufferInv
  <1>2. PICK q \in Replies : q = req[r]
    BY <1>1
  <1>3. CASE \E t \in {"done", "body", "authorise"} :
               Buffer!Set(r, [q EXCEPT !.task = t]) /\ (t = "done" => q.cut)
    <2>1. PICK t \in {"done", "body", "authorise"} :
            Buffer!Set(r, [q EXCEPT !.task = t]) /\ (t = "done" => q.cut)
      BY <1>3
    <2> DEFINE new == [q EXCEPT !.task = t]
    <2>2. /\ new \in Replies /\ AnsweredFor(new) /\ UnderLock(new)
          /\ new.held => login = "active"
      BY <1>1, <1>2, <2>1 DEF Replies, AnsweredFor, UnderLock
    <2>3. QED
      BY <1>1, <2>1, <2>2, ReplyStep
  <1>4. CASE /\ q.kind = "poll"
             /\ Buffer!Buffered(r, q, {c}, IF ~last THEN "body" ELSE IF q.ok THEN "authorise" ELSE "start")
    BY <1>1, <1>2, <1>4, BufferedKeeps
  <1>5. CASE Buffer!Buffered(r, q, {}, IF last THEN "done" ELSE "body")
    BY <1>1, <1>2, <1>5, BufferedKeeps
  <1>6. QED
    BY <1>2, <1>3, <1>4, <1>5 DEF Buffer!Piece

LEMMA AuthoriseKeeps ==
  ASSUME BufferInv, NEW r \in Threads, Buffer!Authorise(r)
  PROVE  BufferInv'
  <1>1. /\ req[r] \in Replies /\ req[r].task = "authorise" /\ AnsweredFor(req[r])
        /\ req[r].held => login = "active"
        /\ login' = login /\ ~leaked'
    BY ReplyOK DEF Buffer!Authorise, BufferInv
  <1>2. ASSUME NEW q \in Replies, NEW found \in BOOLEAN, Buffer!Bind(r, q, found),
               q.kind = "handshake", q.task = "authorise", AnsweredFor(q),
               q.held => login = "active"
        PROVE  BufferInv'
    <2>1. CASE Buffer!Set(r, [q EXCEPT !.task = "body", !.held = FALSE])
      <3> DEFINE new == [q EXCEPT !.task = "body", !.held = FALSE]
      <3>1. new \in Replies /\ AnsweredFor(new) /\ UnderLock(new) /\ ~new.held
        BY <1>2 DEF Replies, AnsweredFor, UnderLock
      <3>2. QED
        BY <1>1, <2>1, <3>1, ReplyStep
    <2>2. CASE Buffer!Buffered(r, [q EXCEPT !.held = @ /\ found], {},
                               IF found THEN "start" ELSE "body")
      <3> DEFINE new == [q EXCEPT !.held = @ /\ found]
      <3>1. /\ new \in Replies /\ AnsweredFor(new) /\ (new.held => login = "active")
            /\ new.task = "authorise" /\ new.kind = "handshake"
        BY <1>2 DEF Replies, AnsweredFor
      <3> HIDE DEF new
      <3>2. Buffer!Buffered(r, new, {}, IF found THEN "start" ELSE "body")
        BY <2>2 DEF new
      <3>3. QED
        BY <1>1, <3>1, <3>2, BufferedKeeps
    <2>3. QED
      BY <1>2, <2>1, <2>2 DEF Buffer!Bind
  <1>3. CASE /\ req[r].kind = "handshake"
             /\ \E found \in BOOLEAN : Buffer!Bind(r, req[r], found)
    <2>1. PICK q \in Replies : q = req[r]
      BY <1>1
    <2>2. QED
      BY <1>1, <1>2, <1>3, <2>1
  <1>4. CASE /\ req[r].kind = "handshake" /\ login = "active"
             /\ \E found \in BOOLEAN : Buffer!Bind(r, [req[r] EXCEPT !.held = TRUE], found)
    <2> DEFINE new == [req[r] EXCEPT !.held = TRUE]
    <2>1. new \in Replies /\ AnsweredFor(new) /\ new.task = "authorise" /\ new.kind = "handshake"
      BY <1>1, <1>4 DEF Replies, AnsweredFor
    <2> HIDE DEF new
    <2>2. PICK q \in Replies : q = new
      BY <2>1
    <2>3. \E found \in BOOLEAN : Buffer!Bind(r, q, found)
      BY <1>4, <2>2 DEF new
    <2>4. QED
      BY <1>2, <1>4, <2>1, <2>2, <2>3
  <1>5. CASE /\ req[r].kind # "handshake" /\ login = "active"
             /\ Buffer!Set(r, [req[r] EXCEPT !.held = TRUE, !.task = "start"])
    <2> DEFINE new == [req[r] EXCEPT !.held = TRUE, !.task = "start"]
    <2>1. new \in Replies /\ AnsweredFor(new) /\ UnderLock(new)
      BY <1>1, <1>5 DEF Replies, AnsweredFor, UnderLock
    <2>2. QED
      BY <1>1, <1>5, <2>1, ReplyStep
  <1>6. CASE /\ req[r].kind # "handshake"
             /\ Buffer!Set(r, [req[r] EXCEPT !.content = Buffer!Stripped(req[r]), !.task = "start"])
    <2> DEFINE new == [req[r] EXCEPT !.content = Buffer!Stripped(req[r]), !.task = "start"]
    <2>1. "telemetry" \notin Buffer!Stripped(req[r])
          /\ Buffer!Stripped(req[r]) \subseteq Buffer!Contents
      BY DEF Buffer!Stripped, Buffer!Contents
    <2>2. new \in Replies /\ AnsweredFor(new) /\ UnderLock(new)
          /\ (new.held => login = "active")
      BY <1>1, <1>6, <2>1 DEF Replies, AnsweredFor, UnderLock
    <2>3. QED
      BY <1>1, <1>6, <2>2, ReplyStep
  <1>7. QED
    BY <1>3, <1>4, <1>5, <1>6 DEF Buffer!Authorise

\* The start, with the id bound for a handshake; then the rest, under the lock.
LEMMA SendsKeep ==
  ASSUME BufferInv, NEW r \in Threads,
         Buffer!SendStart(r) \/ Buffer!SendRest(r) \/ Buffer!Drained(r)
  PROVE  BufferInv'
  <1>1. /\ req[r] \in Replies /\ AnsweredFor(req[r]) /\ UnderLock(req[r])
        /\ req[r].held => login = "active"
    BY ReplyOK
  <1>2. CASE Buffer!SendStart(r)
    <2>1. PICK n \in Nat : n = req[r].answers + (IF Buffer!Sends(req[r]) THEN 1 ELSE 0)
      BY <1>1 DEF Replies
    <2> DEFINE new == [req[r] EXCEPT !.parked = FALSE, !.task = "rest", !.answers = n]
    <2>2. Buffer!Set(r, new) /\ login' = login /\ ~leaked' /\ req[r].task = "start"
      BY <1>2, <2>1 DEF Buffer!SendStart, Buffer!Stay, BufferInv
    <2>3. /\ new \in Replies /\ (new.held => login = "active")
      BY <1>1 DEF Replies
    <2>4. AnsweredFor(new)
      BY <1>1, <2>1, <2>2 DEF AnsweredFor, Replies, Buffer!Sends
    <2>5. UnderLock(new)
      BY <1>1, <2>2 DEF UnderLock, Replies
    <2>6. QED
      BY <2>2, <2>3, <2>4, <2>5, ReplyStep
  <1>3. CASE Buffer!SendRest(r)
    <2> DEFINE new == [req[r] EXCEPT !.head = 0, !.task = "drain"]
    <2>1. Buffer!Set(r, new) /\ login' = login /\ req[r].task = "rest"
      BY <1>3 DEF Buffer!SendRest
    <2>2. ~leaked'
      BY <1>1, <1>3 DEF Buffer!SendRest, Buffer!Sends, UnderLock, BufferInv
    <2>3. /\ new \in Replies /\ AnsweredFor(new) /\ UnderLock(new)
          /\ new.held => login = "active"
      BY <1>1, <2>1 DEF Replies, AnsweredFor, UnderLock
    <2>4. QED
      BY <2>1, <2>2, <2>3, ReplyStep
  <1>4. CASE Buffer!Drained(r)
    <2> DEFINE new == [req[r] EXCEPT !.body = 0, !.content = {}, !.held = FALSE, !.task = "done"]
    <2>1. Buffer!Set(r, new) /\ login' = login /\ ~leaked' /\ req[r].task = "drain"
      BY <1>4 DEF Buffer!Drained, BufferInv
    <2>2. new \in Replies /\ AnsweredFor(new) /\ UnderLock(new) /\ ~new.held
      BY <1>1, <2>1 DEF Replies, AnsweredFor, UnderLock
    <2>3. QED
      BY <2>1, <2>2, ReplyStep
  <1>5. QED
    BY <1>2, <1>3, <1>4

LEMMA InterruptionsKeep ==
  ASSUME BufferInv, NEW r \in Threads, Buffer!Breaks(r) \/ Buffer!TimeOut(r)
  PROVE  BufferInv'
  <1>1. /\ req[r] \in Replies /\ AnsweredFor(req[r]) /\ UnderLock(req[r])
        /\ req[r].held => login = "active"
    BY ReplyOK
  <1>0. login' = login /\ ~leaked'
    <2>1. Buffer!Stay
      BY Zenon DEF Buffer!Breaks, Buffer!TimeOut
    <2>2. QED
      BY <2>1 DEF Buffer!Stay, BufferInv
  <1>2. CASE Buffer!Breaks(r)
    <2>1. PICK t \in {"done", "failed"} : Buffer!Set(r, [req[r] EXCEPT !.task = t])
      BY <1>2 DEF Buffer!Breaks
    <2> DEFINE new == [req[r] EXCEPT !.task = t]
    <2>2. /\ new \in Replies /\ AnsweredFor(new) /\ UnderLock(new)
          /\ new.held => login = "active"
      BY <1>1, <1>2 DEF Replies, AnsweredFor, UnderLock, Buffer!Breaks
    <2>3. QED
      BY <1>0, <1>1, <2>1, <2>2, ReplyStep
  <1>3. CASE Buffer!TimeOut(r)
    <2>1. PICK j \in BOOLEAN :
            /\ j => Buffer!StillUnbound(req[r])
            /\ Buffer!Set(r, [req[r] EXCEPT !.outer = "grace", !.cut = TRUE, !.reject = j])
      BY <1>3 DEF Buffer!TimeOut
    <2> DEFINE new == [req[r] EXCEPT !.outer = "grace", !.cut = TRUE, !.reject = j]
    <2>2. /\ new \in Replies /\ UnderLock(new) /\ (new.held => login = "active")
      BY <1>1 DEF Replies, UnderLock
    <2>3. req[r].outer = "waiting" /\ (j => req[r].kind = "handshake" /\ ~req[r].ready)
      BY <1>3, <2>1 DEF Buffer!StillUnbound, Buffer!TimeOut
    <2>4. /\ new.outer = "grace" /\ new.cut /\ new.reject = j /\ new.kind = req[r].kind
          /\ new.answers = req[r].answers /\ new.task = req[r].task
          /\ new.ready = req[r].ready /\ new.parked = req[r].parked
      BY <1>1 DEF Replies
    <2>5. req[r].answers \in Nat
      BY <1>1 DEF Replies
    <2>6. AnsweredFor(new)
      <3> HIDE DEF new
      <3>1. QED
        BY <1>1, <2>3, <2>4, <2>5 DEF AnsweredFor
    <2>7. QED
      BY <1>0, <1>1, <2>1, <2>2, <2>6, ReplyStep
  <1>4. QED
    BY <1>2, <1>3

\* What is left of a request that ended, when its task ended too.
LEMMA LeftKeeps ==
  ASSUME BufferInv, NEW r \in Threads, NEW q \in Replies, Buffer!Set(r, Buffer!Left(q)),
         q.answers =< 1,
         \/ q.outer = "ended" /\ q.task \in {"done", "failed"}
         \/ AnsweredFor(q) /\ UnderLock(q) /\ (q.held => login = "active"),
         login' = login, ~leaked'
  PROVE  BufferInv'
  <1>1. CASE q.outer = "ended" /\ q.task \in {"done", "failed"}
    <2>1. PICK k \in {"none", "handshake", "poll"}, n \in Nat : k = q.kind /\ n = q.answers
      BY DEF Replies
    <2> DEFINE gone == [Buffer!Unused EXCEPT !.kind = k, !.outer = "ended", !.task = "done",
                                             !.cut = TRUE, !.answers = n]
    <2>2. gone \in Replies /\ ~gone.held /\ gone.cut /\ gone.task = "done" /\ gone.answers = n
          /\ gone.outer = "ended"
      BY UnusedOK DEF Replies
    <2>3. Buffer!Set(r, gone)
      BY <1>1, <2>1 DEF Buffer!Left, Buffer!Gone
    <2> HIDE DEF gone
    <2>4. AnsweredFor(gone) /\ UnderLock(gone)
      BY <2>1, <2>2 DEF AnsweredFor, UnderLock
    <2>5. QED
      BY <2>2, <2>3, <2>4, ReplyStep
  <1>2. CASE ~(q.outer = "ended" /\ q.task \in {"done", "failed"})
    BY <1>2, ReplyStep DEF Buffer!Left
  <1>3. QED
    BY <1>1, <1>2

LEMMA TaskStopsKeeps ==
  ASSUME BufferInv, NEW r \in Threads, Buffer!TaskStops(r)
  PROVE  BufferInv'
  <1> DEFINE new == [req[r] EXCEPT !.task = "done", !.held = FALSE]
  <1>1. /\ req[r] \in Replies /\ AnsweredFor(req[r]) /\ UnderLock(req[r])
        /\ login' = login /\ ~leaked' /\ Buffer!Set(r, Buffer!Left(new))
        /\ req[r].cut
    BY ReplyOK DEF Buffer!TaskStops, Buffer!Stay, BufferInv
  <1>2. /\ new \in Replies /\ ~new.held /\ new.task = "done" /\ new.kind = req[r].kind
        /\ new.ready = req[r].ready /\ new.parked = req[r].parked
        /\ new.outer = req[r].outer /\ new.cut = req[r].cut /\ new.reject = req[r].reject
        /\ new.answers = req[r].answers
    BY <1>1 DEF Replies
  <1>3. Buffer!Set(r, Buffer!Left(new))
    BY <1>1
  <1> HIDE DEF new
  <1>4. UnderLock(new)
    BY <1>2 DEF UnderLock
  <1>5. AnsweredFor(new) /\ new.answers =< 1
    BY <1>1, <1>2 DEF AnsweredFor
  <1>6. QED
    BY <1>1, <1>2, <1>3, <1>4, <1>5, LeftKeeps

\* A request ends with an answer only when nobody has answered for it.
LEMMA LeaveKeepsBuffer ==
  ASSUME BufferInv, NEW r \in Threads, NEW q \in Replies, NEW answered \in BOOLEAN,
         Buffer!Leave(r, q, answered), q.cut \/ q.task = "done", AnsweredFor(q), UnderLock(q),
         q.held => login = "active", answered => q.answers = 0
  PROVE  BufferInv'
  <1>1. PICK n \in Nat : n = q.answers + (IF answered THEN 1 ELSE 0)
    BY DEF Replies
  <1> DEFINE new == [q EXCEPT !.outer = "ended", !.head = 0, !.body = 0,
                              !.parked = FALSE, !.answers = n]
  <1>2. Buffer!Set(r, Buffer!Left(new)) /\ login' = login /\ ~leaked'
    BY <1>1 DEF Buffer!Leave, BufferInv
  <1>3. /\ new \in Replies /\ UnderLock(new) /\ (new.held => login = "active")
        /\ new.outer = "ended"
    BY DEF Replies, UnderLock
  <1>4. new.answers =< 1 /\ new.task = q.task /\ (q.cut => AnsweredFor(new))
    BY <1>1 DEF Replies, AnsweredFor
  <1> HIDE DEF new
  <1>5. QED
    BY <1>2, <1>3, <1>4, LeftKeeps

LEMMA EndsKeep ==
  ASSUME BufferInv, NEW r \in Threads,
         Buffer!GraceEnds(r) \/ Buffer!TaskFailed(r) \/ Buffer!TaskReturned(r)
  PROVE  BufferInv'
  <1>1. /\ req[r] \in Replies /\ AnsweredFor(req[r]) /\ UnderLock(req[r])
        /\ req[r].held => login = "active"
        /\ req[r].answers \in Nat
    BY ReplyOK DEF Replies
  <1>2. CASE Buffer!GraceEnds(r)
    <2>1. /\ req[r].outer = "grace" /\ req[r].cut /\ req[r].reject \in BOOLEAN
          /\ req[r].reject => req[r].answers = 0
      BY <1>1, <1>2 DEF Buffer!GraceEnds, AnsweredFor, Replies
    <2>2. PICK q \in Replies, j \in BOOLEAN : q = req[r] /\ j = req[r].reject
      BY <1>1, <2>1
    <2>3. Buffer!Leave(r, q, j)
      BY <1>2, <2>2 DEF Buffer!GraceEnds
    <2>4. QED
      BY <1>1, <2>1, <2>2, <2>3, LeaveKeepsBuffer
  <1>3. CASE Buffer!TaskFailed(r)
    <2> DEFINE new == [req[r] EXCEPT !.cut = TRUE]
    <2>a. /\ new \in Replies /\ new.cut /\ new.kind = req[r].kind /\ new.ok = req[r].ok
          /\ new.task = req[r].task /\ new.content = req[r].content
          /\ new.ready = req[r].ready /\ new.parked = req[r].parked
          /\ new.outer = req[r].outer /\ new.reject = req[r].reject
          /\ new.answers = req[r].answers /\ new.held = req[r].held
      BY <1>1 DEF Replies
    <2>b. UnderLock(new) /\ AnsweredFor(new)
      <3> HIDE DEF new
      <3>1. QED
        BY <1>1, <2>a DEF UnderLock, AnsweredFor
    <2>1. /\ new \in Replies /\ UnderLock(new) /\ new.cut /\ AnsweredFor(new)
          /\ new.held => login = "active"
      BY <1>1, <2>a, <2>b
    <2>2. new.answers = 0
      BY <1>1, <1>3 DEF Replies, AnsweredFor, Buffer!TaskFailed
    <2>3. PICK limit \in BOOLEAN : Buffer!Leave(r, new, limit)
      BY <1>3 DEF Buffer!TaskFailed
    <2> HIDE DEF new
    <2>4. QED
      BY <2>1, <2>2, <2>3, LeaveKeepsBuffer
  <1>4. CASE Buffer!TaskReturned(r)
    <2>0. req[r].outer = "waiting" /\ req[r].task = "done"
      BY <1>4 DEF Buffer!TaskReturned
    <2>1. PICK q \in Replies : q = req[r]
      BY <1>1
    <2> DEFINE answered == IF q.kind = "handshake" THEN ~q.ready ELSE q.parked /\ q.body = 0
    <2>2. answered \in BOOLEAN /\ (answered => q.answers = 0)
      <3>1. /\ q.ready \in BOOLEAN /\ q.parked \in BOOLEAN /\ q.answers \in Nat
            /\ q.outer = "waiting" /\ AnsweredFor(q)
        BY <1>1, <2>0, <2>1 DEF Replies
      <3>2. q.answers = 1 => ~q.parked /\ (q.kind = "handshake" => q.ready)
        BY <3>1 DEF AnsweredFor
      <3>3. q.answers =< 1
        BY <3>1 DEF AnsweredFor
      <3>4. answered => q.answers # 1
        BY <3>1, <3>2, Zenon
      <3>5. answered \in BOOLEAN
        BY <3>1, Zenon
      <3> HIDE DEF answered
      <3>6. QED
        BY <3>1, <3>3, <3>4, <3>5
    <2>3. Buffer!Leave(r, q, answered)
      BY <1>4, <2>1 DEF Buffer!TaskReturned
    <2> HIDE DEF answered
    <2>4. QED
      BY <1>1, <2>0, <2>1, <2>2, <2>3, LeaveKeepsBuffer
  <1>5. QED
    BY <1>2, <1>3, <1>4

\* The session ends only while nobody sends under its lock.
LEMMA RevokeKeeps ==
  ASSUME BufferInv, Buffer!Revoke
  PROVE  BufferInv'
  BY DEF BufferInv, Buffer!Revoke, Buffer!LockFree, AnsweredFor, UnderLock

LEMMA BufferStep == BufferInv /\ [Buffer!Next]_<<req, total, login, leaked>> => BufferInv'
  <1> SUFFICES ASSUME BufferInv, [Buffer!Next]_<<req, total, login, leaked>>
               PROVE  BufferInv'
    OBVIOUS
  <1>1. CASE UNCHANGED <<req, total, login, leaked>>
    BY <1>1 DEF BufferInv, AnsweredFor, UnderLock
  <1>2. CASE Buffer!Revoke
    BY <1>2, RevokeKeeps
  <1>3. ASSUME NEW r \in Threads, NEW k \in {"handshake", "poll"}, Buffer!Begin(r, k)
        PROVE  BufferInv'
    BY <1>3, RequestBegins
  <1>4. ASSUME NEW r \in Threads, NEW ok \in BOOLEAN, Buffer!Head(r, ok)
        PROVE  BufferInv'
    BY <1>4, HeadKeeps
  <1>5. ASSUME NEW r \in Threads, NEW c \in Buffer!Contents, NEW last \in BOOLEAN,
               Buffer!Piece(r, c, last)
        PROVE  BufferInv'
    BY <1>5, PieceKeeps
  <1>6. ASSUME NEW r \in Threads, Buffer!Authorise(r)
        PROVE  BufferInv'
    BY <1>6, AuthoriseKeeps
  <1>7. ASSUME NEW r \in Threads,
               Buffer!SendStart(r) \/ Buffer!SendRest(r) \/ Buffer!Drained(r)
        PROVE  BufferInv'
    BY <1>7, SendsKeep
  <1>8. ASSUME NEW r \in Threads, Buffer!Breaks(r) \/ Buffer!TimeOut(r)
        PROVE  BufferInv'
    BY <1>8, InterruptionsKeep
  <1>9. ASSUME NEW r \in Threads, Buffer!TaskStops(r)
        PROVE  BufferInv'
    BY <1>9, TaskStopsKeeps
  <1>10. ASSUME NEW r \in Threads,
                Buffer!GraceEnds(r) \/ Buffer!TaskFailed(r) \/ Buffer!TaskReturned(r)
         PROVE  BufferInv'
    BY <1>10, EndsKeep
  <1>11. QED
    BY <1>1, <1>2, <1>3, <1>4, <1>5, <1>6, <1>7, <1>8, <1>9, <1>10 DEF Buffer!Next

LEMMA BufferInit == Buffer!Init => BufferInv
  <1> SUFFICES ASSUME Buffer!Init PROVE BufferInv
    OBVIOUS
  <1>1. \A r \in Threads : req[r] = Buffer!Unused
    BY DEF Buffer!Init
  <1>2. req \in [Threads -> Replies]
    BY UnusedOK DEF Buffer!Init
  <1>3. AnsweredFor(Buffer!Unused) /\ UnderLock(Buffer!Unused)
    BY UnusedOK DEF AnsweredFor, UnderLock
  <1>4. QED
    BY <1>1, <1>2, <1>3, UnusedOK DEF BufferInv, Buffer!Init

\* Every HTTP response a request to the Socket.IO application leads to starts at
\* most once, though the task of Engine.IO may answer after the request has
\* (SocketIOLiveSendASGI of asgi.py).
THEOREM AnsweredAtMostOnce == Buffer!Spec => []Buffer!AnsweredOnce
  <1>1. BufferInv => Buffer!AnsweredOnce
    BY DEF BufferInv, AnsweredFor, Buffer!AnsweredOnce
  <1>2. QED
    BY <1>1, BufferInit, BufferStep, PTL DEF Buffer!Spec, Buffer!vars

\* The telemetry a poll's response holds back is not sent once the session was
\* revoked: what waits with telemetry in it waits under the role lock.
THEOREM NothingLeaks == Buffer!Spec => []Buffer!NothingHeldBackLeaks
  <1>1. BufferInv => Buffer!NothingHeldBackLeaks
    BY DEF BufferInv, Buffer!NothingHeldBackLeaks
  <1>2. QED
    BY <1>1, BufferInit, BufferStep, PTL DEF Buffer!Spec, Buffer!vars
=============================================================================
