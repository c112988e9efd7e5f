--------------------------- MODULE MutationLocks ---------------------------
(***************************************************************************)
(* ReviewReceiptStore.resource_lock, resource_locks and mutation_locks     *)
(* (app.py 933-980): how a request locks several accounts at once.  A key  *)
(* is locked in two stages, first the stripe its hash selects among the    *)
(* process's re-entrant thread locks, then, when Redis is configured, its  *)
(* lease in Redis, which is waited for only so long.  A mutation takes the *)
(* provisioning gate, then its keys in sorted order, and lets the gate go; *)
(* provisioning takes the gate and its username and keeps both.            *)
(*                                                                         *)
(* What a lease does when Redis forgets it is in ReviewCoordination.       *)
(***************************************************************************)
EXTENDS Naturals

CONSTANTS Requests,    \* threads that serve a request, or the automation worker
          Processes,
          ProcessOf,   \* the process of each thread
          Keys,        \* locks of accounts and usernames, as sorted: numbers
          Slots,
          SlotOf,      \* the stripe of each key
          Nobody

Gate == 0   \* "vpn-user-provisioning-gate" sorts before every "vpn-username:"
AllKeys == Keys \cup {Gate}

LockAssumption ==
  /\ Keys \subseteq Nat \ {Gate}
  /\ ProcessOf \in [Requests -> Processes]
  /\ SlotOf \in [AllKeys -> Slots]
  /\ Nobody \notin Requests

VARIABLES at,     \* where each request stands
          keeps,  \* it is a provisioning: it keeps the gate
          wants,  \* the keys it takes, the gate among them
          got,    \* those it has
          half,   \* it has the stripe of its next key, not yet the lease
          lease,  \* the holder of each key's lease in Redis
          coordinated \* Redis is configured

vars == <<at, keeps, wants, got, half, lease, coordinated>>

TypeOK ==
  /\ at \in [Requests -> {"idle", "taking", "ungating", "inside", "done"}]
  /\ keeps \in [Requests -> BOOLEAN]
  /\ wants \in [Requests -> SUBSET AllKeys]
  /\ got \in [Requests -> SUBSET AllKeys]
  /\ half \in [Requests -> BOOLEAN]
  /\ lease \in [AllKeys -> Requests \cup {Nobody}]
  /\ coordinated \in BOOLEAN

Init ==
  /\ at = [r \in Requests |-> "idle"]
  /\ keeps = [r \in Requests |-> FALSE]
  /\ wants = [r \in Requests |-> {}]
  /\ got = [r \in Requests |-> {}]
  /\ half = [r \in Requests |-> FALSE]
  /\ lease = [k \in AllKeys |-> Nobody]
  /\ coordinated \in BOOLEAN

-----------------------------------------------------------------------------
(* The key a request takes next is the first, in order, that it lacks.     *)

\* Mutant: the gate is taken last.
IsNextFromTheTop(r, k) ==
  /\ k \in wants[r] \ got[r]
  /\ \A other \in wants[r] \ got[r] : k >= other

IsNext(r, k) ==
  /\ k \in wants[r] \ got[r]
  /\ \A other \in wants[r] \ got[r] : k =< other

\* A stripe is held for every key on it: of those the request has, and of the
\* one whose lease it waits for.
HoldsStripe(r, slot) ==
  \/ \E k \in got[r] : SlotOf[k] = slot
  \/ half[r] /\ \E k \in AllKeys : IsNext(r, k) /\ SlotOf[k] = slot

InTheWay(r, s, slot) ==
  s # r /\ ProcessOf[s] = ProcessOf[r] /\ HoldsStripe(s, slot)

StripeFree(r, slot) == \A s \in Requests : ~InTheWay(r, s, slot)

\* When the last key is there, mutation_locks leaves the gate.
After(r, k) ==
  IF wants[r] = got[r] \cup {k} THEN IF keeps[r] THEN "inside" ELSE "ungating"
  ELSE "taking"

Takes(r, k) ==
  /\ got' = [got EXCEPT ![r] = @ \cup {k}]
  /\ at' = [at EXCEPT ![r] = After(r, k)]
  /\ UNCHANGED <<keeps, wants, coordinated>>

Without(r, keys) ==
  [k \in AllKeys |-> IF k \in keys /\ lease[k] = r THEN Nobody ELSE lease[k]]

\* Both context stacks are closed.
LetGo(r) ==
  /\ at' = [at EXCEPT ![r] = "done"]
  /\ got' = [got EXCEPT ![r] = {}]
  /\ half' = [half EXCEPT ![r] = FALSE]
  /\ lease' = Without(r, AllKeys)
  /\ UNCHANGED <<keeps, wants, coordinated>>

-----------------------------------------------------------------------------
\* Mutant: the keys are taken without the gate.
Ungated(keys) == keys
Behind(keys) == keys \cup {Gate}

\* mutation_locks for some accounts; resource_locks for gate and username.
Begin(r) ==
  /\ at[r] = "idle"
  /\ \E keys \in SUBSET Keys, provisions \in BOOLEAN :
       /\ keys # {} /\ (provisions => \E k \in Keys : keys = {k})
       /\ wants' = [wants EXCEPT ![r] = Behind(keys)]
       /\ keeps' = [keeps EXCEPT ![r] = provisions]
  /\ at' = [at EXCEPT ![r] = "taking"]
  /\ UNCHANGED <<got, half, lease, coordinated>>

TakeStripe(r) ==
  /\ at[r] = "taking" /\ ~half[r]
  /\ \E k \in AllKeys :
       /\ IsNext(r, k) /\ StripeFree(r, SlotOf[k])
       /\ IF coordinated
          THEN half' = [half EXCEPT ![r] = TRUE] /\ UNCHANGED <<at, keeps, wants, got, coordinated>>
          ELSE Takes(r, k) /\ UNCHANGED half
  /\ UNCHANGED lease

\* Mutant: the answer of Redis is not looked at.
AnyLease(k) == TRUE
LeaseFree(k) == lease[k] = Nobody

TakeLease(r) ==
  /\ at[r] = "taking" /\ half[r]
  /\ \E k \in AllKeys :
       /\ IsNext(r, k) /\ LeaseFree(k)
       /\ lease' = [lease EXCEPT ![k] = r]
       /\ Takes(r, k)
  /\ half' = [half EXCEPT ![r] = FALSE]

\* The lease was not to be had in time, or Redis did not answer.
GiveUp(r) == at[r] = "taking" /\ half[r] /\ LetGo(r)

Ungate(r) ==
  /\ at[r] = "ungating"
  /\ at' = [at EXCEPT ![r] = "inside"]
  /\ got' = [got EXCEPT ![r] = @ \ {Gate}]
  /\ lease' = Without(r, {Gate})
  /\ UNCHANGED <<keeps, wants, half, coordinated>>

\* The request has done what it locked the accounts for.
Leave(r) == at[r] = "inside" /\ LetGo(r)

Step(r) == TakeStripe(r) \/ TakeLease(r) \/ Ungate(r) \/ Leave(r)

Next == \E r \in Requests : Begin(r) \/ Step(r) \/ GiveUp(r)

Spec == Init /\ [][Next]_vars

\* A thread that can run does run, and a request ends by itself.  Nothing is
\* assumed of the wait for a lease: it need not time out.
FairSpec == Spec /\ \A r \in Requests : WF_vars(Step(r))

-----------------------------------------------------------------------------
\* No key is held twice: within a process by its stripe, across processes by
\* its lease (app.py:944-953).
KeyHeldOnce ==
  \A r, s \in Requests : \A k \in got[r] \cap got[s] :
     r = s \/ (~coordinated /\ ProcessOf[r] # ProcessOf[s])

\* Whom a request waits for.
WaitsFor(r, s) ==
  /\ r # s /\ at[r] = "taking"
  /\ \E k \in AllKeys :
       /\ IsNext(r, k)
       /\ IF half[r] THEN lease[k] = s ELSE InTheWay(r, s, SlotOf[k])

\* How far a request is from having all it needs.
Distance(r) ==
  CASE at[r] # "taking" -> 0
    [] at[r] = "taking" /\ Gate \in got[r] -> 1
    [] at[r] = "taking" /\ Gate \notin got[r] /\ half[r] -> 2
    [] OTHER -> 3

\* Requests never wait for each other in a circle, although the order of the
\* keys is not the order of their stripes: who is waited for is always nearer
\* to having all it needs (app.py:955-980).
WaitsLeadOut == \A r, s \in Requests : WaitsFor(r, s) => Distance(s) < Distance(r)

\* Every request gets through or gives up.
RequestsGetThrough == \A r \in Requests : []<>(at[r] # "taking")
=============================================================================
