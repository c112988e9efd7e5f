--------------------------- MODULE ReviewedChanges ---------------------------
(***************************************************************************)
(* What the review of account changes promises, without Redis, leases,     *)
(* revisions or processes: a change an operator reviewed is approved once, *)
(* against the account it was reviewed on, and the write it leads to       *)
(* replaces that very state.  The promise is void for an account while it  *)
(* is exposed (the lock of a worker that was changing it has been lost),   *)
(* and a worker cannot foresee an edit made on the router itself.          *)
(***************************************************************************)
EXTENDS Naturals

CONSTANTS Workers, Accounts, Settings,
          None              \* no review, no grant

VARIABLES
    setting,     \* the state of each account on the router
    changes,     \* changes approved on each account so far
    review,      \* the review a worker holds, or None
    grant,       \* the approved change a worker is about to write, or None
    exposed,     \* accounts whose lock was lost under a worker
    tampered     \* workers whose account was edited on the router meanwhile

vars == <<setting, changes, review, grant, exposed, tampered>>

Granted(a) == {w \in Workers : grant[w] # None /\ grant[w].account = a}

Init ==
    /\ setting \in [Accounts -> Settings]
    /\ changes = [a \in Accounts |-> 0]
    /\ review = [w \in Workers |-> None]
    /\ grant = [w \in Workers |-> None]
    /\ exposed = {} /\ tampered = {}

\* An operator is shown state s of account a, after all changes so far.
Review(w, a, s) ==
    /\ review' = [review EXCEPT ![w] =
          [account |-> a, setting |-> s, seen |-> changes[a]]]
    /\ tampered' \in {tampered, tampered \ {w}}
    /\ grant[w] = None
    /\ UNCHANGED <<setting, changes, grant, exposed>>

Discard(w) ==
    /\ review' = [review EXCEPT ![w] = None]
    /\ UNCHANGED <<setting, changes, grant, exposed, tampered>>

\* A change on account a is about to replace its present state, alone.
Grant(w, a) ==
    /\ grant[w] = None
    /\ Granted(a) = {} \/ a \in exposed
    /\ changes' = [changes EXCEPT ![a] = @ + 1]
    /\ \E s \in Settings :
        /\ s = setting[a] \/ a \in exposed \/ w \in tampered
        /\ grant' = [grant EXCEPT ![w] = [account |-> a, setting |-> s]]
    /\ UNCHANGED <<setting, exposed, tampered>>

\* The reviewed change: nothing was approved on the account since the review,
\* and what it will replace is what was reviewed.
Approve(w) ==
    /\ review[w] # None
    /\ LET a == review[w].account IN
        /\ review[w].seen = changes[a] \/ a \in exposed
        /\ Grant(w, a)
        /\ grant'[w].setting = review[w].setting
    /\ review' = [review EXCEPT ![w] = None]

\* A change without a review, by the automation or a bulk action.
Override(w) ==
    /\ \E a \in Accounts : Grant(w, a)
    /\ UNCHANGED review

\* A change counted and abandoned: reviews of the account are void all the same.
Spoil(a) ==
    /\ changes' = [changes EXCEPT ![a] = @ + 1]
    /\ UNCHANGED <<setting, review, grant, exposed, tampered>>

Write(w) ==
    /\ grant[w] # None
    /\ LET a == grant[w].account IN
        /\ setting[a] = grant[w].setting \/ a \in exposed \/ w \in tampered
        /\ \E s \in Settings : setting' = [setting EXCEPT ![a] = s]
    /\ grant' = [grant EXCEPT ![w] = None]
    /\ UNCHANGED <<changes, review, exposed, tampered>>

Withdraw(w) ==
    /\ grant' = [grant EXCEPT ![w] = None]
    /\ UNCHANGED <<setting, changes, review, exposed, tampered>>

EditOnRouter(a) ==
    /\ \E s \in Settings : setting' = [setting EXCEPT ![a] = s]
    /\ tampered \subseteq tampered' /\ Granted(a) \subseteq tampered'
    /\ UNCHANGED <<changes, review, grant, exposed>>

\* Locks get lost at any time; an account is safe again, and an edit on the
\* router forgotten, when nobody is about to write.
Disturb ==
    /\ \A a \in exposed \ exposed' : Granted(a) = {}
    /\ \A w \in tampered \ tampered' : grant[w] = None
    /\ UNCHANGED <<setting, changes, review, grant>>

\* Workers die together; the writes they had under way may be carried out.
Die(dead) ==
    LET at == {grant[w].account : w \in {v \in dead : grant[v] # None}} IN
    /\ review' = [w \in Workers |-> IF w \in dead THEN None ELSE review[w]]
    /\ grant' = [w \in Workers |-> IF w \in dead THEN None ELSE grant[w]]
    /\ \A a \in Accounts \ at : setting'[a] = setting[a]
    /\ setting' \in [Accounts -> Settings]
    /\ \A a \in exposed \ exposed' : Granted(a) \subseteq dead
    /\ \A w \in tampered \ tampered' : w \in dead
    /\ UNCHANGED changes

Next ==
    \/ \E w \in Workers :
        \/ \E a \in Accounts, s \in Settings : Review(w, a, s)
        \/ Discard(w) \/ Approve(w) \/ Override(w) \/ Write(w) \/ Withdraw(w)
    \/ \E a \in Accounts : Spoil(a) \/ EditOnRouter(a)
    \/ Disturb
    \/ \E dead \in SUBSET Workers : Die(dead)

Spec == Init /\ [][Next]_vars
=============================================================================
