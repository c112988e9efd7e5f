----------------------------- MODULE SessionLimit -----------------------------
(***************************************************************************)
(* _enforce_automation_session_limit (automation.py): a poll that lists    *)
(* more sessions of an account than its controls allow takes the account's *)
(* lock, reads controls, account and sessions again, and ends those beyond *)
(* the limit one by one, each after a look of its own.  Clients connect    *)
(* and leave between any two calls, and an operator saves other controls.  *)
(*                                                                         *)
(* RouterOS lists sessions in the order in which they came; a session is   *)
(* told from the next one in its row by its unique id, but the DELETE      *)
(* names the row only.                                                     *)
(***************************************************************************)
EXTENDS Naturals, Sequences, SequencesExt

CONSTANTS Rows, Limits,
          MaxSessions, MaxSaves, MaxMishaps  \* bounds

VARIABLES live,      \* the account's sessions, as they are listed
          row,       \* the row of every session so far
          limit,     \* max_sessions, as saved
          stage,     \* of the worker's pass over this account
          cap,       \* the limit it works with
          targets,   \* the sessions it has still to end
          owned,     \* it owns the account's lock
          gone,      \* ghost: a session left by itself since the worker's last look
          saves, mishaps

worker == <<stage, cap, targets, owned>>
vars == <<live, row, worker, limit, gone, saves, mishaps>>

Stages == {"idle", "waiting", "account", "list", "begin", "look", "delete", "readBack",
           "dead"}
Section == {"account", "list", "begin", "look", "delete", "readBack"}

TypeOK ==
  /\ ToSet(live) \subseteq DOMAIN row
  /\ \A s \in DOMAIN row : s \in 1..MaxSessions /\ row[s] \in Rows
  /\ limit \in Limits /\ cap \in Limits
  /\ stage \in Stages /\ owned \in BOOLEAN /\ gone \in BOOLEAN
  /\ saves \in 0..MaxSaves /\ mishaps \in 0..MaxMishaps
  /\ \A i, j \in DOMAIN live : i # j => row[live[i]] # row[live[j]]

Init ==
  /\ live = <<>> /\ row = <<>>
  /\ limit \in Limits /\ cap = limit
  /\ stage = "idle" /\ targets = <<>> /\ owned = FALSE
  /\ gone = FALSE /\ saves = 0 /\ mishaps = 0

Mishap == mishaps < MaxMishaps /\ mishaps' = mishaps + 1
Router == <<live, row>>

Goes(s) == stage' = s /\ UNCHANGED <<cap, targets, owned>>
EndPass == stage' = "idle" /\ cap' = limit /\ targets' = <<>> /\ owned' = FALSE

\* The sessions beyond the limit, of those listed.
BeyondByTwo(n) == SubSeq(live, n + 2, Len(live))  \* mutant: counted from 0
Beyond(n) == SubSeq(live, n + 1, Len(live))

-----------------------------------------------------------------------------
(* The worker                                                              *)

Poll ==
  /\ stage = "idle" /\ Len(live) > limit
  /\ stage' = "waiting" /\ cap' = limit /\ UNCHANGED <<targets, owned>>
  /\ UNCHANGED <<Router, limit, gone, saves, mishaps>>

\* Mutant: the limit of the poll is kept.
Observed == cap
Reread == limit

\* mutation_locks, and the controls read again under it.
Enter ==
  /\ stage = "waiting"
  /\ stage' = "account" /\ cap' = Reread /\ owned' = TRUE
  /\ UNCHANGED <<targets, Router, limit, gone, saves, mishaps>>

\* The account is as the poll had it; otherwise nothing is ended.
Account ==
  /\ stage = "account"
  /\ \/ Goes("list") /\ UNCHANGED mishaps
     \/ EndPass /\ Mishap
  /\ UNCHANGED <<Router, limit, gone, saves>>

List ==
  /\ stage = "list"
  /\ \/ Len(live) > cap /\ owned /\ UNCHANGED mishaps
        /\ stage' = "begin" /\ targets' = Beyond(cap) /\ UNCHANGED <<cap, owned>>
     \/ (Len(live) <= cap \/ ~owned) /\ EndPass /\ UNCHANGED mishaps
     \/ EndPass /\ Mishap
  /\ UNCHANGED <<Router, limit, gone, saves>>

\* _automation_terminate_sessions: a first list, or the pass is over.
Begin ==
  /\ stage = "begin"
  /\ \/ Goes("look") /\ UNCHANGED mishaps
     \/ EndPass /\ Mishap
  /\ UNCHANGED <<Router, limit, gone, saves>>

Next1 == stage' = "look" /\ targets' = Tail(targets) /\ UNCHANGED <<cap, owned>>

\* Mutant: what was beyond the limit when the targets were chosen is ended.
OnceBeyond == Head(targets) \in ToSet(live)
\* The target is still there, and still beyond the limit.
StillBeyond == Head(targets) \in ToSet(Beyond(cap))

\* The look before one session is ended; then the lock is asserted.
Look ==
  /\ stage = "look" /\ targets # <<>>
  /\ \/ StillBeyond /\ owned /\ Goes("delete") /\ UNCHANGED mishaps
     \/ StillBeyond /\ ~owned /\ EndPass /\ UNCHANGED mishaps
     \/ ~StillBeyond /\ Next1 /\ UNCHANGED mishaps
     \/ Next1 /\ Mishap
  /\ gone' = FALSE
  /\ UNCHANGED <<Router, limit, saves>>

\* Whatever holds the row goes; an error of the call is left to the readback.
Delete ==
  /\ stage = "delete"
  /\ Goes("readBack")
  /\ \/ live' = SelectSeq(live, LAMBDA s : row[s] # row[Head(targets)]) /\ UNCHANGED mishaps
     \/ UNCHANGED live /\ Mishap
  /\ UNCHANGED <<row, limit, gone, saves>>

\* Gone, still there or unknown: counted, and the next one looked at.
ReadBack ==
  /\ stage = "readBack"
  /\ Next1
  /\ UNCHANGED <<Router, limit, gone, saves, mishaps>>

Done ==
  /\ stage = "look" /\ targets = <<>>
  /\ EndPass
  /\ UNCHANGED <<Router, limit, gone, saves, mishaps>>

\* SQLite fails where only RouterOSError is caught.
Dies ==
  /\ stage \in Section \cup {"idle"} /\ Mishap
  /\ stage' = "dead" /\ cap' = limit /\ targets' = <<>> /\ owned' = FALSE
  /\ UNCHANGED <<Router, limit, gone, saves>>

Worker ==
  Poll \/ Enter \/ Account \/ List \/ Begin \/ Look \/ Delete \/ ReadBack \/ Done

-----------------------------------------------------------------------------
(* The rest of the world                                                   *)

Connect ==
  \E r \in Rows \ {row[s] : s \in ToSet(live)} :
    /\ Len(row) < MaxSessions
    /\ row' = Append(row, r) /\ live' = Append(live, Len(row'))
    /\ UNCHANGED <<worker, limit, gone, saves, mishaps>>

Disconnect ==
  \E s \in ToSet(live) :
    /\ live' = SelectSeq(live, LAMBDA t : t # s)
    /\ gone' = (gone \/ stage = "delete")
    /\ UNCHANGED <<row, worker, limit, saves, mishaps>>

\* An operator saves the controls under the account's lock.
Save ==
  /\ saves < MaxSaves /\ ~owned
  /\ limit' \in Limits \ {limit}
  /\ saves' = saves + 1
  /\ UNCHANGED <<Router, worker, gone, mishaps>>

\* The lease lapses under the worker, or Redis cannot tell.
LoseLock ==
  /\ owned /\ Mishap
  /\ owned' = FALSE
  /\ UNCHANGED <<Router, stage, cap, targets, limit, gone, saves>>

Next == Worker \/ Dies \/ Connect \/ Disconnect \/ Save \/ LoseLock

Spec == Init /\ [][Next]_vars
FairSpec == Spec /\ WF_vars(Worker)

-----------------------------------------------------------------------------
\* The worker ends no session within the limit: after a DELETE the account has
\* as many as the saved limit allows, whatever the list was that the poll saw,
\* unless one left by itself, or the lock did, since the look just before.
KeepsTheAllowedStep ==
  stage = "delete" /\ stage' = "readBack" /\ live' # live /\ owned /\ ~gone
    => Len(live') >= limit
KeepsTheAllowed == [][KeepsTheAllowedStep]_vars

\* An account comes down to its limit, though every call may fail once and the
\* worker gives up whenever the list, the account or the lock is not as it was.
LimitHolds == <>[](Len(live) <= limit \/ stage = "dead")
=============================================================================
