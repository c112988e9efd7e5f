--------------------------- MODULE ProfileShares ---------------------------
(***************************************************************************)
(* The links a new profile is handed out by (app.py, ProfileShareStore and *)
(* the handlers that use it): made, published in the answer to their       *)
(* maker, downloaded with a passcode, locked by wrong ones, expired, and   *)
(* discarded at shutdown.  A method runs under the store's lock and is one *)
(* step; a handler calls several, and anything may happen between them.    *)
(***************************************************************************)
EXTENDS Naturals, FiniteSets

CONSTANTS Clients,         \* handlers of downloads
          Shares,          \* ids of shares, never used twice
          MaxDownloads,    \* max_downloads
          MaxFailures,     \* max_failed_attempts
          MaxTakes         \* bound on attempts to download

\* The limits of the class: 3 downloads and 5 wrong codes.
ShareAssumption == MaxDownloads \in Nat \ {0} /\ MaxFailures \in Nat \ {0}

VARIABLES items,       \* _items: by id, downloads, failed attempts and the lock
          overdue,     \* shares past expires_at, purged or not
          closed,      \* _closed
          made,        \* share ids drawn so far
          published,   \* links told to their maker
          step,        \* what each client's handler does next, and on which share
          delivered,   \* ghost: archives sent, per share
          wrong,       \* ghost: wrong codes counted since the last lock or download
          takes

vars == <<items, overdue, closed, made, published, step, delivered, wrong, takes>>

Held == DOMAIN items
Item == [downloads : 0..(MaxDownloads - 1), failed : 0..(MaxFailures - 1),
         locked : {"no", "locked", "over"}]
Fresh == [downloads |-> 0, failed |-> 0, locked |-> "no"]
Points == {"idle", "refused", "wrongCode"}
Answers == {"none", "archive", "gone", "tryAgain", "wait"}
TypeOK ==
  /\ overdue \subseteq made /\ published \subseteq made /\ made \subseteq Shares
  /\ Held \subseteq made /\ \A s \in Held : items[s] \in Item
  /\ closed \in BOOLEAN
  /\ step \in [Clients -> [at : Points, share : Shares, answer : Answers]]
  /\ delivered \in [Shares -> Nat] /\ wrong \in [Shares -> Nat]

Resting == [at |-> "idle", share |-> CHOOSE s \in Shares : TRUE, answer |-> "none"]

Init ==
  /\ items = [s \in {} |-> Fresh] /\ overdue = {} /\ closed = FALSE
  /\ made = {} /\ published = {}
  /\ step = [c \in Clients |-> Resting]
  /\ delivered = [s \in Shares |-> 0] /\ wrong = [s \in Shares |-> 0]
  /\ takes = 0

-----------------------------------------------------------------------------
\* Mutant: only the share asked for is purged.
PurgedLazily(s) == items
\* _purge, before every look-up
Purged(s) == [t \in Held \ overdue |-> items[t]]

Without(f, s) == [t \in DOMAIN f \ {s} |-> f[t]]
With(f, s, item) == [t \in DOMAIN f \cup {s} |-> IF t = s THEN item ELSE f[t]]

\* put; refused once the store is closed
Put(s) ==
  /\ s \notin made
  /\ made' = made \cup {s}
  /\ items' = IF closed THEN items ELSE With(Purged(s), s, Fresh)
  /\ UNCHANGED <<overdue, closed, published, step, delivered, wrong, takes>>

\* Mutant: the response is written whatever became of the share.
OpenOnce(s) == TRUE
Open(s) == ~closed /\ s \in DOMAIN Purged(s)
\* publish_if_open: the response is written under the lock, or a refusal is.
Publish(s) ==
  /\ s \in made \ published
  /\ items' = IF closed THEN items ELSE Purged(s)
  /\ Open(s) /\ published' = published \cup {s}
  /\ UNCHANGED <<overdue, closed, made, step, delivered, wrong, takes>>

\* Mutant: a wrong code during the lock starts the count again.
AfterWrongRestarted(item) ==
  IF item.failed + 1 >= MaxFailures THEN [item EXCEPT !.failed = 0, !.locked = "locked"]
  ELSE [item EXCEPT !.failed = IF item.locked = "no" THEN @ + 1 ELSE 0, !.locked = "no"]
\* take, with a code that is wrong
AfterWrong(item) ==
  LET failed == IF item.locked = "over" THEN 1 ELSE item.failed + 1 IN
  CASE item.locked = "locked" -> item
    [] item.locked # "locked" /\ failed >= MaxFailures ->
         [item EXCEPT !.failed = 0, !.locked = "locked"]
    [] OTHER -> [item EXCEPT !.failed = failed, !.locked = "no"]

\* Mutant: the last download leaves the share where it is.
AfterRightKept(f, s) ==
  With(f, s, [downloads |-> IF f[s].downloads + 1 < MaxDownloads THEN f[s].downloads + 1
                            ELSE f[s].downloads, failed |-> 0, locked |-> "no"])
AfterRight(f, s) ==
  IF f[s].downloads + 1 >= MaxDownloads THEN Without(f, s)
  ELSE With(f, s, [downloads |-> f[s].downloads + 1, failed |-> 0, locked |-> "no"])

\* _shared_profile: take
Take(c, s, right) ==
  LET f == Purged(s) IN
  /\ step[c].at = "idle" /\ takes < MaxTakes /\ takes' = takes + 1
  /\ \/ /\ s \in DOMAIN f /\ right
        /\ items' = AfterRight(f, s)
        /\ delivered' = [delivered EXCEPT ![s] = @ + 1]
        /\ wrong' = [wrong EXCEPT ![s] = 0]
        /\ step' = [step EXCEPT ![c] = [at |-> "idle", share |-> s, answer |-> "archive"]]
     \/ /\ s \in DOMAIN f /\ ~right
        /\ items' = With(f, s, AfterWrong(f[s]))
        /\ wrong' = [wrong EXCEPT ![s] = IF f[s].locked = "locked" THEN @
                                         ELSE IF AfterWrong(f[s]).locked = "locked" THEN 0
                                         ELSE IF f[s].locked = "over" THEN 1 ELSE @ + 1]
        /\ step' = [step EXCEPT ![c] = [at |-> "refused", share |-> s, answer |-> "none"]]
        /\ UNCHANGED delivered
     \/ /\ s \notin DOMAIN f
        /\ items' = f
        /\ step' = [step EXCEPT ![c] = [at |-> "refused", share |-> s, answer |-> "none"]]
        /\ UNCHANGED <<delivered, wrong>>
  /\ UNCHANGED <<overdue, closed, made, published>>

\* _shared_profile: is_available, then is_locked
Available(c) ==
  LET s == step[c].share IN
  /\ step[c].at = "refused"
  /\ items' = Purged(s)
  /\ step' = [step EXCEPT ![c] = IF s \in DOMAIN Purged(s)
                THEN [@ EXCEPT !.at = "wrongCode"]
                ELSE [@ EXCEPT !.at = "idle", !.answer = "gone"]]
  /\ UNCHANGED <<overdue, closed, made, published, delivered, wrong, takes>>

\* is_locked, without a purge; then the landing page, which asks once more
\* whether the share is there.
Landing(c) ==
  LET s == step[c].share
      locked == s \in Held /\ items[s].locked = "locked" IN
  /\ step[c].at = "wrongCode"
  /\ items' = Purged(s)
  /\ step' = [step EXCEPT ![c] = [@ EXCEPT !.at = "idle",
                !.answer = IF s \notin DOMAIN Purged(s) THEN "gone"
                           ELSE IF locked THEN "wait" ELSE "tryAgain"]]
  /\ UNCHANGED <<overdue, closed, made, published, delivered, wrong, takes>>

\* Time: a share's ten minutes, a lock's one minute, the purge thread's turn.
Lapse(s) ==
  /\ s \in Held \ overdue
  /\ overdue' = overdue \cup {s}
  /\ items' = IF items[s].locked = "locked"
                THEN With(items, s, [items[s] EXCEPT !.locked = "over"]) ELSE items
  /\ UNCHANGED <<closed, made, published, step, delivered, wrong, takes>>
Unlock(s) ==
  /\ s \in Held /\ items[s].locked = "locked"
  /\ items' = With(items, s, [items[s] EXCEPT !.locked = "over"])
  /\ UNCHANGED <<overdue, closed, made, published, step, delivered, wrong, takes>>
PurgeThread ==
  /\ Held \cap overdue # {}
  /\ items' = [s \in Held \ overdue |-> items[s]]
  /\ UNCHANGED <<overdue, closed, made, published, step, delivered, wrong, takes>>

Close ==
  /\ ~closed /\ closed' = TRUE
  /\ items' = [s \in {} |-> Fresh]
  /\ UNCHANGED <<overdue, made, published, step, delivered, wrong, takes>>

Next ==
  \/ \E s \in Shares : Put(s) \/ Publish(s) \/ Lapse(s) \/ Unlock(s)
  \/ \E c \in Clients :
       \/ \E s \in made, right \in BOOLEAN : Take(c, s, right)
       \/ Available(c) \/ Landing(c)
  \/ PurgeThread \/ Close

Spec == Init /\ [][Next]_vars

-----------------------------------------------------------------------------
(* What it promises.                                                       *)

\* A share is downloaded at most MaxDownloads times, however its clients and
\* their wrong codes interleave.
DownloadsBounded == \A s \in Shares : delivered[s] <= MaxDownloads

\* Nothing is downloaded past the ten minutes of its share or a shutdown.
NothingLateStep ==
  \A s \in Shares : delivered'[s] # delivered[s] => s \notin overdue /\ ~closed
NothingLate == [][NothingLateStep]_vars

\* Fewer than MaxFailures wrong codes are tried between two locks or downloads.
WrongCodesLock == \A s \in Held : wrong[s] < MaxFailures

\* A link is published only while it can be used, and a client is told that it is
\* gone only when it is: it never comes back.
LinksAreHonestStep ==
  /\ \A s \in published' \ published : s \in Held /\ s \notin overdue /\ ~closed
  /\ \A c \in Clients : step[c].answer = "gone" /\ step'[c] = step[c]
       => step[c].share \notin DOMAIN items'
LinksAreHonest == [][LinksAreHonestStep]_vars
=============================================================================
