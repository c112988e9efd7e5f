-------------------------- MODULE ReleasePromotion --------------------------
(***************************************************************************)
(* How a release reaches production.  A script on the router puts the      *)
(* stable image on the canary and stages it after a soak; an operator      *)
(* collects evidence while both containers run; the promotion controller,  *)
(* on the operator's machine, checks evidence, router and staged record,   *)
(* then updates production over REST, one command at a time, and puts the  *)
(* prior image back when something fails.  Meanwhile operators change      *)
(* containers by hand.  A REST command may be lost, carried out without an *)
(* answer, or the controller killed.                                       *)
(***************************************************************************)
EXTENDS Naturals

CONSTANTS Images, None,    \* an image stands for its revision and digest
          First,           \* the image both containers begin with
          Samples,         \* samples of a soak, and of a window of evidence
          RetryLimit,      \* failureRetryLimit, and failure-count of a quarantine
          MaxManual, MaxMishaps, MaxReleases, MaxPromotions   \* bounds

ReleaseAssumption ==
  /\ First \in Images /\ None \notin Images
  /\ Samples \in Nat /\ RetryLimit \in Nat \ {0}

VARIABLES box,        \* the containers: remote-image, installed root, lifecycle
          stable,     \* the image the release manifest names
          pending, lastGood, failure,   \* the three router-local files
          updater,    \* the updater's run
          window,     \* evidence: images, samples taken
          job,        \* the promotion controller
          outcome,    \* what the controller printed last
          soaked,     \* ghost: images the canary itself ran during a whole soak
          steady,     \* ghost: the canary ran the candidate at every sample so far
          served,     \* ghost: images production has run
          touched,    \* ghost: production changed by hand since the promotion began
          manual, mishaps, releases, promotions

routerVars == <<box, pending, lastGood, failure, served>>
ghosts == <<soaked, steady, touched>>
bounds == <<manual, mishaps, releases, promotions>>
vars == <<routerVars, stable, updater, window, job, outcome, ghosts, bounds>>

Boxes == {"canary", "production"}
Stages == {"idle", "poll", "soak", "stage", "rollback"}
\* The controller's checks before its first write, in order
Checks == <<"records", "staged", "canaryReady", "productionReady", "records2", "staged2">>
\* deploy's steps, in order; then the controller's
DeploySteps == {"find", "stop", "stopped", "patch", "update", "updated", "start", "started"}
Points == {"idle"} \cup {Checks[i] : i \in DOMAIN Checks} \cup DeploySteps
          \cup {"probe", "record", "look", "ready", "reset", "quarantine"}
Idle == [at |-> "idle", mode |-> "forward", undo |-> FALSE, cand |-> None,
         prior |-> None, back |-> None]
NoRun == [at |-> "idle", image |-> None, prod |-> None, restore |-> None, n |-> 0]
NoWindow == [cand |-> None, prior |-> None, n |-> 0]
Running(i) == [remote |-> i, root |-> i, status |-> "running"]

TypeOK ==
  /\ box \in [Boxes -> [remote : Images, root : Images,
                        status : {"running", "stopping", "stopped", "pulling", "failed"}]]
  /\ stable \in Images
  /\ pending \in [cand : Images \cup {None}, prior : Images \cup {None}]
  /\ lastGood \in Images \cup {None}
  /\ failure \in [image : Images \cup {None}, count : 0..RetryLimit]
  /\ updater.at \in Stages /\ window.n \in 0..Samples
  /\ job.at \in Points /\ job.mode \in {"forward", "restore"} /\ job.undo \in BOOLEAN
  /\ outcome \in {"none", "refused", "promoted", "restored", "operator", "unrecorded"}

Init ==
  /\ box = [b \in Boxes |-> Running(First)] /\ stable = First
  /\ pending = [cand |-> None, prior |-> None] /\ lastGood = None
  /\ failure = [image |-> None, count |-> 0]
  /\ updater = NoRun /\ window = NoWindow /\ job = Idle /\ outcome = "none"
  /\ soaked = {} /\ steady = TRUE /\ served = {First} /\ touched = FALSE
  /\ manual = 0 /\ mishaps = 0 /\ releases = 0 /\ promotions = 0

-----------------------------------------------------------------------------
\* /readyz answers "ready" and the revision of image i; it may always fail to.
CanBeReady(b, i) == box[b].status = "running" /\ box[b].root = i

\* The files and the ghost of production after a change of the containers
Boxed(new) ==
  /\ box' = new
  /\ served' = served \cup (IF new["production"].status = "running"
                             THEN {new["production"].root} ELSE {})

\* A release is published: the stable manifest names another image.
Publish(i) ==
  /\ releases < MaxReleases /\ releases' = releases + 1 /\ stable' = i
  /\ UNCHANGED <<routerVars, updater, window, job, outcome, ghosts, manual,
                 mishaps, promotions>>

\* An operator sets a container by hand, to any image.
ByHand(b, i) ==
  /\ manual < MaxManual /\ manual' = manual + 1
  /\ Boxed([box EXCEPT ![b] = Running(i)])
  /\ touched' = (touched \/ b = "production")
  /\ UNCHANGED <<pending, lastGood, failure, stable, updater, window, job, outcome,
                 soaked, steady, mishaps, releases, promotions>>

\* rollback-last-good: the image of the journal, unless production names it;
\* `healthy` asks for no revision, and nothing is put back.
RollbackLastGood ==
  /\ manual < MaxManual /\ manual' = manual + 1
  /\ lastGood # None /\ box["production"].remote # lastGood
  /\ \E s \in {"running", "failed"} :
       Boxed([box EXCEPT !["production"] =
                [remote |-> lastGood, root |-> IF s = "running" THEN lastGood ELSE @.root,
                 status |-> s]])
  /\ touched' = TRUE
  /\ UNCHANGED <<pending, lastGood, failure, stable, updater, window, job, outcome,
                 soaked, steady, mishaps, releases, promotions>>

\* The operator reviews a quarantined candidate and removes the .failed file.
ClearFailure ==
  /\ manual < MaxManual /\ manual' = manual + 1 /\ failure.image # None
  /\ failure' = [image |-> None, count |-> 0]
  /\ UNCHANGED <<box, pending, lastGood, served, stable, updater, window, job, outcome,
                 ghosts, mishaps, releases, promotions>>

-----------------------------------------------------------------------------
(* The updater: a scheduled script on the router, one run at a time.       *)
updaterOnly == <<stable, window, job, outcome, touched, bounds>>

Quarantined(i) == failure.image = i /\ failure.count >= RetryLimit
Staged(i) ==
  /\ box["canary"].remote = i /\ pending.cand = i
  /\ pending.prior = box["production"].remote

\* A run that is not skipped: the canary is stopped, set, updated and started;
\* when that fails it goes on to the rollback.
BeginRun ==
  LET i == stable IN
  /\ updater.at = "idle"
  /\ ~Quarantined(i) /\ box["production"].remote # i /\ ~Staged(i)
  /\ \E next \in {"poll", "rollback"}, s \in {"running", "stopped", "failed"} :
       /\ next = "poll" => s = "running"
       /\ Boxed([box EXCEPT !["canary"] =
                   IF s = "running" THEN Running(i)
                   ELSE [remote |-> i, root |-> @.root, status |-> s]])
       /\ updater' = [at |-> next, image |-> i, prod |-> box["production"].remote,
                      restore |-> box["canary"].remote, n |-> 0]
  /\ UNCHANGED <<pending, lastGood, failure, soaked, steady, updaterOnly>>

\* Readiness within pollAttempts, or the rollback
PollCanary ==
  /\ updater.at = "poll"
  /\ \/ /\ CanBeReady("canary", updater.image)
        /\ updater' = [updater EXCEPT !.at = "soak"] /\ steady' = TRUE
     \/ updater' = [updater EXCEPT !.at = "rollback"] /\ UNCHANGED steady
  /\ UNCHANGED <<routerVars, soaked, updaterOnly>>

\* Mutant: a soak sample does not compare the revision.
SoakSampleAny == box["canary"].status = "running"
SoakSample == CanBeReady("canary", updater.image)

\* One sample of the soak; any that fails rejects the candidate.
Soak ==
  /\ updater.at = "soak"
  /\ \/ /\ SoakSample
        /\ updater' = [updater EXCEPT !.n = @ + 1,
                         !.at = IF updater.n + 1 = Samples THEN "stage" ELSE "soak"]
        /\ steady' = (steady /\ box["canary"] = Running(updater.image))
     \/ updater' = [updater EXCEPT !.at = "rollback"] /\ UNCHANGED steady
  /\ UNCHANGED <<routerVars, soaked, updaterOnly>>

\* The pending file names the production image read when the run began.
Stage ==
  /\ updater.at = "stage"
  /\ \/ pending' = [cand |-> updater.image, prior |-> updater.prod]
     \/ UNCHANGED pending                      \* the write fails
  /\ soaked' = IF steady THEN soaked \cup {updater.image} ELSE soaked
  /\ updater' = NoRun
  /\ UNCHANGED <<box, lastGood, failure, served, steady, updaterOnly>>

\* The canary's image is put back, with or without success; recordFailure.
RollBackCanary ==
  /\ updater.at = "rollback"
  /\ \/ Boxed([box EXCEPT !["canary"] = Running(updater.restore)])
     \/ Boxed([box EXCEPT !["canary"].status = "failed"])
  /\ failure' = [image |-> updater.image,
                 count |-> IF failure.image = updater.image /\ failure.count < RetryLimit
                           THEN failure.count + 1
                           ELSE IF failure.image = updater.image THEN RetryLimit ELSE 1]
  /\ updater' = NoRun
  /\ UNCHANGED <<pending, lastGood, soaked, steady, updaterOnly>>

\* The router restarts, or the script job ends: the run is given up.
InterruptRun ==
  /\ updater.at # "idle" /\ mishaps < MaxMishaps /\ mishaps' = mishaps + 1
  /\ updater' = NoRun
  /\ UNCHANGED <<routerVars, stable, window, job, outcome, ghosts, manual, releases,
                 promotions>>

-----------------------------------------------------------------------------
(* Acceptance evidence: the images are the operator's, the samples real.   *)
evidenceOnly == <<routerVars, stable, updater, job, outcome, ghosts, bounds>>

BeginCollection(cand, prior) ==
  /\ window = NoWindow /\ cand # prior /\ job.at = "idle"
  /\ window' = [cand |-> cand, prior |-> prior, n |-> 0]
  /\ UNCHANGED evidenceOnly

\* A failed sample fails the collection; evidence that passed goes stale.
SampleBoth ==
  /\ window # NoWindow
  /\ \/ /\ window.n < Samples
        /\ CanBeReady("canary", window.cand) /\ CanBeReady("production", window.prior)
        /\ window' = [window EXCEPT !.n = @ + 1]
     \/ window' = NoWindow
  /\ UNCHANGED evidenceOnly

Eligible == window # NoWindow /\ window.n = Samples

-----------------------------------------------------------------------------
(* The promotion controller.                                               *)
controllerOnly == <<stable, updater, window, soaked, steady, manual, releases>>

\* The controller ends; what it was about is kept for its answer.
End(o) == job' = [Idle EXCEPT !.cand = job.cand, !.prior = job.prior] /\ outcome' = o
Go(p) == job' = [job EXCEPT !.at = p] /\ UNCHANGED outcome

BeginPromotion ==
  /\ job.at = "idle" /\ promotions < MaxPromotions /\ promotions' = promotions + 1
  /\ IF Eligible
     THEN /\ job' = [Idle EXCEPT !.at = "records", !.cand = window.cand,
                                 !.prior = window.prior]
          /\ outcome' = "none"
     ELSE End("refused")
  /\ touched' = FALSE
  /\ UNCHANGED <<routerVars, mishaps, controllerOnly>>

Matches ==
  /\ box["canary"].remote = job.cand /\ box["production"].remote = job.prior
  /\ \A b \in Boxes : box[b].status = "running"

\* Mutant: the staging record of the updater is not compared.
StagedUnread == TRUE
StagedRecord == pending.cand = job.cand /\ pending.prior = job.prior

\* A check passes as the router then is, or the promotion is refused.
Check ==
  /\ \E i \in DOMAIN Checks :
       /\ job.at = Checks[i]
       /\ \/ /\ CASE Checks[i] \in {"records", "records2"} -> Matches
                  [] Checks[i] \in {"staged", "staged2"} -> StagedRecord
                  [] Checks[i] = "canaryReady" -> CanBeReady("canary", job.cand)
                  [] Checks[i] = "productionReady" -> CanBeReady("production", job.prior)
             /\ Go(IF i = 6 THEN "find" ELSE Checks[i + 1])
          \/ End("refused")
  /\ UNCHANGED <<routerVars, touched, mishaps, promotions, controllerOnly>>

P == box["production"]
Target == IF job.undo THEN job.back ELSE IF job.mode = "forward" THEN job.cand ELSE job.prior

\* An error ends deploy, or its own rollback begins; an error of either
\* deploy leads on: of the promotion to the restore, of the restore to the end.
LeaveDeploy ==
  IF job.mode = "forward"
  THEN job' = [job EXCEPT !.at = "look", !.undo = FALSE] /\ UNCHANGED outcome
  ELSE End("operator")
Raise ==
  IF job.undo \/ job.at = "find" THEN LeaveDeploy
  ELSE job' = [job EXCEPT !.undo = TRUE, !.at = "find"] /\ UNCHANGED outcome

RollbackMatches == job.mode = "forward" => P.remote = job.prior

\* _find_target, the rollback reference, and whether to stop first
Find ==
  /\ job.at = "find"
  /\ IF job.undo
     THEN Go(IF P.status = "stopped" THEN "patch" ELSE "stop")
     ELSE IF ~RollbackMatches THEN Raise
     ELSE /\ job' = [job EXCEPT !.back = P.remote,
                                !.at = IF P.status = "stopped" THEN "patch" ELSE "stop"]
          /\ UNCHANGED outcome
  /\ UNCHANGED <<routerVars, touched, mishaps, promotions, controllerOnly>>

\* What a REST command of deploy does to production, and whether it is accepted
Accepted == job.at = "start" => P.status = "stopped"
Effect ==
  CASE job.at = "stop" -> [P EXCEPT !.status = IF P.status = "running" THEN "stopping" ELSE @]
    [] job.at = "patch" -> [P EXCEPT !.remote = Target]
    [] job.at = "update" -> [P EXCEPT !.status = IF P.status = "stopped" THEN "pulling" ELSE @]
    [] job.at = "start" -> [P EXCEPT !.status = "running"]
Then ==
  CASE job.at = "stop" -> "stopped" [] job.at = "patch" -> "update"
    [] job.at = "update" -> "updated" [] job.at = "start" -> "started"

\* A command is carried out and answered; or refused, lost on its way, or
\* carried out without an answer: an error.
Command ==
  /\ job.at \in {"stop", "patch", "update", "start"}
  /\ \/ /\ Accepted /\ Boxed([box EXCEPT !["production"] = Effect]) /\ Go(Then)
        /\ UNCHANGED mishaps
     \/ ~Accepted /\ Raise /\ UNCHANGED <<box, served, mishaps>>
     \/ /\ mishaps < MaxMishaps /\ mishaps' = mishaps + 1 /\ Raise
        /\ Accepted /\ Boxed([box EXCEPT !["production"] = Effect])
     \/ /\ mishaps < MaxMishaps /\ mishaps' = mishaps + 1 /\ Raise
        /\ UNCHANGED <<box, served>>
  /\ UNCHANGED <<pending, lastGood, failure, touched, promotions, controllerOnly>>

\* _wait_for: two empty records in a row pass for "stopped" after a stop.
Arrived ==
  CASE job.at = "stopped" -> P.status \in {"stopped", "stopping"}
    [] job.at = "updated" -> P.status = "stopped" /\ (job.undo \/ P.remote = Target)
    [] job.at = "started" -> P.status = "running" /\ (job.undo \/ P.remote = Target)

\* The state awaited is read; or a failure, another image, or the deadline.
Await ==
  /\ job.at \in {"stopped", "updated", "started"}
  /\ \/ /\ Arrived
        /\ CASE job.at = "stopped" -> Go("patch")
             [] job.at = "updated" -> Go("start")
             [] job.at = "started" /\ job.undo -> LeaveDeploy
             [] job.at = "started" /\ ~job.undo ->
                  Go(IF job.mode = "forward" THEN "probe" ELSE "ready")
        /\ UNCHANGED mishaps
     \/ /\ ~Arrived /\ P.status \notin {"stopping", "pulling"} /\ Raise /\ UNCHANGED mishaps
     \/ mishaps < MaxMishaps /\ mishaps' = mishaps + 1 /\ Raise
  /\ UNCHANGED <<routerVars, touched, promotions, controllerOnly>>

\* Mutant: a running container is ready, whatever image serves.
ProbeAny == P.status = "running"
PromotedReady == CanBeReady("production", job.cand)
\* Six probes of the promoted revision, any of which may pass
Probe ==
  /\ job.at = "probe"
  /\ \/ PromotedReady /\ Go("record")
     \/ Go("look")
  /\ UNCHANGED <<routerVars, touched, mishaps, promotions, controllerOnly>>

\* A file is written and read back; it may fail, written or not.
Write(new, done, failed) ==
  \/ lastGood' = new /\ done /\ UNCHANGED mishaps
  \/ /\ lastGood' \in {new, lastGood} /\ failed
     /\ mishaps < MaxMishaps /\ mishaps' = mishaps + 1

RecordPromotion ==
  /\ job.at = "record"
  /\ Write(job.cand, End("promoted"), Go("look"))
  /\ UNCHANGED <<box, pending, failure, served, touched, promotions, controllerOnly>>

\* After a failure: is the prior image still, or again, production's?
Look ==
  /\ job.at = "look"
  /\ IF P.remote = job.prior THEN Go("ready")
     ELSE job' = [job EXCEPT !.mode = "restore", !.at = "find"] /\ UNCHANGED outcome
  /\ UNCHANGED <<routerVars, touched, mishaps, promotions, controllerOnly>>

\* Mutant: a production that names the prior image is taken to be restored.
NamedIsReady == TRUE
PriorReady == CanBeReady("production", job.prior)
RequirePrior ==
  /\ job.at = "ready"
  /\ \/ PriorReady /\ Go("reset")
     \/ End("operator")
  /\ UNCHANGED <<routerVars, touched, mishaps, promotions, controllerOnly>>

ResetLastGood ==
  /\ job.at = "reset"
  /\ Write(job.prior, Go("quarantine"), End("operator"))
  /\ UNCHANGED <<box, pending, failure, served, touched, promotions, controllerOnly>>

Quarantine ==
  /\ job.at = "quarantine"
  /\ \/ /\ failure' = [image |-> job.cand, count |-> RetryLimit]
        /\ End("restored") /\ UNCHANGED mishaps
     \/ /\ failure' \in {failure, [image |-> job.cand, count |-> RetryLimit]}
        /\ End("unrecorded") /\ mishaps < MaxMishaps /\ mishaps' = mishaps + 1
  /\ UNCHANGED <<box, pending, lastGood, served, touched, promotions, controllerOnly>>

\* The controller is killed, or its machine loses the router for good.
Killed ==
  /\ job.at # "idle" /\ mishaps < MaxMishaps /\ mishaps' = mishaps + 1
  /\ job' = Idle /\ outcome' = "none"
  /\ UNCHANGED <<routerVars, touched, promotions, controllerOnly>>

\* RouterOS finishes: a stop, or a pull, which may fail or leave the old root.
Settles ==
  /\ \/ P.status = "stopping" /\ box' = [box EXCEPT !["production"].status = "stopped"]
     \/ /\ P.status = "pulling"
        /\ \/ box' = [box EXCEPT !["production"] = [@ EXCEPT !.status = "stopped", !.root = P.remote]]
           \/ box' = [box EXCEPT !["production"].status = "failed"]
           \/ box' = [box EXCEPT !["production"].status = "stopped"]
  /\ UNCHANGED <<served, pending, lastGood, failure, stable, updater, window, job, outcome,
                 ghosts, bounds>>

Next ==
  \/ \E i \in Images : Publish(i)
  \/ \E b \in Boxes, i \in Images : ByHand(b, i)
  \/ RollbackLastGood \/ ClearFailure
  \/ BeginRun \/ PollCanary \/ Soak \/ Stage \/ RollBackCanary \/ InterruptRun
  \/ \E c, p \in Images : BeginCollection(c, p)
  \/ SampleBoth
  \/ BeginPromotion \/ Check \/ Find \/ Command \/ Await \/ Probe \/ RecordPromotion
  \/ Look \/ RequirePrior \/ ResetLastGood \/ Quarantine \/ Killed \/ Settles

Spec == Init /\ [][Next]_vars

-----------------------------------------------------------------------------
\* The journal's last-good image is one that production has really run:
\* neither a failed pull nor a lost answer gets an image into it.
LastGoodServed == lastGood # None => lastGood \in served

\* Only an image the canary itself ran during a whole soak is written to
\* production by the controller, whatever evidence an operator collected.
Writing == job.at \in DeploySteps /\ job.mode = "forward" /\ ~job.undo
PromotedWasSoaked == Writing => job.cand \in soaked

\* What the controller reports is so, unless production was changed by hand:
\* after "promoted" the candidate serves, after "restored" the prior image.
OutcomeHonest ==
  ~touched =>
    /\ outcome = "promoted" => P = Running(job.cand)
    /\ outcome \in {"restored", "unrecorded"} => P = Running(job.prior)
=============================================================================
