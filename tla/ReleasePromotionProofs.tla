----------------------- MODULE ReleasePromotionProofs -----------------------
(***************************************************************************)
(* Proofs about ReleasePromotion, for any images, samples and bounds: what *)
(* the controller writes to production was soaked on the canary, what is   *)
(* recorded as last good has run, and what the controller reports is so.   *)
(***************************************************************************)
EXTENDS ReleasePromotion, TLAPS

-----------------------------------------------------------------------------
(* The inductive invariant *)

Maybe == Images \cup {None}
Containers ==
  [remote : Images, root : Images,
   status : {"running", "stopping", "stopped", "pulling", "failed"}]
Runs == [at : Stages, image : Maybe, prod : Maybe, restore : Maybe, n : Nat]
Windows == [cand : Maybe, prior : Maybe, n : 0..Samples]
Jobs == [at : Points, mode : {"forward", "restore"}, undo : BOOLEAN,
         cand : Maybe, prior : Maybe, back : Maybe]
Outcomes == {"none", "refused", "promoted", "restored", "operator", "unrecorded"}

Typed ==
  /\ box \in [Boxes -> Containers] /\ stable \in Images
  /\ pending \in [cand : Maybe, prior : Maybe] /\ lastGood \in Maybe
  /\ failure \in [image : Maybe, count : 0..RetryLimit]
  /\ updater \in Runs /\ window \in Windows /\ job \in Jobs /\ outcome \in Outcomes
  /\ soaked \subseteq Images /\ served \subseteq Images

\* Who acts knows the images it acts on.
Named ==
  /\ updater.at # "idle" =>
       updater.image \in Images /\ updater.prod \in Images /\ updater.restore \in Images
  /\ window # NoWindow => window.cand \in Images /\ window.prior \in Images
  /\ job.at # "idle" => job.cand \in Images /\ job.prior \in Images
  /\ job.undo \/ job.at \in DeploySteps \ {"find"} => job.back \in Images

\* A container that runs was seen to; the canary runs what it names.
SeenRunning ==
  /\ P.status = "running" => P.root \in served
  /\ box["canary"].status = "running" => box["canary"].remote = box["canary"].root

\* A staged candidate was soaked, and so was what the controller deploys.
Soaking ==
  /\ updater.at \in {"soak", "stage"} => steady
  /\ pending.cand \in soaked \cup {None}
  /\ job.at \notin {"idle", "records", "staged"} => job.cand \in soaked

\* What is about to be recorded has run.
Recording ==
  /\ LastGoodServed
  /\ job.at = "record" => job.cand \in served
  /\ job.at = "reset" => job.prior \in served

\* While nobody changes production by hand, it stays as the controller has seen it.
Answering ==
  /\ job.at # "idle" => outcome = "none"
  /\ ~touched =>
       /\ job.at = "probe" => P.remote = job.cand
       /\ job.at = "record" => P = Running(job.cand)
       /\ job.at = "ready" => P.remote = job.prior
       /\ job.at \in {"reset", "quarantine"} => P = Running(job.prior)
  /\ OutcomeHonest

ReleaseInv == Typed /\ Named /\ SeenRunning /\ Soaking /\ Recording /\ Answering

-----------------------------------------------------------------------------
(* Types *)

\* A container that is started has the image it is given; other changes of one
\* leave the other container alone.
LEMMA BoxedKeeps ==
  ASSUME Typed, NEW b \in Boxes, NEW c \in Containers, Boxed([box EXCEPT ![b] = c])
  PROVE  /\ box' \in [Boxes -> Containers] /\ served' \subseteq Images
         /\ served \subseteq served'
         /\ box'[b] = c /\ \A d \in Boxes \ {b} : box'[d] = box[d]
         /\ box'["production"].status = "running" => box'["production"].root \in served'
  BY DEF Typed, Boxed, Containers, Boxes

LEMMA RunningOK == ASSUME NEW i \in Images PROVE Running(i) \in Containers
  BY DEF Running, Containers

LEMMA ContainersOK ==
  ASSUME Typed
  PROVE  /\ P \in Containers /\ box["canary"] \in Containers
         /\ "canary" \in Boxes /\ "production" \in Boxes
  BY DEF Typed, P, Boxes

\* What operators, updater, controller and RouterOS make of a container.
LEMMA HandMoves ==
  ASSUME Typed, RollbackLastGood
  PROVE  \E c \in Containers : /\ Boxed([box EXCEPT !["production"] = c])
                               /\ c.status = "running" => c.remote = c.root
  <1>1. PICK s \in {"running", "failed"} :
          Boxed([box EXCEPT !["production"] =
                   [remote |-> lastGood, root |-> IF s = "running" THEN lastGood ELSE P.root,
                    status |-> s]])
    BY DEF RollbackLastGood, P
  <1>2. [remote |-> lastGood, root |-> IF s = "running" THEN lastGood ELSE P.root,
         status |-> s] \in Containers
    BY ContainersOK DEF RollbackLastGood, Typed, Maybe, Containers
  <1>3. QED
    BY <1>1, <1>2

LEMMA CanaryMoves ==
  ASSUME Typed, Named, BeginRun \/ RollBackCanary
  PROVE  \E c \in Containers : /\ Boxed([box EXCEPT !["canary"] = c])
                               /\ c.status = "running" => c.remote = c.root
  <1>1. CASE BeginRun
    <2>1. PICK s \in {"running", "stopped", "failed"} :
            Boxed([box EXCEPT !["canary"] =
                     IF s = "running" THEN Running(stable)
                     ELSE [remote |-> stable, root |-> box["canary"].root, status |-> s]])
      BY <1>1 DEF BeginRun
    <2>2. (IF s = "running" THEN Running(stable)
           ELSE [remote |-> stable, root |-> box["canary"].root, status |-> s]) \in Containers
      BY ContainersOK, RunningOK DEF Containers, Typed
    <2>3. QED
      BY <2>1, <2>2 DEF Running
  <1>2. CASE RollBackCanary
    <2>1. updater.restore \in Images
      BY <1>2 DEF RollBackCanary, Named
    <2>2. [box["canary"] EXCEPT !.status = "failed"] \in Containers
      BY ContainersOK DEF Containers
    <2>3. Boxed([box EXCEPT !["canary"] = Running(updater.restore)])
          \/ Boxed([box EXCEPT !["canary"] = [box["canary"] EXCEPT !.status = "failed"]])
      BY <1>2 DEF RollBackCanary
    <2>4. CASE Boxed([box EXCEPT !["canary"] = Running(updater.restore)])
      BY <2>1, <2>4, RunningOK DEF Running
    <2>5. CASE Boxed([box EXCEPT !["canary"] = [box["canary"] EXCEPT !.status = "failed"]])
      BY <2>2, <2>5, ContainersOK DEF Containers
    <2>6. QED
      BY <2>3, <2>4, <2>5
  <1>3. QED
    BY <1>1, <1>2

LEMMA EffectOK ==
  ASSUME Typed, Named, Command
  PROVE  Effect \in Containers
  <1>1. P \in Containers
    BY ContainersOK
  <1>2. job.at = "patch" => Target \in Images
    BY DEF Target, Named, DeploySteps
  <1>3. QED
    BY <1>1, <1>2 DEF Command, Effect, Containers

LEMMA SettlesOK ==
  ASSUME Typed, Settles
  PROVE  /\ P.status \in {"stopping", "pulling"}
         /\ \E c \in Containers : /\ box' = [box EXCEPT !["production"] = c]
                                  /\ c.status # "running" /\ c.remote = P.remote
  <1>1. /\ [P EXCEPT !.status = "stopped"] \in Containers
        /\ [P EXCEPT !.status = "failed"] \in Containers
        /\ [P EXCEPT !.status = "stopped", !.root = P.remote] \in Containers
        /\ P \in Containers
    BY ContainersOK DEF Containers
  <1>2. PICK c \in {[P EXCEPT !.status = "stopped"], [P EXCEPT !.status = "failed"],
                    [P EXCEPT !.status = "stopped", !.root = P.remote]} :
          box' = [box EXCEPT !["production"] = c]
    BY DEF Settles, P
  <1>3. c \in Containers /\ c.status # "running" /\ c.remote = P.remote
    BY <1>1 DEF Containers
  <1>4. QED
    BY <1>2, <1>3 DEF Settles

\* The points of the controller.
LEMMA PointsOK ==
  /\ DOMAIN Checks = 1..6 /\ \A i \in 1..6 : Checks[i] \in Points
  /\ {"idle", "find", "stop", "stopped", "patch", "update", "updated", "start", "started",
      "probe", "record", "look", "ready", "reset", "quarantine", "records"} \subseteq Points
  <1>1. DOMAIN Checks = 1..6
    BY DEF Checks
  <1>2. Checks[1] = "records"
    BY DEF Checks
  <1>3. QED
    BY <1>1, <1>2 DEF Points, DeploySteps

\* What leaves the controller well typed.
LEMMA JobOK ==
  ASSUME Typed
  PROVE  /\ Idle \in Jobs /\ \A p \in Points : [job EXCEPT !.at = p] \in Jobs
         /\ \A o \in Outcomes : End(o) => job' \in Jobs /\ outcome' \in Outcomes
         /\ \A p \in Points : Go(p) => job' \in Jobs /\ outcome' \in Outcomes
  BY PointsOK DEF Typed, Jobs, Idle, Maybe, End, Go

LEMMA RaiseOK ==
  ASSUME Typed
  PROVE  /\ LeaveDeploy => job' \in Jobs /\ outcome' \in Outcomes
         /\ Raise => job' \in Jobs /\ outcome' \in Outcomes
  <1>1. [job EXCEPT !.at = "look", !.undo = FALSE] \in Jobs
        /\ [job EXCEPT !.undo = TRUE, !.at = "find"] \in Jobs
    BY PointsOK DEF Typed, Jobs
  <1>2. "operator" \in Outcomes /\ outcome \in Outcomes
    BY DEF Typed, Outcomes
  <1>3. QED
    BY <1>1, <1>2, JobOK DEF LeaveDeploy, Raise

\* What leaves the updater well typed.
LEMMA RunOK ==
  ASSUME ReleaseAssumption, Typed
  PROVE  /\ NoRun \in Runs /\ NoWindow \in Windows
         /\ \A p \in Stages : [updater EXCEPT !.at = p] \in Runs
  BY DEF ReleaseAssumption, Typed, Runs, NoRun, NoWindow, Windows, Maybe, Stages

\* A step of somebody else leaves updater, window and controller as they are.
LEMMA OthersTyped ==
  ASSUME ReleaseAssumption, Typed,
         \/ \E i \in Images : Publish(i)
         \/ \E b \in Boxes, i \in Images : ByHand(b, i)
         \/ RollbackLastGood \/ ClearFailure \/ Settles
  PROVE  Typed'
  <1>1. CASE \E i \in Images : Publish(i)
    BY <1>1 DEF Publish, Typed, routerVars, ghosts
  <1>2. ASSUME NEW b \in Boxes, NEW i \in Images, ByHand(b, i)
        PROVE  Typed'
    BY <1>2, BoxedKeeps, RunningOK DEF ByHand, Typed
  <1>3. CASE RollbackLastGood
    BY <1>3, HandMoves, BoxedKeeps, ContainersOK DEF RollbackLastGood, Typed
  <1>4. CASE ClearFailure
    BY <1>4 DEF ClearFailure, Typed, ReleaseAssumption, Maybe, ghosts
  <1>5. CASE Settles
    <2>1. box' \in [Boxes -> Containers]
      BY <1>5, SettlesOK DEF Typed
    <2>2. QED
      BY <1>5, <2>1 DEF Settles, Typed, ghosts
  <1>6. QED
    BY <1>1, <1>2, <1>3, <1>4, <1>5

LEMMA UpdaterTyped ==
  ASSUME ReleaseAssumption, Typed, Named,
         \/ BeginRun \/ PollCanary \/ Soak \/ Stage \/ RollBackCanary \/ InterruptRun
         \/ \E c, p \in Images : BeginCollection(c, p)
         \/ SampleBoth
  PROVE  Typed'
  <1>1. CASE BeginRun
    <2>1. PICK next \in {"poll", "rollback"} :
            updater' = [at |-> next, image |-> stable, prod |-> box["production"].remote,
                        restore |-> box["canary"].remote, n |-> 0]
      BY <1>1 DEF BeginRun
    <2>2. stable \in Images /\ box["canary"] \in Containers /\ box["production"] \in Containers
      BY ContainersOK DEF Typed, P
    <2>3. updater' \in Runs
      BY <2>1, <2>2 DEF Runs, Stages, Maybe, Containers
    <2>4. box' \in [Boxes -> Containers] /\ served' \subseteq Images
      BY <1>1, CanaryMoves, BoxedKeeps, ContainersOK
    <2>5. QED
      BY <1>1, <2>3, <2>4 DEF BeginRun, Typed, updaterOnly
  <1>2. CASE PollCanary \/ Soak
    <2>1. updater.n + 1 \in Nat /\ {"soak", "stage", "rollback"} \subseteq Stages
      BY DEF Typed, Runs, Stages
    <2>2. \A p \in Stages : [updater EXCEPT !.n = @ + 1, !.at = p] \in Runs
      BY <2>1 DEF Typed, Runs
    <2>3. updater' \in Runs
      BY <1>2, <2>1, <2>2, RunOK DEF PollCanary, Soak
    <2>4. QED
      BY <1>2, <2>3 DEF PollCanary, Soak, Typed, updaterOnly, routerVars
  <1>3. CASE Stage
    <2>1. updater.image \in Images /\ updater.prod \in Images
      BY <1>3 DEF Stage, Named
    <2>2. pending' \in [cand : Maybe, prior : Maybe] /\ soaked' \subseteq Images
      BY <1>3, <2>1 DEF Stage, Typed, Maybe
    <2>3. QED
      BY <1>3, <2>2, RunOK DEF Stage, Typed, updaterOnly
  <1>4. CASE RollBackCanary
    <2>1. updater.image \in Images
      BY <1>4 DEF RollBackCanary, Named
    <2>2. box' \in [Boxes -> Containers] /\ served' \subseteq Images
      BY <1>4, CanaryMoves, BoxedKeeps, ContainersOK
    <2>3. failure' \in [image : Maybe, count : 0..RetryLimit]
      <3>1. failure'.image = updater.image /\ failure'.count \in 0..RetryLimit
        BY <1>4 DEF RollBackCanary, Typed, ReleaseAssumption
      <3>2. QED
        BY <1>4, <2>1, <3>1 DEF RollBackCanary, Maybe
    <2>4. QED
      BY <1>4, <2>2, <2>3, RunOK DEF RollBackCanary, Typed, updaterOnly
  <1>5. CASE InterruptRun
    BY <1>5, RunOK DEF InterruptRun, Typed, routerVars, ghosts
  <1>6. CASE \E c, p \in Images : BeginCollection(c, p)
    BY <1>6 DEF BeginCollection, Typed, evidenceOnly, routerVars, ghosts, Windows, Maybe,
                ReleaseAssumption
  <1>7. CASE SampleBoth
    <2>1. window' \in Windows
      BY <1>7, RunOK DEF SampleBoth, Typed, Windows, ReleaseAssumption
    <2>2. QED
      BY <1>7, <2>1 DEF SampleBoth, Typed, evidenceOnly, routerVars, ghosts
  <1>8. QED
    BY <1>1, <1>2, <1>3, <1>4, <1>5, <1>6, <1>7

LEMMA ControllerTyped ==
  ASSUME ReleaseAssumption, Typed, Named,
         \/ BeginPromotion \/ Check \/ Find \/ Command \/ Await \/ Probe \/ RecordPromotion
         \/ Look \/ RequirePrior \/ ResetLastGood \/ Quarantine \/ Killed
  PROVE  Typed'
  <1>o. Outcomes = {"none", "refused", "promoted", "restored", "operator", "unrecorded"}
    BY DEF Outcomes
  <1>1. ASSUME job' \in Jobs, outcome' \in Outcomes, UNCHANGED <<routerVars, controllerOnly>>
        PROVE  Typed'
    BY <1>1 DEF Typed, routerVars, controllerOnly
  <1>2. CASE BeginPromotion
    <2>1. job' \in Jobs /\ outcome' \in Outcomes
      <3>1. CASE Eligible
        <4>1. window.cand \in Maybe /\ window.prior \in Maybe
          BY DEF Typed, Windows
        <4>2. [Idle EXCEPT !.at = "records", !.cand = window.cand,
                           !.prior = window.prior] \in Jobs
          BY <4>1, PointsOK DEF Jobs, Idle, Maybe
        <4>3. QED
          BY <1>2, <3>1, <4>2, <1>o DEF BeginPromotion
      <3>2. CASE ~Eligible
        BY <1>2, <3>2, JobOK, <1>o DEF BeginPromotion
      <3>3. QED
        BY <3>1, <3>2
    <2>2. QED
      BY <1>1, <1>2, <2>1 DEF BeginPromotion
  <1>3. CASE Check
    <2>1. PICK i \in 1..6 : \/ Go(IF i = 6 THEN "find" ELSE Checks[i + 1])
                            \/ End("refused")
      BY <1>3, PointsOK DEF Check
    <2>2. (IF i = 6 THEN "find" ELSE Checks[i + 1]) \in Points
      BY PointsOK
    <2>3. QED
      BY <1>1, <1>3, <2>1, <2>2, JobOK, <1>o DEF Check
  <1>4. CASE Find
    <2>1. job' \in Jobs /\ outcome' \in Outcomes
      <3>1. CASE job.undo \/ ~RollbackMatches
        BY <1>4, <3>1, JobOK, RaiseOK, PointsOK DEF Find
      <3>2. CASE ~job.undo /\ RollbackMatches
        <4>1. P.remote \in Maybe
          BY ContainersOK DEF Containers, Maybe
        <4>2. [job EXCEPT !.back = P.remote,
                          !.at = IF P.status = "stopped" THEN "patch" ELSE "stop"] \in Jobs
          BY <4>1, PointsOK DEF Typed, Jobs
        <4>3. QED
          BY <1>4, <3>2, <4>2 DEF Find, Typed
      <3>3. QED
        BY <3>1, <3>2
    <2>2. QED
      BY <1>1, <1>4, <2>1 DEF Find
  <1>5. CASE Command
    <2>1. job' \in Jobs /\ outcome' \in Outcomes
      <3>1. Then \in Points
        BY <1>5, PointsOK DEF Command, Then
      <3>2. QED
        BY <1>5, <3>1, JobOK, RaiseOK DEF Command
    <2>2. box' \in [Boxes -> Containers] /\ served' \subseteq Images
      BY <1>5, EffectOK, BoxedKeeps, ContainersOK DEF Command, Typed
    <2>3. QED
      BY <1>5, <2>1, <2>2 DEF Command, Typed, controllerOnly
  <1>6. CASE Await
    <2>1. job' \in Jobs /\ outcome' \in Outcomes
      BY <1>6, JobOK, RaiseOK, PointsOK DEF Await
    <2>2. QED
      BY <1>1, <1>6, <2>1 DEF Await
  <1>7. CASE Probe \/ RequirePrior
    BY <1>1, <1>7, JobOK, PointsOK, <1>o DEF Probe, RequirePrior
  <1>8. CASE Look
    <2>1. [job EXCEPT !.mode = "restore", !.at = "find"] \in Jobs
      BY PointsOK DEF Typed, Jobs
    <2>2. job' \in Jobs /\ outcome' \in Outcomes
      BY <1>8, <2>1, JobOK, PointsOK DEF Look, Typed
    <2>3. QED
      BY <1>1, <1>8, <2>2 DEF Look
  <1>9. CASE Killed
    BY <1>1, <1>9, JobOK, <1>o DEF Killed
  <1>10. CASE RecordPromotion \/ ResetLastGood
    <2>1. job' \in Jobs /\ outcome' \in Outcomes
      BY <1>10, JobOK, PointsOK, <1>o DEF RecordPromotion, ResetLastGood, Write
    <2>2. lastGood' \in Maybe
      BY <1>10 DEF RecordPromotion, ResetLastGood, Write, Named, Maybe, Typed
    <2>3. QED
      BY <1>10, <2>1, <2>2 DEF RecordPromotion, ResetLastGood, Typed, controllerOnly
  <1>11. CASE Quarantine
    <2>1. job' \in Jobs /\ outcome' \in Outcomes
      BY <1>11, JobOK, <1>o DEF Quarantine
    <2>2. failure' \in [image : Maybe, count : 0..RetryLimit]
      BY <1>11 DEF Quarantine, Named, Maybe, Typed, ReleaseAssumption
    <2>3. QED
      BY <1>11, <2>1, <2>2 DEF Quarantine, Typed, controllerOnly
  <1>12. QED
    BY <1>2, <1>3, <1>4, <1>5, <1>6, <1>7, <1>8, <1>9, <1>10, <1>11

-----------------------------------------------------------------------------
(* Who acts knows what it acts on *)

\* The steps by whose actor.
Controller ==
  BeginPromotion \/ Check \/ Find \/ Command \/ Await \/ Probe \/ RecordPromotion
  \/ Look \/ RequirePrior \/ ResetLastGood \/ Quarantine \/ Killed
Updater == BeginRun \/ PollCanary \/ Soak \/ Stage \/ RollBackCanary \/ InterruptRun
Evidence == (\E c, p \in Images : BeginCollection(c, p)) \/ SampleBoth
Others ==
  \/ \E i \in Images : Publish(i)
  \/ \E b \in Boxes, i \in Images : ByHand(b, i)
  \/ RollbackLastGood \/ ClearFailure \/ Settles

LEMMA Actors == Next => Controller \/ Updater \/ Evidence \/ Others
  BY DEF Next, Controller, Updater, Evidence, Others

\* Each actor has its own variable.
LEMMA Apart ==
  /\ Controller => UNCHANGED <<updater, window, soaked, steady, pending>>
  /\ Updater => UNCHANGED <<window, job, outcome, touched, lastGood>>
  /\ Evidence => UNCHANGED <<routerVars, updater, job, outcome, soaked, steady, touched>>
  /\ Others => UNCHANGED <<updater, window, job, outcome, soaked, steady, pending, lastGood>>
  <1>1. Controller => UNCHANGED <<updater, window, soaked, steady, pending>>
    BY DEF Controller, BeginPromotion, Check, Find, Command, Await, Probe, RecordPromotion, Look,
           RequirePrior, ResetLastGood, Quarantine, Killed, controllerOnly, routerVars
  <1>2. Updater => UNCHANGED <<window, job, outcome, touched, lastGood>>
    BY DEF Updater, BeginRun, PollCanary, Soak, Stage, RollBackCanary, InterruptRun,
           updaterOnly, routerVars, ghosts
  <1>3. Evidence => UNCHANGED <<routerVars, updater, job, outcome, soaked, steady, touched>>
    BY DEF Evidence, BeginCollection, SampleBoth, evidenceOnly, ghosts
  <1>4. Others => UNCHANGED <<updater, window, job, outcome, soaked, steady, pending, lastGood>>
    BY DEF Others, Publish, ByHand, RollbackLastGood, ClearFailure, Settles, routerVars, ghosts
  <1>5. QED
    BY <1>1, <1>2, <1>3, <1>4

\* Where a deployment goes on keeps what it is about.
JobKept == job'.cand = job.cand /\ job'.prior = job.prior
LEMMA RaiseKeeps ==
  ASSUME Typed
  PROVE  /\ \A p \in Points : Go(p) => /\ JobKept /\ job'.at = p /\ job'.mode = job.mode
                                       /\ job'.undo = job.undo /\ job'.back = job.back
                                       /\ outcome' = outcome
         /\ \A o : End(o) => /\ JobKept /\ job'.at = "idle" /\ job'.undo = FALSE
                             /\ outcome' = o
         /\ Raise => /\ \/ JobKept /\ job'.back = job.back /\ outcome' = outcome
                           /\ \/ job'.at = "look" /\ job.mode = "forward" /\ ~job'.undo
                              \/ job'.at = "find" /\ job'.undo /\ job.at # "find"
                        \/ JobKept /\ job'.at = "idle" /\ ~job'.undo /\ outcome' = "operator"
  <1>1. ASSUME NEW p \in Points, Go(p)
        PROVE  /\ JobKept /\ job'.at = p /\ job'.mode = job.mode
               /\ job'.undo = job.undo /\ job'.back = job.back /\ outcome' = outcome
    BY <1>1 DEF Typed, Jobs, Go, JobKept
  <1>2. ASSUME NEW o, End(o)
        PROVE  JobKept /\ job'.at = "idle" /\ job'.undo = FALSE /\ outcome' = o
    BY <1>2 DEF Typed, Jobs, Idle, End, JobKept
  <1>3. ASSUME Raise
        PROVE  \/ JobKept /\ job'.back = job.back /\ outcome' = outcome
                    /\ \/ job'.at = "look" /\ job.mode = "forward" /\ ~job'.undo
                       \/ job'.at = "find" /\ job'.undo /\ job.at # "find"
               \/ JobKept /\ job'.at = "idle" /\ ~job'.undo /\ outcome' = "operator"
    <2>1. CASE LeaveDeploy
      <3>1. CASE job.mode = "forward"
        BY <2>1, <3>1 DEF LeaveDeploy, Typed, Jobs, JobKept
      <3>2. CASE job.mode # "forward"
        BY <2>1, <3>2, <1>2 DEF LeaveDeploy
      <3>3. QED
        BY <3>1, <3>2
    <2>2. CASE ~(job.undo \/ job.at = "find")
      BY <1>3, <2>2 DEF Raise, Typed, Jobs, JobKept
    <2>3. QED
      BY <1>3, <2>1, <2>2 DEF Raise
  <1>4. QED
    BY <1>1, <1>2, <1>3

LEMMA NamedKept ==
  ASSUME ReleaseAssumption, Typed, Named, Next
  PROVE  Named'
  <1>1. updater'.at # "idle" =>
          updater'.image \in Images /\ updater'.prod \in Images /\ updater'.restore \in Images
    <2>1. CASE UNCHANGED updater
      BY <2>1 DEF Named
    <2>2. CASE BeginRun
      BY <2>2, ContainersOK DEF BeginRun, Typed, Containers, P
    <2>3. CASE PollCanary \/ Soak
      BY <2>3 DEF PollCanary, Soak, Named, Typed, Runs
    <2>4. CASE Stage \/ RollBackCanary \/ InterruptRun
      BY <2>4 DEF Stage, RollBackCanary, InterruptRun, NoRun
    <2>5. QED
      BY <2>1, <2>2, <2>3, <2>4, Actors, Apart DEF Updater
  <1>2. window' # NoWindow => window'.cand \in Images /\ window'.prior \in Images
    <2>1. CASE UNCHANGED window
      BY <2>1 DEF Named
    <2>2. CASE Evidence
      BY <2>2 DEF Evidence, BeginCollection, SampleBoth, Named, Typed, Windows
    <2>3. QED
      BY <2>1, <2>2, Actors, Apart
  <1>3. /\ job'.at # "idle" => job'.cand \in Images /\ job'.prior \in Images
        /\ job'.undo \/ job'.at \in DeploySteps \ {"find"} => job'.back \in Images
    <2>d. DeploySteps = {"find", "stop", "stopped", "patch", "update", "updated", "start", "started"}
      BY DEF DeploySteps
    <2>n. /\ job.at # "idle" => job.cand \in Images /\ job.prior \in Images
          /\ job.undo \/ job.at \in DeploySteps \ {"find"} => job.back \in Images
      BY DEF Named
    <2>1. CASE UNCHANGED job
      BY <2>1, <2>n
    <2>2. CASE BeginPromotion
      BY <2>2, <2>d, RaiseKeeps DEF BeginPromotion, Named, Eligible, Idle
    <2>3. CASE Check
      <3>1. PICK i \in 1..6 : /\ job.at = Checks[i]
                              /\ \/ Go(IF i = 6 THEN "find" ELSE Checks[i + 1])
                                 \/ End("refused")
        BY <2>3, PointsOK DEF Check
      <3>2. Checks[i] # "idle" /\ (i # 6 => Checks[i + 1] \in Points \ DeploySteps)
        BY <2>d, PointsOK DEF Checks
      <3>3. QED
        BY <3>1, <3>2, <2>d, <2>n, RaiseKeeps, PointsOK DEF JobKept
    <2>4. CASE Find
      <3>1. CASE job.undo \/ ~RollbackMatches
        BY <2>4, <3>1, <2>d, <2>n, RaiseKeeps, PointsOK DEF Find, JobKept
      <3>2. CASE ~job.undo /\ RollbackMatches
        <4>1. P.remote \in Images
          BY ContainersOK DEF Containers
        <4>2. QED
          BY <2>4, <3>2, <2>n, <4>1 DEF Find, Typed, Jobs
      <3>3. QED
        BY <3>1, <3>2
    <2>5. CASE Command
      <3>1. Then \in Points
        BY <2>5, PointsOK DEF Command, Then
      <3>2. QED
        BY <2>5, <3>1, <2>d, <2>n, RaiseKeeps DEF Command, JobKept
    <2>6. CASE Await
      BY <2>6, <2>d, <2>n, RaiseKeeps, PointsOK DEF Await, JobKept, Raise
    <2>7. CASE Probe \/ RequirePrior \/ RecordPromotion \/ ResetLastGood \/ Quarantine
      <3>1. /\ job.at # "idle" /\ JobKept
            /\ job'.at \notin DeploySteps /\ (job'.undo => job.undo /\ job'.back = job.back)
        BY <2>7, <2>d, RaiseKeeps, PointsOK
           DEF Probe, RequirePrior, RecordPromotion, ResetLastGood, Quarantine, Write
      <3>2. QED
        BY <3>1, <2>n DEF JobKept
    <2>k. CASE Killed
      BY <2>k, <2>d DEF Killed, Idle
    <2>8. CASE Look
      <3>1. CASE Go("ready")
        <4>1. JobKept /\ job'.at = "ready" /\ job'.undo = job.undo /\ job'.back = job.back
          BY <3>1, RaiseKeeps, PointsOK
        <4>2. QED
          BY <2>8, <4>1, <2>d, <2>n DEF Look, JobKept
      <3>2. CASE job' = [job EXCEPT !.mode = "restore", !.at = "find"]
        BY <2>8, <3>2, <2>d, <2>n DEF Look, Typed, Jobs
      <3>3. QED
        BY <2>8, <3>1, <3>2 DEF Look
    <2>9. QED
      BY <2>1, <2>2, <2>3, <2>4, <2>5, <2>6, <2>7, <2>8, <2>k, Actors, Apart DEF Controller
  <1>4. QED
    BY <1>1, <1>2, <1>3 DEF Named

-----------------------------------------------------------------------------
(* What the containers run *)

\* How a step changes the containers.
ByCommand(c) == Command /\ Boxed([box EXCEPT !["production"] = c])
OfCanary(c) ==
  /\ Updater /\ Boxed([box EXCEPT !["canary"] = c])
  /\ c.status = "running" => c.remote = c.root
ByOperator(b, c) ==
  /\ Others /\ Boxed([box EXCEPT ![b] = c])
  /\ b = "production" => touched'
  /\ c.status = "running" => c.remote = c.root
BySettling(c) ==
  /\ Settles /\ P.status \in {"stopping", "pulling"}
  /\ box' = [box EXCEPT !["production"] = c] /\ served' = served
  /\ c.status # "running" /\ c.remote = P.remote

LEMMA Moves ==
  ASSUME Typed, Named, Next
  PROVE  \/ UNCHANGED <<box, served>>
         \/ \E c \in Containers : ByCommand(c) \/ OfCanary(c) \/ BySettling(c)
         \/ \E b \in Boxes, c \in Containers : ByOperator(b, c)
  <1>1. CASE Controller
    <2>1. CASE Command
      BY <2>1, EffectOK DEF Command, ByCommand
    <2>2. CASE ~Command
      BY <1>1, <2>2 DEF Controller, BeginPromotion, Check, Find, Await, Probe, RecordPromotion,
            Look, RequirePrior, ResetLastGood, Quarantine, Killed, routerVars
    <2>3. QED
      BY <2>1, <2>2
  <1>2. CASE Updater
    <2>1. CASE BeginRun \/ RollBackCanary
      BY <1>2, <2>1, CanaryMoves DEF OfCanary
    <2>2. CASE ~(BeginRun \/ RollBackCanary)
      BY <1>2, <2>2 DEF Updater, PollCanary, Soak, Stage, InterruptRun, routerVars
    <2>3. QED
      BY <2>1, <2>2
  <1>3. CASE Evidence
    BY <1>3, Apart DEF routerVars
  <1>4. CASE Others
    <2>1. CASE (\E i \in Images : Publish(i)) \/ ClearFailure
      BY <2>1 DEF Publish, ClearFailure, routerVars
    <2>2. ASSUME NEW b \in Boxes, NEW i \in Images, ByHand(b, i)
          PROVE  ByOperator(b, Running(i)) /\ Running(i) \in Containers
      BY <1>4, <2>2, RunningOK DEF ByHand, ByOperator, Running
    <2>3. CASE RollbackLastGood
      <3>1. PICK c \in Containers : /\ Boxed([box EXCEPT !["production"] = c])
                                    /\ c.status = "running" => c.remote = c.root
        BY <2>3, HandMoves
      <3>2. ByOperator("production", c)
        BY <1>4, <2>3, <3>1 DEF ByOperator, RollbackLastGood
      <3>3. QED
        BY <3>2, ContainersOK
    <2>4. CASE Settles
      BY <2>4, SettlesOK DEF BySettling, Settles
    <2>5. QED
      BY <1>4, <2>1, <2>2, <2>3, <2>4 DEF Others
  <1>5. QED
    BY <1>1, <1>2, <1>3, <1>4, Actors

LEMMA SeenRunningKept ==
  ASSUME Typed, Named, SeenRunning, Next
  PROVE  SeenRunning' /\ served \subseteq served'
  <1>b. "canary" \in Boxes /\ "production" \in Boxes
    BY DEF Boxes
  <1>1. CASE UNCHANGED <<box, served>>
    BY <1>1 DEF SeenRunning, P
  <1>2. ASSUME NEW b \in Boxes, NEW c \in Containers, Boxed([box EXCEPT ![b] = c]),
               b = "canary" /\ c.status = "running" => c.remote = c.root
        PROVE  SeenRunning' /\ served \subseteq served'
    BY <1>2, <1>b, BoxedKeeps DEF SeenRunning, P
  <1>3. ASSUME NEW c \in Containers, BySettling(c)
        PROVE  SeenRunning' /\ served \subseteq served'
    BY <1>3, <1>b DEF BySettling, SeenRunning, P, Typed
  <1>4. QED
    BY <1>1, <1>2, <1>3, <1>b, Moves DEF ByCommand, OfCanary, ByOperator

-----------------------------------------------------------------------------
(* What is deployed was soaked *)

LEMMA SoakingKept ==
  ASSUME ReleaseAssumption, Typed, Named, SeenRunning, Soaking, Next
  PROVE  Soaking'
  <1>1. updater'.at \in {"soak", "stage"} => steady'
    <2>1. CASE UNCHANGED <<updater, steady>>
      BY <2>1 DEF Soaking
    <2>2. CASE BeginRun \/ PollCanary
      BY <2>2 DEF BeginRun, PollCanary, Typed, Runs
    <2>3. CASE Soak
      <3>1. CASE SoakSample
        <4>1. box["canary"] = Running(updater.image)
          BY <3>1, ContainersOK DEF SoakSample, CanBeReady, SeenRunning, Running, Containers
        <4>2. QED
          BY <2>3, <4>1 DEF Soak, Soaking, Typed, Runs
      <3>2. CASE ~SoakSample
        BY <2>3, <3>2 DEF Soak, Typed, Runs
      <3>3. QED
        BY <3>1, <3>2
    <2>4. CASE Stage \/ RollBackCanary \/ InterruptRun
      BY <2>4 DEF Stage, RollBackCanary, InterruptRun, NoRun
    <2>5. QED
      BY <2>1, <2>2, <2>3, <2>4, Actors, Apart DEF Updater
  <1>2. soaked \subseteq soaked' /\ pending'.cand \in soaked' \cup {None}
    <2>1. CASE UNCHANGED <<pending, soaked>>
      BY <2>1 DEF Soaking
    <2>2. CASE Stage
      <3>1. soaked' = soaked \cup {updater.image}
        BY <2>2 DEF Stage, Soaking
      <3>2. QED
        BY <2>2, <3>1 DEF Stage, Soaking
    <2>3. CASE Updater /\ ~Stage
      BY <2>1, <2>3 DEF Updater, BeginRun, PollCanary, Soak, RollBackCanary, InterruptRun,
                        routerVars, ghosts
    <2>4. CASE Evidence
      BY <2>1, <2>4, Apart DEF routerVars
    <2>5. QED
      BY <2>1, <2>2, <2>3, <2>4, Actors, Apart
  <1>3. job'.at \notin {"idle", "records", "staged"} => job'.cand \in soaked
    <2>s. job.at \notin {"idle", "records", "staged"} => job.cand \in soaked
      BY DEF Soaking
    <2>1. CASE UNCHANGED job
      BY <2>1, <2>s
    <2>2. CASE BeginPromotion
      BY <2>2, RaiseKeeps DEF BeginPromotion, Idle
    <2>3. CASE Check
      <3>1. PICK i \in 1..6 :
              /\ job.at = Checks[i]
              /\ \/ /\ Checks[i] \in {"staged", "staged2"} => StagedRecord
                    /\ Go(IF i = 6 THEN "find" ELSE Checks[i + 1])
                 \/ End("refused")
        BY <2>3, PointsOK DEF Check
      <3>2. CASE End("refused")
        BY <3>2, RaiseKeeps
      <3>3. CASE ~End("refused") /\ i = 1
        BY <3>1, <3>3 DEF Checks, Go, Typed, Jobs
      <3>4. CASE ~End("refused") /\ i = 2
        <4>1. StagedRecord /\ job.at = "staged"
          BY <3>1, <3>4 DEF Checks
        <4>2. job.cand \in Images /\ None \notin Images
          BY <4>1 DEF Named, ReleaseAssumption
        <4>3. QED
          BY <3>1, <3>4, <4>1, <4>2, RaiseKeeps, PointsOK DEF StagedRecord, Soaking, JobKept
      <3>5. CASE ~End("refused") /\ i \in 3..6
        <4>1. job.at \notin {"idle", "records", "staged"}
          BY <3>1, <3>5 DEF Checks
        <4>2. QED
          BY <3>1, <3>5, <4>1, <2>s, RaiseKeeps, PointsOK DEF JobKept
      <3>6. QED
        BY <3>2, <3>3, <3>4, <3>5
    <2>4. CASE Controller /\ ~BeginPromotion /\ ~Check
      <3>1. JobKept \/ job'.at = "idle"
        <4>1. CASE Find
          BY <4>1, RaiseKeeps, PointsOK DEF Find, JobKept, Typed, Jobs
        <4>2. CASE Command
          <5>1. Then \in Points
            BY <4>2, PointsOK DEF Command, Then
          <5>2. QED
            BY <4>2, <5>1, RaiseKeeps DEF Command
        <4>3. CASE Await
          BY <4>3, RaiseKeeps, PointsOK DEF Await, LeaveDeploy, JobKept, Typed, Jobs
        <4>4. CASE Look
          BY <4>4, RaiseKeeps, PointsOK DEF Look, JobKept, Typed, Jobs
        <4>5. CASE Probe \/ RecordPromotion \/ RequirePrior \/ ResetLastGood \/ Quarantine
          BY <4>5, RaiseKeeps, PointsOK
             DEF Probe, RecordPromotion, RequirePrior, ResetLastGood, Quarantine, Write
        <4>6. CASE Killed
          BY <4>6 DEF Killed, Idle
        <4>7. QED
          BY <2>4, <4>1, <4>2, <4>3, <4>4, <4>5, <4>6 DEF Controller
      <3>2. job.at \notin {"idle", "records", "staged"} \/ job'.at = "idle"
        <4>1. CASE Find \/ Command \/ Await
          BY <4>1 DEF Find, Command, Await
        <4>2. CASE Look \/ Probe \/ RecordPromotion \/ RequirePrior \/ ResetLastGood \/ Quarantine
          BY <4>2 DEF Look, Probe, RecordPromotion, RequirePrior, ResetLastGood, Quarantine
        <4>3. CASE Killed
          BY <4>3 DEF Killed, Idle
        <4>4. QED
          BY <2>4, <4>1, <4>2, <4>3 DEF Controller
      <3>3. QED
        BY <3>1, <3>2, <2>s DEF JobKept
    <2>5. QED
      BY <2>1, <2>2, <2>3, <2>4, Actors, Apart
  <1>4. QED
    BY <1>1, <1>2, <1>3 DEF Soaking

-----------------------------------------------------------------------------
(* What is recorded has run, and what is answered is so *)

\* Points that rely on what production runs are reached by these steps only.
LEMMA Reaching ==
  ASSUME Typed, Controller
  PROVE  /\ job'.at = "probe" => Await /\ job.at = "started" /\ Arrived /\ ~job.undo /\ JobKept
                                 /\ job.mode = "forward"
         /\ job'.at = "record" => job.at = "probe" /\ PromotedReady /\ JobKept
         /\ job'.at = "ready" => /\ JobKept
                                 /\ \/ job.at = "look" /\ P.remote = job.prior
                                    \/ /\ Await /\ job.at = "started" /\ Arrived /\ ~job.undo
                                       /\ job.mode = "restore"
         /\ job'.at = "reset" => job.at = "ready" /\ PriorReady /\ JobKept
         /\ job'.at = "quarantine" => job.at = "reset" /\ JobKept
         /\ outcome' = "promoted" => outcome' = outcome \/ (job.at = "record" /\ JobKept)
         /\ outcome' \in {"restored", "unrecorded"}
              => outcome' = outcome \/ (job.at = "quarantine" /\ JobKept)
         /\ job'.at # "idle" => outcome' = outcome \/ outcome' = "none"
  <1>1. CASE BeginPromotion
    <2>1. \/ job'.at = "records" /\ outcome' = "none"
          \/ job'.at = "idle" /\ outcome' = "refused"
      BY <1>1, RaiseKeeps DEF BeginPromotion, Idle
    <2>2. QED
      BY <2>1
  <1>2. CASE Check
    <2>1. PICK i \in 1..6 : \/ Go(IF i = 6 THEN "find" ELSE Checks[i + 1])
                            \/ End("refused")
      BY <1>2, PointsOK DEF Check
    <2>2. (IF i = 6 THEN "find" ELSE Checks[i + 1])
            \notin {"probe", "record", "ready", "reset", "quarantine"}
      BY DEF Checks
    <2>3. CASE Go(IF i = 6 THEN "find" ELSE Checks[i + 1])
      <3>1. (IF i = 6 THEN "find" ELSE Checks[i + 1]) \in Points
        BY PointsOK
      <3>2. job'.at = (IF i = 6 THEN "find" ELSE Checks[i + 1]) /\ outcome' = outcome
        BY <2>3, <3>1, RaiseKeeps
      <3>3. QED
        BY <2>2, <3>2
    <2>4. CASE End("refused")
      <3>1. job'.at = "idle" /\ outcome' = "refused"
        BY <2>4, RaiseKeeps
      <3>2. QED
        BY <3>1
    <2>5. QED
      BY <2>1, <2>3, <2>4
  <1>3. CASE Find
    <2>1. CASE Raise
      <3>1. \/ job'.at \in {"look", "find"} /\ outcome' = outcome
            \/ job'.at = "idle" /\ outcome' = "operator"
        BY <2>1, RaiseKeeps
      <3>2. QED
        BY <3>1
    <2>2. CASE Go("patch") \/ Go("stop")
      <3>1. job'.at \in {"patch", "stop"} /\ outcome' = outcome
        BY <2>2, RaiseKeeps, PointsOK
      <3>2. QED
        BY <3>1
    <2>3. CASE job' = [job EXCEPT !.back = P.remote,
                                  !.at = IF P.status = "stopped" THEN "patch" ELSE "stop"]
                 /\ UNCHANGED outcome
      <3>1. job'.at \in {"patch", "stop"}
        BY <2>3 DEF Typed, Jobs
      <3>2. QED
        BY <2>3, <3>1
    <2>4. QED
      BY <1>3, <2>1, <2>2, <2>3 DEF Find
  <1>4. CASE Command
    <2>1. Then \in {"stopped", "update", "updated", "started"}
      BY <1>4 DEF Command, Then
    <2>2. QED
      BY <1>4, <2>1, RaiseKeeps, PointsOK DEF Command
  <1>5. CASE Await
    <2>1. \/ Go("patch") \/ Go("start") \/ Raise \/ (job.undo /\ LeaveDeploy)
          \/ /\ job.at = "started" /\ Arrived /\ ~job.undo
             /\ Go(IF job.mode = "forward" THEN "probe" ELSE "ready")
      BY <1>5 DEF Await
    <2>2. CASE job.undo /\ LeaveDeploy
      BY <2>2, RaiseKeeps DEF LeaveDeploy, Typed, Jobs
    <2>3. CASE /\ job.at = "started" /\ Arrived /\ ~job.undo
               /\ Go(IF job.mode = "forward" THEN "probe" ELSE "ready")
      BY <1>5, <2>3, RaiseKeeps, PointsOK DEF Typed, Jobs
    <2>4. QED
      BY <2>1, <2>2, <2>3, RaiseKeeps, PointsOK
  <1>6. CASE Probe \/ RequirePrior
    BY <1>6, RaiseKeeps, PointsOK DEF Probe, RequirePrior
  <1>7. CASE RecordPromotion \/ ResetLastGood
    <2>1. \/ job.at = "record" /\ (End("promoted") \/ Go("look"))
          \/ job.at = "reset" /\ (Go("quarantine") \/ End("operator"))
      BY <1>7 DEF RecordPromotion, ResetLastGood, Write
    <2>2. CASE job.at = "record" /\ (End("promoted") \/ Go("look"))
      <3>1. /\ JobKept
            /\ \/ job'.at = "idle" /\ outcome' = "promoted"
               \/ job'.at = "look" /\ outcome' = outcome
        BY <2>2, RaiseKeeps, PointsOK
      <3>2. QED
        BY <2>2, <3>1
    <2>3. CASE job.at = "reset" /\ (Go("quarantine") \/ End("operator"))
      <3>1. /\ JobKept
            /\ \/ job'.at = "idle" /\ outcome' = "operator"
               \/ job'.at = "quarantine" /\ outcome' = outcome
        BY <2>3, RaiseKeeps, PointsOK
      <3>2. QED
        BY <2>3, <3>1
    <2>4. QED
      BY <2>1, <2>2, <2>3
  <1>8. CASE Look
    BY <1>8, RaiseKeeps, PointsOK DEF Look, Typed, Jobs
  <1>9. CASE Quarantine \/ Killed
    <2>1. \/ job' = Idle /\ outcome' = "none"
          \/ job.at = "quarantine" /\ (End("restored") \/ End("unrecorded"))
      BY <1>9 DEF Quarantine, Killed
    <2>2. CASE job' = Idle /\ outcome' = "none"
      BY <2>2 DEF Idle
    <2>3. CASE job.at = "quarantine" /\ (End("restored") \/ End("unrecorded"))
      <3>1. job'.at = "idle" /\ JobKept /\ outcome' \in {"restored", "unrecorded"}
        BY <2>3, RaiseKeeps
      <3>2. QED
        BY <2>3, <3>1
    <2>4. QED
      BY <2>1, <2>2, <2>3
  <1>10. QED
    BY <1>1, <1>2, <1>3, <1>4, <1>5, <1>6, <1>7, <1>8, <1>9 DEF Controller

LEMMA RecordingKept ==
  ASSUME Typed, Named, SeenRunning, Recording, Next
  PROVE  Recording'
  <1>1. served \subseteq served'
    BY SeenRunningKept
  <1>2. CASE UNCHANGED <<job, lastGood>>
    BY <1>1, <1>2 DEF Recording, LastGoodServed
  <1>3. CASE Controller
    <2>1. lastGood' # None => lastGood' \in served'
      <3>1. lastGood' \in {lastGood} \cup (IF job.at = "record" THEN {job.cand} ELSE {})
                            \cup (IF job.at = "reset" THEN {job.prior} ELSE {})
        BY <1>3 DEF Controller, BeginPromotion, Check, Find, Command, Await, Probe,
              RecordPromotion, Look, RequirePrior, ResetLastGood, Quarantine, Killed, Write,
              routerVars
      <3>2. QED
        BY <1>1, <3>1 DEF Recording, LastGoodServed
    <2>2. job'.at = "record" => job'.cand \in served'
      BY <1>1, <1>3, Reaching DEF PromotedReady, CanBeReady, SeenRunning, JobKept, P
    <2>3. job'.at = "reset" => job'.prior \in served'
      BY <1>1, <1>3, Reaching DEF PriorReady, CanBeReady, SeenRunning, JobKept, P
    <2>4. QED
      BY <2>1, <2>2, <2>3 DEF Recording, LastGoodServed
  <1>4. QED
    BY <1>2, <1>3, Actors, Apart DEF routerVars

\* A step of a promotion that has begun; only its commands move the containers.
LEMMA InSteps ==
  ASSUME Controller, ~BeginPromotion
  PROVE  job.at # "idle" /\ touched' = touched /\ (Command \/ P' = P)
  <1>1. CASE Check
    <2>1. PICK i \in DOMAIN Checks : job.at = Checks[i]
      BY <1>1 DEF Check
    <2>2. Checks[i] # "idle"
      BY DEF Checks
    <2>3. QED
      BY <1>1, <2>1, <2>2 DEF Check, routerVars, P
  <1>2. CASE Find \/ Command \/ Await
    BY <1>2 DEF Find, Command, Await, routerVars, P
  <1>3. CASE Look \/ Probe \/ RequirePrior \/ Killed
    BY <1>3 DEF Look, Probe, RequirePrior, Killed, routerVars, P
  <1>4. CASE RecordPromotion \/ ResetLastGood \/ Quarantine
    BY <1>4 DEF RecordPromotion, ResetLastGood, Quarantine, P
  <1>5. QED
    BY <1>1, <1>2, <1>3, <1>4 DEF Controller

LEMMA CommandGoes ==
  ASSUME Typed, Command
  PROVE  /\ job'.at # job.at /\ outcome' \in {outcome, "operator"}
         /\ job'.at \notin {"probe", "record", "ready", "reset", "quarantine"}
         /\ job'.at # "idle" => outcome' = outcome
  <1>1. Then \in {"stopped", "update", "updated", "started"} /\ Then # job.at
    BY DEF Command, Then
  <1>2. Go(Then) \/ Raise
    BY DEF Command
  <1>3. Go(Then) => job'.at = Then /\ outcome' = outcome
    BY <1>1, RaiseKeeps, PointsOK
  <1>4. Raise => job'.at \in {"look", "find", "idle"} /\ outcome' \in {outcome, "operator"}
                 /\ (job'.at # "idle" => outcome' = outcome)
    BY RaiseKeeps
  <1>5. QED
    BY <1>1, <1>2, <1>3, <1>4 DEF Command

LEMMA AnsweringKept ==
  ASSUME Typed, Named, Answering, Next
  PROVE  Answering'
  <1>b. "production" \in Boxes /\ "canary" \in Boxes
    BY DEF Boxes
  <1>1. CASE Updater \/ Evidence \/ Others
    <2>j. UNCHANGED <<job, outcome>> /\ (touched => touched')
      <3>1. Others => (touched => touched')
        BY DEF Others, Publish, ByHand, RollbackLastGood, ClearFailure, Settles, ghosts
      <3>2. QED
        BY <1>1, <3>1, Apart
    <2>1. CASE P' = P
      BY <2>j, <2>1 DEF Answering, OutcomeHonest
    <2>2. CASE touched'
      BY <2>j, <2>2 DEF Answering, OutcomeHonest
    <2>3. ASSUME NEW c \in Containers, BySettling(c)
          PROVE  Answering'
      <3>1. P'.remote = P.remote /\ P.status # "running"
        BY <2>3, <1>b DEF BySettling, P, Typed
      <3>2. \A i : P # Running(i)
        BY <3>1 DEF Running
      <3>3. QED
        BY <2>j, <3>1, <3>2 DEF Answering, OutcomeHonest
    <2>4. CASE UNCHANGED <<box, served>>
      BY <2>1, <2>4 DEF P
    <2>5. ASSUME NEW c \in Containers, OfCanary(c)
          PROVE  P' = P
      BY <2>5, <1>b, BoxedKeeps DEF OfCanary, P
    <2>6. ASSUME NEW b \in Boxes, NEW c \in Containers, ByOperator(b, c)
          PROVE  P' = P \/ touched'
      BY <2>6, <1>b, BoxedKeeps DEF ByOperator, P
    <2>7. ASSUME NEW c \in Containers, ByCommand(c)
          PROVE  FALSE
      <3>1. job'.at # job.at
        BY <2>7, CommandGoes DEF ByCommand
      <3>2. QED
        BY <2>j, <3>1
    <2>8. QED
      BY <2>1, <2>2, <2>3, <2>4, <2>5, <2>6, <2>7, Moves
  <1>2. CASE Controller
    <2>o. job'.at # "idle" => outcome' = "none"
      <3>1. CASE BeginPromotion
        <4>1. job'.at # "idle" => outcome' = "none"
          BY <3>1, RaiseKeeps DEF BeginPromotion
        <4>2. QED
          BY <4>1
      <3>2. CASE ~BeginPromotion
        <4>1. job.at # "idle"
          BY <1>2, <3>2, InSteps
        <4>2. QED
          BY <1>2, <4>1, Reaching DEF Answering
      <3>3. QED
        BY <3>1, <3>2
    <2>1. CASE BeginPromotion
      <3>1. job'.at \in {"idle", "records"} /\ outcome' \in {"none", "refused"}
        BY <2>1, RaiseKeeps DEF BeginPromotion, Idle
      <3>2. QED
        BY <2>o, <3>1 DEF Answering, OutcomeHonest
    <2>2. CASE Command
      <3>1. job.at # "idle" /\ outcome = "none"
        BY <2>2 DEF Command, Answering
      <3>2. QED
        BY <2>o, <2>2, <3>1, CommandGoes DEF Answering, OutcomeHonest
    <2>3. CASE ~BeginPromotion /\ ~Command
      <3>1. P' = P /\ touched' = touched /\ outcome = "none" /\ job.at # "idle"
        BY <1>2, <2>3, InSteps DEF Answering
      <3>2. job'.at = "probe" => P.remote = job'.cand
        BY <1>2, Reaching DEF Arrived, Target, JobKept
      <3>3. job'.at = "ready" => P.remote = job'.prior
        BY <1>2, Reaching DEF Arrived, Target, JobKept
      <3>4. CASE ~touched
        <4>1. job'.at = "record" => P = Running(job'.cand)
          BY <1>2, <3>4, Reaching, ContainersOK
             DEF Answering, PromotedReady, CanBeReady, JobKept, Running, Containers, P
        <4>2. job'.at = "reset" => P = Running(job'.prior)
          BY <1>2, <3>4, Reaching, ContainersOK
             DEF Answering, PriorReady, CanBeReady, JobKept, Running, Containers, P
        <4>3. job'.at = "quarantine" => P = Running(job'.prior)
          BY <1>2, <3>4, Reaching DEF Answering, JobKept
        <4>4. /\ outcome' = "promoted" => P = Running(job'.cand)
              /\ outcome' \in {"restored", "unrecorded"} => P = Running(job'.prior)
          BY <1>2, <3>1, <3>4, Reaching DEF Answering, JobKept
        <4>5. QED
          BY <2>o, <3>1, <3>2, <3>3, <4>1, <4>2, <4>3, <4>4 DEF Answering, OutcomeHonest
      <3>5. CASE touched
        BY <2>o, <3>1, <3>5 DEF Answering, OutcomeHonest
      <3>6. QED
        BY <3>4, <3>5
    <2>4. QED
      BY <2>1, <2>2, <2>3
  <1>3. QED
    BY <1>1, <1>2, Actors

-----------------------------------------------------------------------------
(* The invariant, and what it implies *)

LEMMA InitInv == ASSUME ReleaseAssumption, Init PROVE ReleaseInv
  <1>1. Typed
    BY PointsOK, RunningOK DEF ReleaseAssumption, Init, Typed, Maybe, Runs, Windows, Jobs, Outcomes,
          NoRun, NoWindow, Idle, Stages
  <1>2. Named
    BY DEF Init, Named, NoRun, Idle, DeploySteps
  <1>3. SeenRunning
    BY DEF Init, SeenRunning, P, Running, Boxes
  <1>4. Soaking /\ Recording /\ Answering
    BY DEF Init, Soaking, Recording, Answering, LastGoodServed, OutcomeHonest, NoRun, Idle
  <1>5. QED
    BY <1>1, <1>2, <1>3, <1>4 DEF ReleaseInv

LEMMA NextInv == ASSUME ReleaseAssumption, ReleaseInv, [Next]_vars PROVE ReleaseInv'
  <1>1. CASE UNCHANGED vars
    BY <1>1 DEF ReleaseInv, Typed, Named, SeenRunning, Soaking, Recording, Answering,
          LastGoodServed, OutcomeHonest, P, vars, routerVars, ghosts, bounds
  <1>2. CASE Next
    <2>1. Typed'
      BY <1>2, Actors, OthersTyped, UpdaterTyped, ControllerTyped
         DEF ReleaseInv, Controller, Updater, Evidence, Others
    <2>2. QED
      BY <1>2, <2>1, NamedKept, SeenRunningKept, SoakingKept, RecordingKept, AnsweringKept
         DEF ReleaseInv
  <1>3. QED
    BY <1>1, <1>2

LEMMA AlwaysInv == ReleaseAssumption /\ Spec => []ReleaseInv
  <1> SUFFICES ASSUME ReleaseAssumption PROVE Spec => []ReleaseInv
    OBVIOUS
  <1>1. Init => ReleaseInv
    BY InitInv
  <1>2. ReleaseInv /\ [Next]_vars => ReleaseInv'
    BY NextInv
  <1>3. QED
    BY <1>1, <1>2, PTL DEF Spec

\* The router's files, the containers and the actors stay well typed
\* (promote_routeros_release.py, immutable-release-updater.rsc.example).
THEOREM TypeCorrect == ReleaseAssumption /\ Spec => []TypeOK
  <1>1. ReleaseInv => TypeOK
    BY DEF ReleaseInv, Typed, TypeOK, Containers, Maybe, Runs, Windows, Jobs, Outcomes
  <1>2. QED
    BY <1>1, AlwaysInv, PTL

\* The controller writes to production only an image that the canary ran during a
\* whole soak, whatever evidence was collected and whoever changed containers by
\* hand (promote_routeros_release.py 289-445).
THEOREM OnlySoaked == ReleaseAssumption /\ Spec => []PromotedWasSoaked
  <1>1. ReleaseInv => PromotedWasSoaked
    BY DEF ReleaseInv, Soaking, PromotedWasSoaked, Writing, DeploySteps
  <1>2. QED
    BY <1>1, AlwaysInv, PTL

\* The journal's last-good image is one that production has run, though commands
\* are lost and pulls fail (promote_routeros_release.py 400-445).
THEOREM LastGoodHasRun == ReleaseAssumption /\ Spec => []LastGoodServed
  <1>1. ReleaseInv => LastGoodServed
    BY DEF ReleaseInv, Recording
  <1>2. QED
    BY <1>1, AlwaysInv, PTL

\* After "promoted" the candidate serves and after "restored" the prior image,
\* until production is changed by hand (promote_routeros_release.py 330-445).
THEOREM AnswersHold == ReleaseAssumption /\ Spec => []OutcomeHonest
  <1>1. ReleaseInv => OutcomeHonest
    BY DEF ReleaseInv, Answering
  <1>2. QED
    BY <1>1, AlwaysInv, PTL
=============================================================================
