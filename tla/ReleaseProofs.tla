---------------------------- MODULE ReleaseProofs ----------------------------
(***************************************************************************)
(* The current release can always be activated again, the records tell     *)
(* what runs, and a deploy leaves a way back: for any releases, any number *)
(* of operations, failures and interruptions, and any number of releases   *)
(* kept.                                                                   *)
(*                                                                         *)
(* What the steps of a switch have done so far is known from where the     *)
(* operation stands (SwitchSoFar); outside a switch the records and the    *)
(* containers agree (Agreement), because a switch that does not reach its  *)
(* end clears `settled'.                                                   *)
(***************************************************************************)
EXTENDS Releases, TLAPS

OpShape ==
    \/ op = NoOp
    \/ /\ op.kind = "deploy" /\ op.sha \in Shas /\ ops # 0
       /\ op.pc # "idle"
    \/ /\ op.kind = "rollback" /\ op.sha \in Shas
       /\ op.pc \in Switching \cup {"record", "link"}
    \/ /\ op.kind = "restore" /\ op.sha \in Shas /\ op.from \in Shas
       /\ op.pc \in Switching \cup {"record", "link"}

\* The release the operation found current.
FoundCurrent == op.pc \in Switching \cup {"record", "link"} => op.from = link

SwitchSoFar ==
    /\ op.pc \in {"app", "worker", "reload", "record", "link"} =>
          Deployable(Target) /\ caddyfile = Target
    /\ op.pc \in {"worker", "reload", "record", "link"} =>
          app = [sha |-> Target, build |-> image[Target]]
    /\ op.pc \in {"reload", "record", "link"} => worker = app
    /\ op.pc \in {"record", "link"} => loaded = Target

Recorded ==
    /\ (op.pc = "link" /\ op.kind = "deploy" /\ op.from \notin {NoSha, op.sha})
          => previous = op.from
    /\ op.pc = "prune" => op.kind = "deploy" /\ link = op.sha

Agreement ==
    (settled /\ ~HalfDone) =>
        /\ app.sha = link /\ worker.sha = link
        /\ loaded = link /\ caddyfile = link

IInv ==
    /\ TypeOK /\ OpShape /\ FoundCurrent /\ SwitchSoFar /\ Recorded /\ Agreement
    /\ CurrentIsDeployable /\ FreshRollbackTarget
------------------------------------------------------------------------------
\* The invariant of the releases holds of the host as it is set up,
THEOREM InitEstablishes == Init => IInv
BY ShasAssumption, BoundsAssumption
DEF Init, IInv, TypeOK, OpShape, FoundCurrent, SwitchSoFar, Recorded, Agreement,
    CurrentIsDeployable, FreshRollbackTarget, NoOp, Stopped, Running, Releases,
    Switching, HalfDone, Deployable, Target

LEMMA DeployAtPreflight == OpShape /\ op.pc = "preflight" => op.kind = "deploy"
BY DEF OpShape, NoOp, Switching

\* is kept by every step of the release scripts,
THEOREM StepPreserves == IInv /\ [Next]_vars => IInv'
<1> SUFFICES ASSUME IInv, [Next]_vars PROVE IInv'
  OBVIOUS
<1> USE ShasAssumption, BoundsAssumption
    DEF IInv, TypeOK, OpShape, FoundCurrent, SwitchSoFar, Recorded, Agreement,
        CurrentIsDeployable, FreshRollbackTarget, NoOp, Running, Releases,
        Switching, HalfDone, Deployable, Target, Goto, Finish,
        disk, serving, records
<1>1. ASSUME NEW s \in Shas, BeginDeploy(s) PROVE IInv'
  <2> USE <1>1 DEF BeginDeploy
  <2>1. op' = [kind |-> "deploy", sha |-> s, pc |-> "extract", from |-> NoSha, before |-> 0]
    OBVIOUS
  <2>2. TypeOK' /\ OpShape'
    BY <2>1
  <2>3. FoundCurrent' /\ SwitchSoFar' /\ Recorded' /\ CurrentIsDeployable' /\ FreshRollbackTarget'
    BY <2>1
  <2>4. Agreement'
    BY <2>1
  <2> QED
    BY <2>2, <2>3, <2>4
<1>2. ASSUME NEW s \in Shas, BeginRollback(s) PROVE IInv'
  <2> USE <1>2 DEF BeginRollback
  <2>1. op' = [kind |-> "rollback", sha |-> s, pc |-> "activate", from |-> link, before |-> 0]
    OBVIOUS
  <2>2. TypeOK' /\ OpShape'
    BY <2>1
  <2>3. FoundCurrent' /\ SwitchSoFar' /\ Recorded' /\ CurrentIsDeployable' /\ FreshRollbackTarget'
    BY <2>1
  <2>4. Agreement'
    BY <2>1
  <2> QED
    BY <2>2, <2>3, <2>4
<1>3. ASSUME NEW s \in Shas, PruneOne(s) PROVE IInv'
  BY <1>3 DEF PruneOne, Kept, InUse
<1>4. CASE Extract
  BY <1>4 DEF Extract
<1>5. CASE Build
  BY <1>5 DEF Build
<1>6. CASE BuildFails
  BY <1>6 DEF BuildFails, RemovedByFailedBuild, InUse
<1>7. CASE Refused
  BY <1>7 DEF Refused
<1>8. CASE Preflight
  <2> USE <1>8 DEF Preflight
  <2>1. op' = [kind |-> "deploy", sha |-> op.sha, pc |-> "activate", from |-> link,
               before |-> app.build]
    <3>1. op.kind = "deploy"
      BY DeployAtPreflight
    <3> QED
      BY <3>1
  <2>2. TypeOK' /\ OpShape'
    BY <2>1
  <2>3. FoundCurrent' /\ SwitchSoFar' /\ Recorded' /\ CurrentIsDeployable' /\ FreshRollbackTarget'
    BY <2>1
  <2>4. Agreement'
    BY <2>1
  <2> QED
    BY <2>2, <2>3, <2>4
<1>9. CASE CopyCaddyfile
  BY <1>9 DEF CopyCaddyfile
<1>10. CASE StartApp
  BY <1>10 DEF StartApp
<1>11. CASE StartWorker
  BY <1>11 DEF StartWorker
<1>12. CASE ReloadProxy
  BY <1>12 DEF ReloadProxy
<1>13. CASE ActivationFails
  <2> USE <1>13 DEF ActivationFails
  <2>1. CASE op.kind = "deploy" /\ op.from # NoSha
    <3>1. op' = [kind |-> "restore", sha |-> op.sha, pc |-> "activate", from |-> op.from,
                 before |-> op.before]
      BY <2>1
    <3>2. TypeOK' /\ OpShape'
      BY <2>1, <3>1
    <3>3. FoundCurrent' /\ SwitchSoFar' /\ Recorded' /\ CurrentIsDeployable' /\ FreshRollbackTarget'
      BY <2>1, <3>1
    <3>4. Agreement'
      BY <3>1
    <3> QED
      BY <3>2, <3>3, <3>4
  <2>2. CASE ~(op.kind = "deploy" /\ op.from # NoSha)
    <3>1. /\ op' = NoOp
          /\ settled' => settled /\ op.kind # "restore" /\ op.pc = "activate"
      BY <2>2
    <3>2. settled' \in BOOLEAN
      BY <2>2
    <3>3. TypeOK' /\ OpShape'
      BY <3>1, <3>2
    <3>4. FoundCurrent' /\ SwitchSoFar' /\ Recorded' /\ CurrentIsDeployable' /\ FreshRollbackTarget'
      BY <3>1
    <3>5. Agreement'
      BY <3>1
    <3> QED
      BY <3>3, <3>4, <3>5
  <2> QED
    BY <2>1, <2>2
<1>14. CASE WritePrevious
  BY <1>14 DEF WritePrevious, PreviousAfter
<1>15. CASE SetCurrent
  BY <1>15 DEF SetCurrent
<1>16. CASE PruneDone
  BY <1>16 DEF PruneDone
<1>17. CASE Killed
  <2> USE <1>17 DEF Killed
  <2>1. op' = NoOp /\ (settled' => settled /\ ~HalfDone)
    OBVIOUS
  <2>2. TypeOK' /\ OpShape'
    BY <2>1
  <2>3. FoundCurrent' /\ SwitchSoFar' /\ Recorded' /\ CurrentIsDeployable' /\ FreshRollbackTarget'
    BY <2>1
  <2>4. Agreement'
    BY <2>1
  <2> QED
    BY <2>2, <2>3, <2>4
<1>18. CASE Reboot
  <2> USE <1>18 DEF Reboot
  <2>1. op' = NoOp /\ (settled' => settled /\ ~HalfDone)
    OBVIOUS
  <2>2. TypeOK' /\ OpShape'
    BY <2>1
  <2>3. FoundCurrent' /\ SwitchSoFar' /\ Recorded' /\ CurrentIsDeployable' /\ FreshRollbackTarget'
    BY <2>1
  <2>4. Agreement'
    BY <2>1
  <2> QED
    BY <2>2, <2>3, <2>4
<1>19. CASE UNCHANGED vars
  BY <1>19 DEF vars
<1> QED
  BY <1>1, <1>2, <1>3, <1>4, <1>5, <1>6, <1>7, <1>8, <1>9, <1>10, <1>11, <1>12, <1>13, <1>14, <1>15, <1>16, <1>17, <1>18, <1>19 DEF Next

\* and so holds of every state.
THEOREM Invariant == Spec => []IInv
<1>1. Init => IInv
  BY InitEstablishes
<1>2. IInv /\ [Next]_vars => IInv'
  BY StepPreserves
<1> QED
  BY <1>1, <1>2, PTL DEF Spec
------------------------------------------------------------------------------
\* The release `current' names has its directory and its image
\* (remote-release.sh:485, 737-773), whatever failed or was killed.
THEOREM CurrentStaysDeployable == Spec => []CurrentIsDeployable
<1>1. IInv => CurrentIsDeployable
  BY DEF IInv
<1> QED
  BY <1>1, Invariant, PTL

\* Whoever asks while no switch is half done is told what serves
\* (remote-release.sh:592-618, 800-839).
THEOREM RecordsTellWhatServes == Spec => []SettledServesCurrent
<1>1. IInv => SettledServesCurrent
  <2> SUFFICES ASSUME IInv, settled, op = NoOp
               PROVE  link \in {app.sha} \cap {worker.sha} \cap {loaded}
    BY DEF SettledServesCurrent
  <2>1. ~HalfDone
    BY DEF HalfDone, NoOp
  <2> QED
    BY <2>1 DEF IInv, Agreement
<1> QED
  BY <1>1, Invariant, PTL

\* A deploy that replaced a release leaves it recorded and activatable
\* (remote-release.sh:812-816).
THEOREM DeployLeavesWayBack == Spec => []FreshRollbackTarget
<1>1. IInv => FreshRollbackTarget
  BY DEF IInv
<1> QED
  BY <1>1, Invariant, PTL

\* The `current' link moves only to what app, worker and proxy run
\* (remote-release.sh:611-617 before 815 and 838).
THEOREM RecordsFollowContainers == Spec => LinkFollowsService
<1>1. IInv /\ [Next]_vars =>
        [link' # link => /\ app = [sha |-> link', build |-> image[link']]
                         /\ worker = app
                         /\ loaded = link']_vars
  <2> SUFFICES ASSUME IInv, Next, link' # link
               PROVE  /\ app = [sha |-> link', build |-> image[link']]
                      /\ worker = app
                      /\ loaded = link'
    BY DEF vars
  <2>1. SetCurrent
    BY DEF Next, BeginDeploy, BeginRollback, PruneOne, Extract, Build, BuildFails,
           Refused, Preflight, CopyCaddyfile, StartApp, StartWorker, ReloadProxy,
           ActivationFails, WritePrevious, PruneDone, Killed, Reboot, records
  <2>2. op.pc = "link" /\ link' = Target
    BY <2>1 DEF SetCurrent
  <2> QED
    BY <2>2 DEF IInv, SwitchSoFar
<1> QED
  BY <1>1, Invariant, PTL DEF LinkFollowsService, Spec
=============================================================================
