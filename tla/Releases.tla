------------------------------ MODULE Releases ------------------------------
(***************************************************************************)
(* deploy/remote-release.sh: how a release is deployed, switched to and    *)
(* rolled back on the production host.  The script holds one lock, so one  *)
(* operation runs at a time; what makes it hard is that it may be killed   *)
(* between any two of its steps, that a step may fail, and that the host   *)
(* may reboot, while the state lies in six places: the release             *)
(* directories, the tagged images, the containers, the shared Caddyfile,   *)
(* the `current' link and the previous-release file.                       *)
(*                                                                         *)
(* A build is named by the operation that made it: `docker build --tag'    *)
(* moves the tag of a release built before to the new image.               *)
(***************************************************************************)
EXTENDS Naturals, FiniteSets

CONSTANTS
    Shas,       \* the releases, by full Git SHA
    NoSha,      \* "no release"
    Keep,       \* releases prune_old_releases always keeps (5 in the script)
    MaxOps      \* bound: operations started

ASSUME ShasAssumption == NoSha \notin Shas
ASSUME BoundsAssumption == Keep \in Nat /\ MaxOps \in Nat

VARIABLES
    extracted,  \* the operation that extracted releases/<sha>; 0: no directory
    image,      \* the operation whose build marketvalley:<sha> names; 0: none
    app,        \* what the app container runs
    worker,     \* what the lifecycle-worker container runs
    caddyfile,  \* the release whose Caddyfile shared/Caddyfile is
    loaded,     \* the release whose Caddyfile the proxy has loaded
    link,       \* the release the `current' link names
    previous,   \* the release the previous-release file names
    op,         \* the operation that holds deployment.lock
    ops,        \* operations started
    settled     \* history: no switch was left half done

disk    == <<extracted, image>>
serving == <<app, worker, loaded>>
records == <<link, previous>>
vars    == <<disk, serving, caddyfile, records, op, ops, settled>>

Releases == Shas \cup {NoSha}
Running  == [sha : Releases, build : 0..MaxOps]
Stopped  == [sha |-> NoSha, build |-> 0]

NoOp == [kind |-> "none", sha |-> NoSha, pc |-> "idle", from |-> NoSha, before |-> 0]

\* activate_release's steps, in their order.
Switching == {"activate", "app", "worker", "reload"}

TypeOK ==
    /\ extracted \in [Shas -> 0..MaxOps]
    /\ image \in [Shas -> 0..MaxOps]
    /\ app \in Running
    /\ worker \in Running
    /\ {caddyfile, loaded, link, previous} \subseteq Releases
    /\ op \in [kind : {"none", "deploy", "restore", "rollback"},
               sha : Releases, from : Releases, before : 0..MaxOps,
               pc : {"idle", "extract", "build", "preflight", "record", "link", "prune"}
                        \cup Switching]
    /\ ops \in 0..MaxOps
    /\ settled \in BOOLEAN

Init ==
    /\ extracted = [s \in Shas |-> 0]
    /\ image = [s \in Shas |-> 0]
    /\ app = Stopped /\ worker = Stopped
    /\ caddyfile = NoSha /\ loaded = NoSha
    /\ link = NoSha /\ previous = NoSha
    /\ op = NoOp
    /\ ops = 0
    /\ settled = TRUE

-----------------------------------------------------------------------------
(* What the steps look at. *)

\* activate_release refuses a release without its directory or its image.
Deployable(s) == s \in Shas /\ extracted[s] # 0 /\ image[s] # 0

\* `docker image rm' refuses an image a container uses.
InUse(s) == s \in {app.sha, worker.sha}

\* Whether a failed build removes the tag: only one that had no image.
RemovedByFailedBuild(s) == image[s] = 0

\* The release activate_release is called with.
Target == IF op.kind = "restore" THEN op.from ELSE op.sha

\* Mutant: only the newest and the rollback release.
KeptWithoutActive(s) ==
    \/ s = op.from
    \/ Cardinality({t \in Shas : extracted[t] > extracted[s]}) < Keep

\* Mutant: only the newest and the active release.
KeptWithoutRollback(s) ==
    \/ s = op.sha
    \/ Cardinality({t \in Shas : extracted[t] > extracted[s]}) < Keep

\* prune_old_releases: the active and the rollback release, and the newest.
Kept(s) ==
    \/ s \in {op.sha, op.from}
    \/ Cardinality({t \in Shas : extracted[t] > extracted[s]}) < Keep

Goto(pc) == op' = [op EXCEPT !.pc = pc]

Finish == op' = NoOp

-----------------------------------------------------------------------------
(* deploy_release, up to the switch. *)

BeginDeploy(s) ==
    /\ op = NoOp /\ ops < MaxOps
    /\ ops' = ops + 1
    /\ op' = [NoOp EXCEPT !.kind = "deploy", !.sha = s, !.pc = "extract"]
    /\ UNCHANGED <<disk, serving, caddyfile, records, settled>>

\* The directory of a release extracted before is kept as it is.
Extract ==
    /\ op.pc = "extract"
    /\ extracted' = [extracted EXCEPT ![op.sha] = IF @ = 0 THEN ops ELSE @]
    /\ Goto("build")
    /\ UNCHANGED <<image, serving, caddyfile, records, ops, settled>>

Build ==
    /\ op.pc = "build"
    /\ image' = [image EXCEPT ![op.sha] = ops]
    /\ Goto("preflight")
    /\ UNCHANGED <<extracted, serving, caddyfile, records, ops, settled>>

BuildFails ==
    /\ op.pc = "build"
    /\ image' = [image EXCEPT ![op.sha] =
                    IF RemovedByFailedBuild(op.sha) /\ ~InUse(op.sha) THEN 0 ELSE @]
    /\ Finish
    /\ UNCHANGED <<extracted, serving, caddyfile, records, ops, settled>>

\* The archive is refused, or the image fails a preflight: it keeps its tag.
Refused ==
    /\ op.pc \in {"extract", "preflight"}
    /\ Finish
    /\ UNCHANGED <<disk, serving, caddyfile, records, ops, settled>>

Preflight ==
    /\ op.pc = "preflight"
    /\ op' = [op EXCEPT !.pc = "activate", !.from = link, !.before = app.build]
    /\ UNCHANGED <<disk, serving, caddyfile, records, ops, settled>>

\* rollback_release, for the SHA it is given or the one it last recorded.
BeginRollback(s) ==
    /\ op = NoOp /\ ops < MaxOps
    /\ ops' = ops + 1
    /\ op' = [NoOp EXCEPT !.kind = "rollback", !.sha = s, !.pc = "activate", !.from = link]
    /\ UNCHANGED <<disk, serving, caddyfile, records, settled>>

-----------------------------------------------------------------------------
(* activate_release. *)

\* Mutant: a restore leaves the Caddyfile of the release that failed.
CopyCaddyfileOnce ==
    /\ op.pc = "activate" /\ Deployable(Target)
    /\ caddyfile' = IF op.kind = "restore" THEN caddyfile ELSE Target
    /\ Goto("app")
    /\ UNCHANGED <<disk, serving, records, ops, settled>>

CopyCaddyfile ==
    /\ op.pc = "activate" /\ Deployable(Target)
    /\ caddyfile' = Target
    /\ Goto("app")
    /\ UNCHANGED <<disk, serving, records, ops, settled>>

StartApp ==
    /\ op.pc = "app"
    /\ app' = [sha |-> Target, build |-> image[Target]]
    /\ Goto("worker")
    /\ UNCHANGED <<disk, worker, loaded, caddyfile, records, ops, settled>>

\* Once the app is healthy; compose starts the worker after it.
StartWorker ==
    /\ op.pc = "worker"
    /\ worker' = [sha |-> Target, build |-> image[Target]]
    /\ Goto("reload")
    /\ UNCHANGED <<disk, app, loaded, caddyfile, records, ops, settled>>

ReloadProxy ==
    /\ op.pc = "reload"
    /\ loaded' = caddyfile
    /\ Goto("record")
    /\ UNCHANGED <<disk, app, worker, caddyfile, records, ops, settled>>

\* A check, a copy, a container or a health wait fails: a deploy turns to the
\* release that was current, everything else is left for manual recovery.
ActivationFails ==
    /\ op.pc \in Switching
    /\ IF op.kind = "deploy" /\ op.from # NoSha
       THEN /\ op' = [op EXCEPT !.kind = "restore", !.pc = "activate"]
            /\ UNCHANGED settled
       ELSE /\ Finish
            /\ settled' = (settled /\ op.kind # "restore" /\ op.pc = "activate")
    /\ UNCHANGED <<disk, serving, caddyfile, records, ops>>

-----------------------------------------------------------------------------
(* The records, after a switch that succeeded. *)

\* The release a successful switch leaves in previous-release.
PreviousAfter ==
    IF op.kind = "restore" \/ op.from = NoSha \/ (op.kind = "deploy" /\ op.from = op.sha)
    THEN previous
    ELSE op.from

WritePrevious ==
    /\ op.pc = "record"
    /\ previous' = PreviousAfter
    /\ Goto("link")
    /\ UNCHANGED <<disk, serving, caddyfile, link, ops, settled>>

SetCurrent ==
    /\ op.pc = "link"
    /\ link' = Target
    /\ IF op.kind = "deploy" THEN Goto("prune") ELSE Finish
    /\ settled' = TRUE
    /\ UNCHANGED <<disk, serving, caddyfile, previous, ops>>

PruneOne(s) ==
    /\ op.pc = "prune"
    /\ extracted[s] # 0 /\ ~Kept(s)
    /\ extracted' = [extracted EXCEPT ![s] = 0]
    /\ image' = [image EXCEPT ![s] = IF InUse(s) THEN @ ELSE 0]
    /\ UNCHANGED <<serving, caddyfile, records, op, ops, settled>>

PruneDone ==
    /\ op.pc = "prune"
    /\ \A s \in Shas : extracted[s] # 0 => Kept(s)
    /\ Finish
    /\ UNCHANGED <<disk, serving, caddyfile, records, ops, settled>>

-----------------------------------------------------------------------------
(* The script is killed, or the host reboots and restarts the containers:  *)
(* the proxy then loads whatever shared/Caddyfile holds.                   *)

HalfDone ==
    \/ op.kind = "restore"
    \/ op.pc \in {"app", "worker", "reload", "record", "link"}

Killed ==
    /\ op # NoOp
    /\ Finish
    /\ settled' = (settled /\ ~HalfDone)
    /\ UNCHANGED <<disk, serving, caddyfile, records, ops>>

Reboot ==
    /\ loaded' = caddyfile
    /\ Finish
    /\ settled' = (settled /\ ~HalfDone)
    /\ UNCHANGED <<disk, app, worker, caddyfile, records, ops>>

Next ==
    \/ \E s \in Shas : BeginDeploy(s) \/ BeginRollback(s) \/ PruneOne(s)
    \/ Extract \/ Build \/ BuildFails \/ Refused \/ Preflight
    \/ CopyCaddyfile \/ StartApp \/ StartWorker \/ ReloadProxy \/ ActivationFails
    \/ WritePrevious \/ SetCurrent \/ PruneDone
    \/ Killed \/ Reboot

Spec == Init /\ [][Next]_vars

-----------------------------------------------------------------------------
(***************************************************************************)
(* Properties                                                              *)
(***************************************************************************)

\* The release `current' names can be switched to again: its directory and its
\* image survive failed builds, pruning and every interruption, however often
\* older releases are deployed again after newer ones failed.
CurrentIsDeployable == link # NoSha => Deployable(link)

\* Unless a switch was left half done, whoever asks for the current release is
\* told what really runs: app, worker and proxy are all of that release.
SettledServesCurrent ==
    (settled /\ op = NoOp) => link \in {app.sha} \cap {worker.sha} \cap {loaded}

\* A deploy that replaced another release has left a way back when it prunes:
\* previous-release names the one it replaced, and that one can be activated.
FreshRollbackTarget ==
    (op.pc = "prune" /\ op.from \notin {NoSha, op.sha})
        => (previous = op.from /\ Deployable(previous))

\* The records never run ahead of the containers: `current' moves to a release
\* only while app, worker and proxy run it, on the build its tag names.
LinkFollowsService ==
    [][link' # link => /\ app = [sha |-> link', build |-> image[link']]
                       /\ worker = app
                       /\ loaded = link']_vars

------------------------------------------------------------------------------
(* What the documents say and the code does not do.                           *)

\* docs/deployment.md:191: a failed activation restores the image that ran
\* before.  What is restored is the tag of the release that was current.
RestoreBringsBackImage ==
    (settled /\ op.kind = "restore" /\ op.pc = "link") => app.build = op.before

\* decisions/0019:30: the same rollback is run again when an answer was lost,
\* which must then change nothing about the way back.
RollbackIsIdempotent ==
    [][(op.kind = "rollback" /\ op.from = op.sha) => previous' = previous]_vars

=============================================================================
