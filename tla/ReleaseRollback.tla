--------------------------- MODULE ReleaseRollback ---------------------------
(***************************************************************************)
(* Publishing a candidate release and rolling it back: publication-run.sh, *)
(* rollback-run.sh with the RollbackEngine, and the restore-run.sh that it *)
(* hands over to, against one host that serves customers.  The scripts     *)
(* share the lease of lock.sh, the publication state files and the         *)
(* publication fence.  Any command of a script can fail, any script can be *)
(* killed or signalled, and a rollback is retried under the same operation.*)
(*                                                                         *)
(* The module starts where prepare-release-backup.sh ends: the backup B0   *)
(* with watermark W0 exists and the proxy is isolated.  A watermark stands *)
(* for the rows, files and audit it projects: how many customer writes     *)
(* followed B0, whether the candidate made one of them ("forward"), and    *)
(* whether pg_restore was cut off half way.                                *)
(***************************************************************************)
EXTENDS Naturals

CONSTANTS
    MaxWrites,     \* bound: customer writes
    MaxAttempts,   \* bound: runs of rollback-run.sh
    MaxFaults,     \* bound: failing commands, killed and signalled scripts
    Faults         \* the kinds of fault that happen

FaultKinds == {"command", "audit", "kill", "signal"}

ASSUME BoundsAssumption == {MaxWrites, MaxAttempts, MaxFaults} \subseteq Nat
ASSUME FaultsAssumption == Faults \subseteq FaultKinds

VARIABLES
    \* PublicationState
    stage,         \* the stage in the state file
    sealed,        \* the stage whose digest is in the .sha256 file
    marker,        \* the irreversible .public-cutover file exists
    \* the host
    proxy,         \* is the public entrypoint running?
    app,           \* which release the app container is of
    up,            \* is the app container running?
    fence,         \* is customer traffic blocked by the publication fence?
    data,          \* the watermark that capture-watermark would compute
    acked,         \* customer writes ever acknowledged
    lease,         \* owner of the PR2A lock directory
    \* RollbackClock
    late,          \* have RTO_LIMIT_SECONDS passed since the declaration?
    clock,         \* the completion that the RTO record holds
    \* publication-run.sh
    pub, target,
    \* rollback-run.sh and what it runs
    rb,
    action,        \* the action chosen before the lease
    claim,         \* the operator's word that the proxy was always isolated
    declared,      \* the watermark that the decision uses
    initial,       \* services that restore-run.sh found running
    restored,      \* the restore operation's database_restored checkpoint
    compatible,    \* the release record's compatibility verdict
    result,        \* what the last attempt reported
    attempts, faults

stateFiles == <<stage, sealed, marker>>
services   == <<proxy, app, up>>
host       == <<services, fence, data, acked>>
clocks     == <<late, clock>>
pubVars    == <<pub, target>>
memory     == <<action, claim, declared, initial, restored, attempts>>
rbVars     == <<rb, result, memory>>
vars == <<stateFiles, host, lease, clocks, pubVars, rbVars, compatible, faults>>

Stages  == <<"prepared", "migrated", "isolated_validated", "public_cutover">>
StageOf(s) == CHOOSE i \in DOMAIN Stages : Stages[i] = s
Watermark == [writes : 0..MaxWrites, forward : BOOLEAN, partial : BOOLEAN]
W0      == [writes |-> 0, forward |-> FALSE, partial |-> FALSE]
Broken  == [W0 EXCEPT !.partial = TRUE]
Results == {"none", "busy", "refused", "decision", "completed", "rto_exceeded",
            "rolled_forward", "failed_isolated", "failed"}

\* Where rollback-run.sh is while it, or restore-run.sh for it, owns the lease.
Freezing   == {"execute", "freeze", "recheck", "fence", "activate"}
Switching  == {"isolate", "switch", "check", "openStable", "readyStable", "finish"}
Forwarding == {"reisolate", "forward", "openCandidate", "readyCandidate", "giveUp"}
Restoring  == {"preflight", "retain", "database", "files", "startApp", "startProxy", "external"}
Accepting  == {"assert", "verify", "openRestored", "publish", "complete"}
Unleased   == {"idle", "lock", "restoreLock", "relock"}

TypeOK ==
    /\ {stage, sealed} \subseteq {"none"} \cup {Stages[i] : i \in DOMAIN Stages}
    /\ {marker, proxy, up, fence, late, claim, restored, compatible} \subseteq BOOLEAN
    /\ app \in {"stable", "candidate"}
    /\ {data, declared} \subseteq Watermark
    /\ acked \in 0..MaxWrites
    /\ lease \in {"free", "publication", "rollback", "restore", "dead"}
    /\ clock \in {"open", "passed", "exceeded"}
    /\ pub \in {"idle", "command", "marker", "state", "seal", "proxy"}
    /\ target \in {Stages[i] : i \in DOMAIN Stages}
    /\ rb \in Unleased \cup Freezing \cup Switching \cup Forwarding \cup Restoring \cup Accepting
    /\ action \in {"none", "restore", "switch", "decision"}
    /\ initial \in [proxy : BOOLEAN, up : BOOLEAN]
    /\ result \in Results
    /\ attempts \in 0..MaxAttempts /\ faults \in 0..MaxFaults

Init ==
    /\ stage = "none" /\ sealed = "none" /\ marker = FALSE
    /\ proxy = FALSE /\ app = "stable" /\ up = TRUE /\ fence = FALSE
    /\ data = W0 /\ acked = 0 /\ lease = "free"
    /\ late = FALSE /\ clock = "open"
    /\ pub = "idle" /\ target = "prepared"
    /\ rb = "idle" /\ action = "none" /\ claim = FALSE /\ declared = W0
    /\ initial = [proxy |-> FALSE, up |-> FALSE] /\ restored = FALSE
    /\ compatible \in BOOLEAN
    /\ result = "none" /\ attempts = 0 /\ faults = 0

-----------------------------------------------------------------------------
(* PublicationState.read and the choice of a path. *)

\* PublicationState.read accepts the files.
StateReadable ==
    /\ stage # "none"
    /\ sealed = stage
    /\ marker <=> stage = "public_cutover"

\* choose_rollback_path: the restore needs positive proof of all conditions.
PrePublicProven(w, isolated) ==
    /\ StateReadable
    /\ stage # "public_cutover"
    /\ isolated
    /\ w = W0

\* Faulty variant: the compatibility verdict is not consulted.
ActionForAnyVerdict(w, isolated) ==
    IF PrePublicProven(w, isolated) THEN "restore" ELSE "switch"

\* inspect-action and RollbackEngine.run.
ActionFor(w, isolated) ==
    IF PrePublicProven(w, isolated) THEN "restore"
    ELSE IF compatible THEN "switch" ELSE "decision"

-----------------------------------------------------------------------------
(* Customers, time, and the operator. *)

Public == proxy /\ up /\ ~fence

CustomerWrite ==
    /\ Public
    /\ acked < MaxWrites
    /\ acked' = acked + 1
    /\ data'  = [data EXCEPT !.writes = @ + 1, !.forward = @ \/ app = "candidate"]
    /\ UNCHANGED <<stateFiles, services, fence, lease, clocks, pubVars, rbVars, compatible, faults>>

LimitPasses ==
    /\ attempts > 0 /\ ~late
    /\ late' = TRUE
    /\ UNCHANGED <<stateFiles, host, lease, clock, pubVars, rbVars, compatible, faults>>

\* The lock directory of a dead owner is removed by hand.
ClearStaleLease ==
    /\ lease = "dead"
    /\ lease' = "free"
    /\ UNCHANGED <<stateFiles, host, clocks, pubVars, rbVars, compatible, faults>>

-----------------------------------------------------------------------------
(* publication-run.sh *)

PubUnchanged == UNCHANGED <<clocks, rbVars, compatible, faults>>

PubBegin ==
    /\ pub = "idle" /\ lease = "free"
    /\ \E i \in DOMAIN Stages : target' = Stages[i]
    /\ lease' = "publication"
    /\ pub' = "command"
    /\ UNCHANGED <<stateFiles, host>> /\ PubUnchanged

\* release_pr2a_lock only removes the script's own lease.
PubExit ==
    /\ pub' = "idle" /\ UNCHANGED target
    /\ lease' = IF lease = "publication" THEN "free" ELSE lease

\* The migration deploys the candidate behind the isolated proxy; the isolated
\* validation and verify-artifacts change nothing.
PubCommand ==
    /\ pub = "command"
    /\ app' = IF target = "migrated" THEN "candidate" ELSE app
    /\ up'  = (up \/ target = "migrated")
    /\ pub' = "marker"
    /\ UNCHANGED <<stateFiles, proxy, fence, data, acked, lease, target>> /\ PubUnchanged

\* prepare refuses a state file or a marker that exists; advance reads the
\* state and moves by exactly one stage.  Both assert the lease.
Advances ==
    /\ lease = "publication"
    /\ IF target = "prepared" THEN stage = "none" /\ ~marker
       ELSE StateReadable /\ StageOf(target) = StageOf(stage) + 1

\* The cutover marker is created before the state file is replaced.
PubMarker ==
    /\ pub = "marker"
    /\ IF Advances
       THEN /\ marker' = (marker \/ target = "public_cutover")
            /\ pub' = "state"
            /\ UNCHANGED <<lease, target>>
       ELSE PubExit /\ UNCHANGED marker
    /\ UNCHANGED <<stage, sealed, host>> /\ PubUnchanged

PubState ==
    /\ pub = "state"
    /\ stage' = target
    /\ pub' = "seal"
    /\ UNCHANGED <<sealed, marker, host, lease, target>> /\ PubUnchanged

PubSeal ==
    /\ pub = "seal"
    /\ sealed' = stage
    /\ IF target = "public_cutover" THEN pub' = "proxy" /\ UNCHANGED <<lease, target>>
       ELSE PubExit
    /\ UNCHANGED <<stage, marker, host>> /\ PubUnchanged

\* authorize-proxy-start and the publication command that it authorizes, one step.
PubProxy ==
    /\ pub = "proxy"
    /\ proxy' = (proxy \/ (lease = "publication" /\ StateReadable))
    /\ PubExit
    /\ UNCHANGED <<stateFiles, app, up, fence, data, acked>> /\ PubUnchanged

-----------------------------------------------------------------------------
(* rollback-run.sh: decision, lease, freeze. *)

Outside == UNCHANGED <<stateFiles, pubVars, compatible>>

Goto(s) == rb' = s /\ UNCHANGED <<result, memory>>

\* release_pr2a_lock of rollback-run.sh or of the restore-run.sh it runs.
Release == lease' = IF lease \in {"rollback", "restore"} THEN "free" ELSE lease

Exit(outcome) == rb' = "idle" /\ result' = outcome /\ Release /\ UNCHANGED memory

\* declare-rollback and inspect-action, before the lease.  The operator supplies
\* a watermark captured earlier and the claim about isolation, which may be wrong.
RbInspect ==
    /\ rb = "idle" /\ attempts < MaxAttempts
    /\ \E w \in {W0, data}, isolated \in BOOLEAN :
           declared' = w /\ claim' = isolated /\ action' = ActionFor(w, isolated)
    /\ rb' = "lock" /\ attempts' = attempts + 1
    /\ UNCHANGED <<initial, restored, result, host, lease, clocks, faults>> /\ Outside

\* mkdir of the lock directory: a lease that is taken ends the script.
TakeLease(at, owner, next) ==
    /\ rb = at
    /\ IF lease = "free" THEN lease' = owner /\ Goto(next) ELSE Exit("busy")

RbLock ==
    /\ TakeLease("lock", "rollback", "execute")
    /\ UNCHANGED <<host, clocks, faults>> /\ Outside

\* cli execute: the action is chosen again under the lease; a change is refused.
\* The switch asserts that the lease is still held; the same assertion before
\* the restore's artifacts are verified is left out, which allows more.
RbExecute ==
    /\ rb = "execute"
    /\ LET now == ActionFor(declared, claim) IN
       \/ now # action /\ Exit("refused")
       \/ now = action /\ action = "decision" /\ Exit("decision")
       \/ now = action /\ action = "restore" /\ Goto("freeze")  /\ UNCHANGED lease
       \/ now = action /\ action = "switch" /\ lease = "rollback" /\ Goto("isolate")
          /\ UNCHANGED lease
       \/ now = action /\ action = "switch" /\ lease # "rollback" /\ Exit("failed")
    /\ UNCHANGED <<host, clocks, faults>> /\ Outside

RbFreeze ==
    /\ rb = "freeze"
    /\ proxy' = FALSE /\ up' = FALSE
    /\ Goto("recheck")
    /\ UNCHANGED <<app, fence, data, acked, lease, clocks, faults>> /\ Outside

\* Faulty variant: the watermark declared before the freeze is trusted.
RbTrustDeclared ==
    /\ rb = "recheck"
    /\ Goto("fence")
    /\ UNCHANGED <<host, lease, clocks, faults>> /\ Outside

\* capture-watermark and inspect-action again, with everything stopped.
RbRecheck ==
    /\ rb = "recheck"
    /\ LET now == ActionFor(data, TRUE) IN
       \/ now = "decision" /\ Exit("decision")
       \/ now = "switch" /\ lease # "rollback" /\ Exit("failed")
       \/ /\ now = "restore" \/ (now = "switch" /\ lease = "rollback")
          /\ rb' = IF now = "restore" THEN "fence" ELSE "isolate"
          /\ declared' = data /\ action' = now /\ claim' = TRUE
          /\ UNCHANGED <<initial, restored, result, attempts, lease>>
    /\ UNCHANGED <<host, clocks, faults>> /\ Outside

\* Faulty variant: the restore starts without the fence.
RbNoFence ==
    /\ rb = "fence"
    /\ Goto("activate")
    /\ UNCHANGED <<host, lease, clocks, faults>> /\ Outside

\* fence-engage asserts the lease first.
RbFence ==
    /\ rb = "fence"
    /\ IF lease = "rollback" THEN fence' = TRUE /\ Goto("activate") /\ UNCHANGED lease
       ELSE Exit("failed") /\ UNCHANGED fence
    /\ UNCHANGED <<services, data, acked, clocks, faults>> /\ Outside

\* The stable containers are created, stopped, and the lease is released for
\* restore-run.sh.
RbActivate ==
    /\ rb = "activate"
    /\ proxy' = FALSE /\ up' = FALSE /\ app' = "stable"
    /\ Release
    /\ Goto("restoreLock")
    /\ UNCHANGED <<fence, data, acked, clocks, faults>> /\ Outside

-----------------------------------------------------------------------------
(* restore-run.sh *)

RsLock ==
    /\ TakeLease("restoreLock", "restore", "preflight")
    /\ UNCHANGED <<host, clocks, faults>> /\ Outside

\* Preflight, then the services are stopped.  A restore under a new authorization
\* is a new operation without checkpoints.
RsPreflight ==
    /\ rb = "preflight"
    /\ initial' = [proxy |-> proxy, up |-> up]
    /\ restored' \in {restored, FALSE}
    /\ proxy' = FALSE /\ up' = FALSE
    /\ rb' = "retain"
    /\ UNCHANGED <<action, claim, declared, attempts, result, app, fence, data, acked, lease,
                   clocks, faults>> /\ Outside

RsRetain ==
    /\ rb = "retain"
    /\ Goto("database")
    /\ UNCHANGED <<host, lease, clocks, faults>> /\ Outside

\* pg_restore, unless the checkpoint says that it was done.  Every customer write
\* after B0 is gone from here on.
RsDatabase ==
    /\ rb = "database"
    /\ data' = IF restored THEN data ELSE W0
    /\ restored' = TRUE
    /\ rb' = "files"
    /\ UNCHANGED <<action, claim, declared, initial, attempts, result, services, fence, acked,
                   lease, clocks, faults>> /\ Outside

\* restore-files rewrites what differs from B0; offline-validate compares rows,
\* files and audit with the manifest and fails with the proxy closed.
RsFiles ==
    /\ rb = "files"
    /\ IF data = W0 THEN Goto("startApp") /\ UNCHANGED <<proxy, lease>>
       ELSE proxy' = FALSE /\ Exit("failed")
    /\ UNCHANGED <<app, up, fence, data, acked, clocks, faults>> /\ Outside

RsStartApp ==
    /\ rb = "startApp"
    /\ up' = TRUE
    /\ Goto("startProxy")
    /\ UNCHANGED <<proxy, app, fence, data, acked, lease, clocks, faults>> /\ Outside

RsStartProxy ==
    /\ rb = "startProxy"
    /\ proxy' = TRUE
    /\ Goto("external")
    /\ UNCHANGED <<app, up, fence, data, acked, lease, clocks, faults>> /\ Outside

RsExternal ==
    /\ rb = "external"
    /\ Release
    /\ Goto("relock")
    /\ UNCHANGED <<host, clocks, faults>> /\ Outside

-----------------------------------------------------------------------------
(* rollback-run.sh after the restore. *)

RbRelock ==
    /\ TakeLease("relock", "rollback", "assert")
    /\ UNCHANGED <<host, clocks, faults>> /\ Outside

\* fence-assert; the proxy that the restore opened is closed again.
RbAssert ==
    /\ rb = "assert"
    /\ proxy' = FALSE
    /\ IF fence /\ lease = "rollback" THEN Goto("verify") /\ UNCHANGED lease ELSE Exit("failed")
    /\ UNCHANGED <<app, up, fence, data, acked, clocks, faults>> /\ Outside

\* verify-pr2a-result: the captured watermark must be the baseline.
RbVerify ==
    /\ rb = "verify"
    /\ IF lease = "rollback" /\ StateReadable /\ data = W0
       THEN Goto("openRestored") /\ UNCHANGED lease
       ELSE Exit("failed")
    /\ UNCHANGED <<host, clocks, faults>> /\ Outside

RbOpenRestored ==
    /\ rb = "openRestored"
    /\ proxy' = TRUE
    /\ Goto("publish")
    /\ UNCHANGED <<app, up, fence, data, acked, lease, clocks, faults>> /\ Outside

\* verify-external-readiness inside the fence, then fence-publish.  No probe
\* succeeds while the app is stopped.
RbPublish ==
    /\ rb = "publish"
    /\ IF lease = "rollback" /\ up
       THEN fence' = FALSE /\ Goto("complete") /\ UNCHANGED <<proxy, lease>>
       ELSE proxy' = FALSE /\ Exit("failed") /\ UNCHANGED fence
    /\ UNCHANGED <<app, up, data, acked, clocks, faults>> /\ Outside

\* Faulty variant: the record is completed without a verdict (rto_passed null).
ClockResultMissing == IF clock = "open" /\ late THEN "unknown" ELSE "passed"

\* complete_after_external_readiness: a completed record is returned as it is.
ClockResult == IF clock = "open" THEN (IF late THEN "exceeded" ELSE "passed") ELSE clock

RbComplete ==
    /\ rb = "complete"
    /\ IF lease = "rollback" /\ StateReadable
       THEN clock' = ClockResult
            /\ Exit(IF clock' = "passed" THEN "completed" ELSE "rto_exceeded")
       ELSE Exit("failed") /\ UNCHANGED clock
    /\ UNCHANGED <<host, late, faults>> /\ Outside

-----------------------------------------------------------------------------
(* RollbackEngine._switch_app *)

\* retain_exact_artifacts, stop_proxy, the proof of isolation, stop_app.
EnIsolate ==
    /\ rb = "isolate"
    /\ proxy' = FALSE /\ up' = FALSE
    /\ Goto("switch")
    /\ UNCHANGED <<app, fence, data, acked, lease, clocks, faults>> /\ Outside

\* switch_runtime_identity and start_app(stable).
EnSwitch ==
    /\ rb = "switch"
    /\ app' = "stable" /\ up' = TRUE
    /\ Goto("check")
    /\ UNCHANGED <<proxy, fence, data, acked, lease, clocks, faults>> /\ Outside

\* Both watermarks around the validation must equal the declared one.
EnCheck ==
    /\ rb = "check"
    /\ Goto(IF ~proxy /\ data = declared THEN "openStable" ELSE "reisolate")
    /\ UNCHANGED <<host, lease, clocks, faults>> /\ Outside

EnOpenStable ==
    /\ rb = "openStable"
    /\ proxy' = TRUE
    /\ Goto("readyStable")
    /\ UNCHANGED <<app, up, fence, data, acked, lease, clocks, faults>> /\ Outside

\* external_readiness, then the clock is completed.
EnReadyStable ==
    /\ rb = "readyStable"
    /\ clock' = ClockResult
    /\ Goto(IF clock' = "passed" THEN "finish" ELSE "reisolate")
    /\ UNCHANGED <<host, lease, late, faults>> /\ Outside

\* The "completed" event ends a successful switch.
EnFinish ==
    /\ rb = "finish"
    /\ Exit("completed")
    /\ UNCHANGED <<host, clocks, faults>> /\ Outside

(* The exact roll-forward that follows any failure once the app was stopped. *)

EnReisolate ==
    /\ rb = "reisolate"
    /\ proxy' = FALSE
    /\ Goto("forward")
    /\ UNCHANGED <<app, up, fence, data, acked, lease, clocks, faults>> /\ Outside

\* The candidate is restarted and validated behind a proxy proved stopped.
EnForward ==
    /\ rb = "forward"
    /\ app' = "candidate" /\ up' = TRUE
    /\ Goto(IF proxy THEN "giveUp" ELSE "openCandidate")
    /\ UNCHANGED <<proxy, fence, data, acked, lease, clocks, faults>> /\ Outside

EnOpenCandidate ==
    /\ rb = "openCandidate"
    /\ proxy' = TRUE
    /\ Goto("readyCandidate")
    /\ UNCHANGED <<app, up, fence, data, acked, lease, clocks, faults>> /\ Outside

EnReadyCandidate ==
    /\ rb = "readyCandidate"
    /\ Exit("rolled_forward")
    /\ UNCHANGED <<host, clocks, faults>> /\ Outside

\* stop_proxy is tried, its failure ignored, and failed_isolated audited.
EnGiveUp ==
    /\ rb = "giveUp"
    /\ proxy' = FALSE
    /\ Exit("failed_isolated")
    /\ UNCHANGED <<app, up, fence, data, acked, clocks, faults>> /\ Outside

-----------------------------------------------------------------------------
(* Failing commands, killed and signalled scripts. *)

Fault(kind) == kind \in Faults /\ faults < MaxFaults /\ faults' = faults + 1

\* set -e: a failing command ends the script.  A failing proxy start may have
\* started it; a prepare that cannot write the seal removes the state file.
PubFails ==
    /\ Fault("command")
    /\ pub # "idle"
    /\ proxy' \in {proxy, proxy \/ (pub = "proxy" /\ lease = "publication" /\ StateReadable)}
    /\ stage' = IF pub = "seal" /\ target = "prepared" THEN "none" ELSE stage
    /\ PubExit
    /\ UNCHANGED <<sealed, marker, app, up, fence, data, acked, clocks, rbVars, compatible>>

\* Before the app was stopped the engine only audits failed_isolated; a failing
\* stop_proxy is tried once more and ignored.
IsolateFails ==
    /\ Fault("command")
    /\ rb = "isolate"
    /\ proxy' \in {proxy, FALSE}
    /\ up'    \in {up, up /\ proxy'}
    /\ Exit("failed_isolated")
    /\ UNCHANGED <<app, fence, data, acked, clocks>> /\ Outside

\* A failing step of the switch leads to the roll-forward.
SwitchFails ==
    /\ Fault("command")
    /\ rb \in Switching \ {"isolate", "finish"}
    /\ up'    \in {up, up \/ rb = "switch"}
    /\ app'    = IF rb = "switch" /\ up' THEN "stable" ELSE app
    /\ proxy' \in {proxy, proxy \/ rb = "openStable"}
    /\ Goto("reisolate")
    /\ UNCHANGED <<fence, data, acked, lease, clocks>> /\ Outside

\* The audit event cannot be appended: the switch is undone like any failure.
AuditFails ==
    /\ Fault("audit")
    /\ rb \in {"finish", "readyCandidate"}
    /\ Goto(IF rb = "finish" THEN "reisolate" ELSE "giveUp")
    /\ UNCHANGED <<host, lease, clocks>> /\ Outside

\* stop_proxy fails and the failure is ignored.
StopProxyFails ==
    /\ Fault("command")
    /\ \/ rb = "reisolate" /\ Goto("forward") /\ UNCHANGED lease
       \/ rb = "giveUp" /\ Exit("failed_isolated")
    /\ UNCHANGED <<host, clocks>> /\ Outside

ForwardFails ==
    /\ Fault("command")
    /\ rb \in {"forward", "openCandidate", "readyCandidate"}
    /\ up'    \in IF rb = "forward" THEN BOOLEAN ELSE {up}
    /\ app'   \in IF rb = "forward" THEN {app, "candidate"} ELSE {app}
    /\ proxy' \in {proxy, proxy \/ rb = "openCandidate"}
    /\ Goto("giveUp")
    /\ UNCHANGED <<fence, data, acked, lease, clocks>> /\ Outside

\* set -e: a failing command of rollback-run.sh itself ends the script, whatever
\* it did to the service or the fence; the last steps try to close the proxy and
\* ignore that it fails.  complete-pr2a may have completed the clock.
RollbackFails ==
    /\ Fault("command")
    /\ rb \in Freezing \cup Accepting
    /\ proxy' \in CASE rb \in {"freeze", "assert"} -> {proxy, FALSE}
                    [] rb \in {"openRestored", "publish"} -> BOOLEAN
                    [] OTHER -> {proxy}
    /\ up'    \in IF rb = "freeze" THEN {up, FALSE} ELSE {up}
    /\ app'   \in IF rb = "activate" THEN {app, "stable"} ELSE {app}
    /\ fence' \in CASE rb = "fence"   -> {fence, fence \/ lease = "rollback"}
                    [] rb = "publish" -> {fence, fence /\ lease # "rollback"}
                    [] OTHER -> {fence}
    /\ clock' \in {clock} \cup (IF rb = "complete" /\ lease = "rollback" THEN {ClockResult} ELSE {})
    /\ Exit("failed")
    /\ UNCHANGED <<data, acked, late>> /\ Outside

\* restore_failure: before the destructive phase the services that were found
\* running are started again, or the proxy is closed if that fails; afterwards the
\* proxy is closed.
RestoreCleanup ==
    CASE rb = "preflight" -> UNCHANGED <<proxy, up>>
      [] rb = "retain"    -> \/ up' = initial.up /\ proxy' = (initial.proxy /\ initial.up)
                             \/ up' \in {up, initial.up} /\ proxy' = FALSE
      [] OTHER            -> /\ proxy' \in {FALSE, proxy \/ rb = "startProxy"}
                             /\ up' \in {up, up \/ rb = "startApp"}

\* What pg_restore leaves when it does not finish: it is not one transaction.
Interrupted == {data} \cup (IF rb = "database" /\ ~restored THEN {Broken} ELSE {})

RestoreFails ==
    /\ Fault("command")
    /\ rb \in Restoring
    /\ RestoreCleanup
    /\ data' \in Interrupted
    /\ Exit("failed")
    /\ UNCHANGED <<app, fence, acked, clocks>> /\ Outside

\* A signal runs restore_failure between two commands; $? is then the 0 of the
\* command that ended, so rollback-run.sh goes on as after a successful restore.
RestoreSignalled ==
    /\ Fault("signal")
    /\ rb \in Restoring
    /\ RestoreCleanup
    /\ Release /\ Goto("relock")
    /\ UNCHANGED <<app, fence, data, acked, clocks>> /\ Outside

\* The trap of lock.sh releases the lease and the script goes on with its next
\* command.
ScriptSignalled ==
    /\ Fault("signal")
    /\ \/ lease = "publication" /\ pub \in {"command", "marker", "proxy"}
       \/ lease = "rollback" /\ rb \in Freezing \cup Accepting
    /\ lease' = "free"
    /\ UNCHANGED <<stateFiles, host, clocks, pubVars, rbVars, compatible>>

\* A killed script leaves its lease to an operator.
KillPublication ==
    /\ Fault("kill")
    /\ pub # "idle"
    /\ pub' = "idle"
    /\ lease' = IF lease = "publication" THEN "dead" ELSE lease
    /\ UNCHANGED <<stateFiles, host, clocks, target, rbVars, compatible>>

KillRollback ==
    /\ Fault("kill")
    /\ rb # "idle"
    /\ rb' = "idle" /\ result' = "failed"
    /\ data' \in Interrupted
    /\ lease' = IF lease \in {"rollback", "restore"} THEN "dead" ELSE lease
    /\ UNCHANGED <<memory, services, fence, acked, clocks>> /\ Outside

-----------------------------------------------------------------------------
Publication == PubBegin \/ PubCommand \/ PubMarker \/ PubState \/ PubSeal \/ PubProxy

Rollback ==
    \/ RbInspect \/ RbLock \/ RbExecute
    \/ RbFreeze \/ RbRecheck \/ RbFence \/ RbActivate
    \/ RbRelock \/ RbAssert \/ RbVerify \/ RbOpenRestored \/ RbPublish \/ RbComplete

Restore ==
    \/ RsLock \/ RsPreflight \/ RsRetain \/ RsDatabase \/ RsFiles
    \/ RsStartApp \/ RsStartProxy \/ RsExternal

Engine ==
    \/ EnIsolate \/ EnSwitch \/ EnCheck \/ EnOpenStable \/ EnReadyStable \/ EnFinish
    \/ EnReisolate \/ EnForward \/ EnOpenCandidate \/ EnReadyCandidate \/ EnGiveUp

Failure ==
    \/ PubFails \/ IsolateFails \/ SwitchFails \/ AuditFails \/ StopProxyFails \/ ForwardFails
    \/ RollbackFails \/ RestoreFails \/ RestoreSignalled \/ ScriptSignalled
    \/ KillPublication \/ KillRollback

\* No script is running; another one may never be started.
Quiet == pub = "idle" /\ rb = "idle" /\ UNCHANGED vars

Next ==
    \/ Quiet
    \/ CustomerWrite \/ LimitPasses \/ ClearStaleLease
    \/ Publication \/ Rollback \/ Restore \/ Engine \/ Failure

Spec == Init /\ [][Next]_vars

-----------------------------------------------------------------------------
(* Properties. *)

\* The automatic rollback never discards what a customer wrote: the restore of
\* B0 only runs when nothing was written since (choose_rollback_path, the freeze
\* of rollback-run.sh and the fence), whatever the operator claimed and even when
\* a signal has taken the lease away from the script.
NoCustomerWriteLost == data.writes = acked

\* Customers are never served from a database that an interrupted pg_restore left
\* half done, although a retry may switch to the stable app on that very database:
\* the fence stays up until verify-pr2a-result has seen B0.
PartialNeverPublic == data.partial => ~Public

\* When the release record calls the release incompatible, the old app is never
\* put in front of customers on data that the candidate wrote: the rollback stops
\* at NEEDS_ROLLBACK_DECISION, before or after the freeze.
OldAppNeverOnForwardData ==
    ~compatible /\ data.forward => ~(Public /\ app = "stable")

\* publication-run.sh and the rollback or restore script never work at the same
\* time: lock.sh is the "shared lease lock" of all of them.
LeaseExclusive == ~(pub # "idle" /\ rb \notin Unleased)

\* The old database is never restored once the public cutover has been recorded,
\* even if no customer wrote anything yet.
RestoreOnlyBeforeCutover == [][rb = "database" /\ rb' = "files" => ~marker]_vars

\* A rollback that is reported complete has not left customers behind the fence.
CompletedNotFenced ==
    [][rb # "idle" /\ rb' = "idle" /\ result' = "completed" => ~fence']_vars
=============================================================================
