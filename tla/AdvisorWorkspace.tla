-------------------------- MODULE AdvisorWorkspace --------------------------
(***************************************************************************)
(* The detached worktrees in which Advisors review a pull request          *)
(* (scripts/ao/workspace.py): advisor-run acquires one under a file lock,  *)
(* starts the Advisor in a process group of its own, waits for it with a   *)
(* timeout, removes the worktree and writes a record; stale-reclaim        *)
(* removes what killed wrappers left; advisor-validate accepts or refuses  *)
(* a record.                                                               *)
(*                                                                         *)
(* Every advisor-run gets a directory name of its own from mkdtemp, so a   *)
(* workspace is identified with the run it was made for.  What the Advisor *)
(* reads and says is left out; so are the checks of a record against the   *)
(* Evidence and the pull request, which are in EvidencePublish.            *)
(***************************************************************************)
EXTENDS Naturals, FiniteSets

CONSTANTS
    Runs,          \* advisor-run commands, each one process
    Bindings,      \* (PR number, code commit) pairs of Evidence metadata
    NoRun,         \* nobody holds the lock
    MaxFaults,     \* bound: signals, kills and failing commands
    SlowStart      \* may a start-up outlast --older-than-hours?

ASSUME NoRunAssumption == NoRun \notin Runs
ASSUME FaultsAssumption == MaxFaults \in Nat
ASSUME SlowStartAssumption == SlowStart \in BOOLEAN

VARIABLES
    binding,       \* what the metadata of a run binds
    pc, level,     \* where a wrapper is; which clause it terminates the group in
    status,        \* the local variable of run_advisor
    lock,          \* flock of a binding, released when its process ends
    reg, dir,      \* worktrees git lists, directories that exist
    marker,        \* the lifecycle file beside a worktree
    leader, member,\* the Advisor process and another one of its group
    record,        \* the file advisor-run leaves
    accepted,      \* records that advisor-validate called valid
    stale,         \* worktrees a stale-reclaim has still to remove
    noted,         \* history: Advisors whose PID reached the marker
    disturbed,     \* history: Advisors that lost their directory while running
    faults

runner  == <<pc, level, status>>
trees   == <<reg, dir, marker>>
group   == <<leader, member>>
results == <<record, accepted>>
history == <<noted, disturbed>>
vars == <<binding, runner, lock, trees, group, results, stale, history, faults>>

Acquiring == {"start", "locked", "free", "added"}
Starting  == {"added", "leased", "forked", "bound", "recording"}
Over      == {"ended", "dead"}
NoRecord  == [status |-> "none", cleanup |-> FALSE]

(* The wrapper process exists. *)
Alive(r) == pc[r] \notin Over \cup {"start"}

(* _pid_active and killpg of _marker_pid_active: the wrapper, the Advisor  *)
(* or anything in the Advisor's process group is alive, as far as the      *)
(* marker names them.  A torn or missing marker names nobody.              *)
\* Faulty variant: only the wrapper's PID is looked at.
ActiveWrapper(r) == marker[r] \in {"wrapper", "full"} /\ Alive(r)

Active(r) ==
    /\ marker[r] \in {"wrapper", "full"}
    /\ Alive(r) \/ (marker[r] = "full" /\ (leader[r] = "running" \/ member[r]))

Fault == faults < MaxFaults /\ faults' = faults + 1
Calm  == UNCHANGED faults

Goto(r, next) == pc' = [pc EXCEPT ![r] = next]

Stay == UNCHANGED <<level, status>>

(* os.close of the lock's descriptor. *)
Unlock(r) == lock' = [lock EXCEPT ![binding[r]] = IF @ = r THEN NoRun ELSE @]

(* A process ends: its locals are gone and its descriptors are closed. *)
Exit(r, how) ==
    /\ Goto(r, how) /\ Unlock(r)
    /\ level' = [level EXCEPT ![r] = "try"]
    /\ status' = [status EXCEPT ![r] = "interrupted"]

(* Directories in gone disappear; an Advisor still in one is disturbed. *)
RemoveDirs(gone) ==
    /\ dir' = dir \ gone
    /\ disturbed' = disturbed \cup {r \in gone \cap dir : leader[r] = "running"}

-----------------------------------------------------------------------------
Init ==
    /\ binding \in [Runs -> Bindings]
    /\ pc = [r \in Runs |-> "start"] /\ level = [r \in Runs |-> "try"]
    /\ status = [r \in Runs |-> "interrupted"]
    /\ lock = [b \in Bindings |-> NoRun]
    /\ reg = {} /\ dir = {} /\ marker = [r \in Runs |-> "none"]
    /\ leader = [r \in Runs |-> "none"] /\ member = [r \in Runs |-> FALSE]
    /\ record = [r \in Runs |-> NoRecord] /\ accepted = {}
    /\ stale = {}
    /\ noted = {} /\ disturbed = {} /\ faults = 0

Busy(r) == lock[binding[r]] # NoRun

(* acquire: the metadata is parsed, origin fetched unconditionally and the *)
(* Evidence commit resolved, a failure ending the command; _acquire_lock   *)
(* is LOCK_NB, so a busy lock is an error and not a wait.                  *)
TakeLock(r) ==
    /\ pc[r] = "start"
    /\ \/ /\ ~Busy(r)
          /\ Goto(r, "locked") /\ lock' = [lock EXCEPT ![binding[r]] = r]
       \/ /\ Busy(r)
          /\ Goto(r, "ended") /\ UNCHANGED lock
    /\ UNCHANGED <<binding, level, status, trees, group, results, stale,
                   history, faults>>

(* A registered worktree of the same binding, whoever left it, is refused. *)
\* Faulty variant: what git lists is not looked at.
NothingExists(r) == TRUE

NoneExists(r) == \A q \in reg : binding[q] # binding[r]

\* Faulty variant: the early return forgets the lock's descriptor.
CheckExistingLeaksLock(r) ==
    /\ pc[r] = "locked"
    /\ IF NoneExists(r) THEN Goto(r, "free") ELSE Goto(r, "ended")
    /\ UNCHANGED <<binding, level, status, lock, trees, group, results, stale, history, faults>>

CheckExisting(r) ==
    /\ pc[r] = "locked"
    /\ IF NoneExists(r)
         THEN Goto(r, "free") /\ Stay /\ UNCHANGED lock
         ELSE Exit(r, "ended")
    /\ UNCHANGED <<binding, trees, group, results, stale,
                   history, faults>>

(* git worktree add at the name from _allocate_path, or its failure. *)
AddWorktree(r) ==
    /\ pc[r] = "free"
    /\ \/ /\ Goto(r, "added") /\ Stay /\ Calm
          /\ reg' = reg \cup {r} /\ dir' = dir \cup {r}
          /\ UNCHANGED lock
       \/ /\ Exit(r, "ended") /\ Fault
          /\ UNCHANGED <<reg, dir>>
    /\ UNCHANGED <<binding, marker, group, results, stale,
                   history>>

WriteMarker(r) ==
    /\ pc[r] = "added"
    /\ Goto(r, "leased")
    /\ marker' = [marker EXCEPT ![r] = "wrapper"]
    /\ UNCHANGED <<binding, level, status, lock, reg, dir, group, results, stale, history, faults>>

-----------------------------------------------------------------------------
(* subprocess.Popen in the child's eyes: the Advisor runs, and may have    *)
(* started another process of its group, before the name process is bound. *)
Fork(r) ==
    /\ pc[r] = "leased"
    /\ \/ /\ Goto(r, "forked") /\ Calm
          /\ leader' = [leader EXCEPT ![r] = "running"]
          /\ \E m \in BOOLEAN : member' = [member EXCEPT ![r] = m]
       \/ /\ Goto(r, "closing") /\ Fault
          /\ UNCHANGED group
    /\ UNCHANGED <<binding, level, status, lock, trees, results, stale, history>>

Bind(r) ==
    /\ pc[r] = "forked"
    /\ Goto(r, "bound")
    /\ UNCHANGED <<binding, level, status, lock, trees, group, results, stale, history, faults>>

(* record_advisor_process: the marker is read, and an error when a reclaim *)
(* has taken it ends the run; write_text truncates it and fills it.        *)
TruncateMarker(r) ==
    /\ pc[r] = "bound"
    /\ IF marker[r] \in {"wrapper", "full"}
         THEN /\ Goto(r, "recording") /\ UNCHANGED level
              /\ marker' = [marker EXCEPT ![r] = "torn"]
         ELSE /\ Goto(r, "terminating") /\ UNCHANGED marker
              /\ level' = [level EXCEPT ![r] = "except"]
    /\ UNCHANGED <<binding, status, lock, reg, dir, group, results, stale, history, faults>>

FillMarker(r) ==
    /\ pc[r] = "recording"
    /\ Goto(r, "waiting")
    /\ marker' = [marker EXCEPT ![r] = "full"]
    /\ noted' = noted \cup {r}
    /\ UNCHANGED <<binding, level, status, lock, reg, dir, group, results, stale, disturbed, faults>>

(* process.wait returns, or its timeout expires. *)
WaitReturns(r) ==
    /\ pc[r] = "waiting" /\ leader[r] \in {"ok", "failed"}
    /\ Goto(r, "closing")
    /\ status' = [status EXCEPT ![r] =
                    IF leader[r] = "ok" THEN "completed" ELSE "command-failed"]
    /\ UNCHANGED <<binding, level, lock, trees, group, results, stale,
                   history, faults>>

WaitTimesOut(r) ==
    /\ pc[r] = "waiting" /\ leader[r] = "running"
    /\ Goto(r, "terminating")
    /\ status' = [status EXCEPT ![r] = "timed-out"]
    /\ UNCHANGED <<binding, level, lock, trees, group, results, stale,
                   history, faults>>

(* _terminate_process_group: after SIGTERM only the leader is waited for;  *)
(* when the grace period ends, SIGKILL reaches the whole group.            *)
LeaderGone(r) ==
    /\ pc[r] = "terminating" /\ leader[r] # "running"
    /\ Goto(r, "closing")
    /\ UNCHANGED <<binding, level, status, lock, trees, group, results, stale, history, faults>>

GraceOver(r) ==
    /\ pc[r] = "terminating" /\ leader[r] = "running"
    /\ Goto(r, "closing")
    /\ leader' = [leader EXCEPT ![r] = "killed"]
    /\ member' = [member EXCEPT ![r] = FALSE]
    /\ UNCHANGED <<binding, level, status, lock, trees, results, stale,
                   history, faults>>

-----------------------------------------------------------------------------
(* WorkspaceLease.close: git worktree remove --force and prune; when git   *)
(* fails and the marker still matches, rmtree and prune; then the marker   *)
(* is unlinked and the lock released.  prune is global: it drops every     *)
(* registration whose directory is gone.                                   *)
CloseRemove(r) ==
    /\ pc[r] = "closing"
    /\ Goto(r, "removed")
    /\ RemoveDirs({r})
    /\ reg' = (reg \ {r}) \cap dir'
    /\ UNCHANGED <<binding, level, status, lock, marker, group, results, stale, noted, faults>>

CloseRmtree(r) ==
    /\ pc[r] = "closing" /\ marker[r] \in {"wrapper", "full"} /\ r \in dir
    /\ Fault
    /\ Goto(r, "pruning")
    /\ RemoveDirs({r})
    /\ reg' = reg \cap dir
    /\ UNCHANGED <<binding, level, status, lock, marker, group, results, stale, noted>>

ClosePrune(r) ==
    /\ pc[r] = "pruning"
    /\ Goto(r, "removed")
    /\ reg' = reg \cap dir
    /\ UNCHANGED <<binding, level, status, lock, dir, marker, group, results, stale, history, faults>>

(* git fails and the marker does not match, so that the directory stays;   *)
(* or everything is removed and only prune fails.                          *)
CloseFails(r) ==
    /\ pc[r] = "closing"
    /\ Fault
    /\ Goto(r, "unclean")
    /\ \/ /\ marker[r] \notin {"wrapper", "full"} /\ r \in dir
          /\ reg' = reg \cap dir
          /\ UNCHANGED <<dir, marker, disturbed>>
       \/ /\ RemoveDirs({r}) /\ reg' = reg \ {r}
          /\ marker' = [marker EXCEPT ![r] = "none"]
    /\ UNCHANGED <<binding, level, status, lock, group, results, stale, noted>>

Unlink(r) ==
    /\ pc[r] = "removed"
    /\ Goto(r, "clean") /\ Unlock(r)
    /\ marker' = [marker EXCEPT ![r] = "none"]
    /\ UNCHANGED <<binding, level, status, reg, dir, group, results, stale,
                   history, faults>>

(* The inner finally: the record is replaced atomically and the command    *)
(* ends, with the error of an unclean close or the Advisor's exit code.    *)
WriteRecord(r) ==
    /\ pc[r] \in {"clean", "unclean"}
    /\ Exit(r, "ended")
    /\ record' = [record EXCEPT ![r] =
                    [status |-> status[r], cleanup |-> pc[r] = "clean"]]
    /\ UNCHANGED <<binding, trees, group, accepted, stale,
                   history, faults>>

-----------------------------------------------------------------------------
(* A handled signal raises AdvisorInterrupted wherever the wrapper is.     *)
(* acquire undoes its steps; the lines between its return and the try      *)
(* leave everything; before process is bound nothing terminates the        *)
(* Advisor; while the group is terminated the exception moves on to the    *)
(* next clause, and out of finally without a record; in close it leaves    *)
(* an unclean record, and after it none.                                   *)
InterruptAcquire(r) ==
    /\ pc[r] \in Acquiring \cup {"leased"}
    /\ Fault /\ Exit(r, "ended")
    /\ RemoveDirs({r})
    /\ reg' = IF r \in dir THEN (reg \ {r}) \cap dir' ELSE reg
    /\ marker' = [marker EXCEPT ![r] = "none"]
    /\ UNCHANGED <<binding, group, results, stale, noted>>

Abandon(r) ==
    /\ \/ pc[r] \in {"leased", "clean", "unclean"}
       \/ pc[r] = "terminating" /\ level[r] = "finally"
    /\ Fault /\ Exit(r, "ended")
    /\ UNCHANGED <<binding, trees, group, results, stale, history>>

InterruptRun(r) ==
    /\ Fault
    /\ \/ pc[r] = "forked" /\ Goto(r, "closing") /\ UNCHANGED level
       \/ /\ pc[r] \in {"bound", "recording", "waiting"} /\ Goto(r, "terminating")
          /\ level' = [level EXCEPT ![r] = "except"]
       \/ /\ pc[r] = "terminating" /\ level[r] # "finally" /\ UNCHANGED pc
          /\ level' = [level EXCEPT ![r] = IF @ = "try" THEN "except" ELSE "finally"]
       \/ pc[r] \in {"closing", "pruning", "removed"} /\ Goto(r, "unclean")
          /\ UNCHANGED level
    /\ UNCHANGED <<binding, status, lock, trees, group, results, stale, history>>

(* SIGKILL or a crash of the wrapper; the Advisor's session goes on. *)
Kill(r) ==
    /\ Alive(r) /\ Fault /\ Exit(r, "dead")
    /\ UNCHANGED <<binding, trees, group, results, stale, history>>

(* The Advisor and its helper end by themselves or on SIGTERM. *)
LeaderExits(r) ==
    /\ leader[r] = "running"
    /\ \E how \in {"ok", "failed"} : leader' = [leader EXCEPT ![r] = how]
    /\ UNCHANGED <<binding, runner, lock, trees, member, results, stale,
                   history, faults>>

MemberExits(r) ==
    /\ member[r]
    /\ member' = [member EXCEPT ![r] = FALSE]
    /\ UNCHANGED <<binding, runner, lock, trees, leader, results, stale,
                   history, faults>>

-----------------------------------------------------------------------------
(* detect_stale_worktrees.  Any registered worktree may be older than the  *)
(* threshold, except that a start-up does not take that long unless        *)
(* SlowStart.  Without a readable marker the age is the directory's, and a *)
(* directory that is gone is passed over.                                  *)
Old == {r \in reg : SlowStart \/ pc[r] \notin Starting}

\* Faulty variant: a worktree without a readable marker is passed over.
StaleIfMarked(r) == marker[r] \in {"wrapper", "full"} /\ ~Active(r)

\* Faulty variant: the liveness of the processes is not looked at.
StaleWhateverRuns(r) == marker[r] \in {"wrapper", "full"} \/ r \in dir

Stale(r) == (marker[r] \in {"wrapper", "full"} \/ r \in dir) /\ ~Active(r)

Detect(old) ==
    LET found == {r \in old : Stale(r)} IN
    /\ stale = {} /\ old # {}
    /\ stale' = found
    /\ reg' = IF found = {} THEN reg \cap dir ELSE reg
    /\ UNCHANGED <<binding, runner, lock, dir, marker, group, results, history, faults>>

(* reclaim_stale_worktrees: one worktree after the other, and prune after  *)
(* the last; the first failure, be it that git no longer knows the         *)
(* worktree, ends the command before the rest.                             *)
Reclaim(r) ==
    /\ r \in stale
    /\ \/ /\ r \in reg /\ Calm
          /\ RemoveDirs({r})
          /\ marker' = [marker EXCEPT ![r] = "none"]
          /\ stale' = stale \ {r}
          /\ reg' = IF stale' = {} THEN (reg \ {r}) \cap dir' ELSE reg \ {r}
       \/ /\ IF r \in reg THEN Fault ELSE Calm
          /\ stale' = {}
          /\ UNCHANGED <<trees, disturbed>>
    /\ UNCHANGED <<binding, runner, lock, group, results, noted>>

(* The part of validate_advisor_opinion about the record and its           *)
(* workspace: _validate_workspace_lifecycle and the completion check.  A   *)
(* refusal only logs, and the command may be repeated.                     *)
Accepts(r) ==
    /\ record[r] # NoRecord
    /\ r \notin reg \cup dir
    /\ record[r].status = "completed" /\ record[r].cleanup

Validate(r) ==
    /\ Accepts(r) /\ r \notin accepted
    /\ accepted' = accepted \cup {r}
    /\ UNCHANGED <<binding, runner, lock, trees, group, record, stale, history,
                   faults>>

-----------------------------------------------------------------------------
Steps(r) ==
    \/ TakeLock(r) \/ CheckExisting(r) \/ AddWorktree(r) \/ WriteMarker(r)
    \/ Fork(r) \/ Bind(r) \/ TruncateMarker(r) \/ FillMarker(r)
    \/ WaitReturns(r) \/ WaitTimesOut(r) \/ LeaderGone(r) \/ GraceOver(r)
    \/ CloseRemove(r) \/ CloseRmtree(r) \/ ClosePrune(r) \/ CloseFails(r)
    \/ Unlink(r) \/ WriteRecord(r)

Disturb(r) == InterruptAcquire(r) \/ Abandon(r) \/ InterruptRun(r) \/ Kill(r)

GroupEnds(r) == LeaderExits(r) \/ MemberExits(r)

Next ==
    \/ \E r \in Runs : Steps(r) \/ Disturb(r) \/ GroupEnds(r) \/ Validate(r)
    \/ \E old \in SUBSET Old : Detect(old)
    \/ \E r \in Runs : Reclaim(r)

Spec == Init /\ [][Next]_vars

(* The wrapper's own steps, the end of the processes that it starts, and a *)
(* stale-reclaim command that is run again and again, also at times when   *)
(* every worktree is past the threshold.                                   *)
Fairness ==
    /\ \A r \in Runs : WF_vars(Steps(r)) /\ WF_vars(GroupEnds(r))
    /\ SF_vars(Detect(Old)) /\ WF_vars(\E r \in Runs : Reclaim(r))

FairSpec == Spec /\ Fairness

-----------------------------------------------------------------------------
Stages == Acquiring \cup Starting \cup Over \cup
          {"waiting", "terminating", "closing", "pruning", "removed", "clean",
           "unclean"}
Statuses == {"interrupted", "timed-out", "completed", "command-failed"}

(* The state is well typed and a lock is held by a process that exists. *)
TypeOK ==
    /\ binding \in [Runs -> Bindings]
    /\ pc \in [Runs -> Stages] /\ level \in [Runs -> {"try", "except", "finally"}]
    /\ status \in [Runs -> Statuses]
    /\ lock \in [Bindings -> Runs \cup {NoRun}]
    /\ \A b \in Bindings : lock[b] = NoRun \/ (Alive(lock[b]) /\ binding[lock[b]] = b)
    /\ reg \subseteq Runs /\ dir \subseteq Runs
    /\ marker \in [Runs -> {"none", "torn", "wrapper", "full"}]
    /\ leader \in [Runs -> {"none", "running", "ok", "failed", "killed"}]
    /\ member \in [Runs -> BOOLEAN]
    /\ record \in [Runs -> [status : Statuses, cleanup : BOOLEAN] \cup {NoRecord}]
    /\ accepted \subseteq Runs /\ stale \subseteq Runs
    /\ noted \subseteq Runs /\ disturbed \subseteq Runs /\ faults \in 0..MaxFaults

(* An Advisor whose PID reached the marker keeps its worktree for as long  *)
(* as it runs, even when its wrapper is killed, interrupted several times  *)
(* or overtaken by stale-reclaim (_marker_pid_active, run_advisor).        *)
NotedAdvisorKeepsWorkspace ==
    \A r \in noted : leader[r] = "running" => r \in reg \cap dir

(* Two Advisors whose PIDs are on record never review one code commit of   *)
(* one pull request at the same time: the lock dies with its process, and  *)
(* then the worktree left behind keeps the next run out (acquire).         *)
OneAdvisorPerBinding ==
    \A r, s \in noted :
        leader[r] = "running" /\ leader[s] = "running" /\ binding[r] = binding[s]
            => r = s

(* A record that advisor-validate accepts is about an Advisor that ended   *)
(* by itself, successfully, in a worktree that nobody had removed under it *)
(* and that is gone now (validate_advisor_opinion, reclaim).               *)
AcceptedWasIntact ==
    \A r \in accepted : leader[r] = "ok" /\ r \notin disturbed \cup reg \cup dir

(* After a timeout that was cleaned up nothing of the Advisor's process    *)
(* group runs any more (_terminate_process_group).                         *)
TimeoutEndsGroup ==
    \A r \in Runs :
        record[r] = [status |-> "timed-out", cleanup |-> TRUE] => ~member[r]

(* Whatever is killed, interrupted or fails, a worktree does not stay: its *)
(* run removes it or a later stale-reclaim does, so that the binding can   *)
(* be reviewed again (close, detect_stale_worktrees, reclaim).             *)
LeftoverReclaimed == \A r \in Runs : r \in reg ~> r \notin reg
=============================================================================
