----------------------- MODULE AdvisorWorkspace_proofs ----------------------
(***************************************************************************)
(* Proofs about AdvisorWorkspace for any number of advisor-run commands,   *)
(* bindings and faults.  Type correctness needs no more; the rest is about *)
(* a threshold of stale-reclaim that no start-up outlasts (~SlowStart),    *)
(* without which it does not hold.                                         *)
(***************************************************************************)
EXTENDS AdvisorWorkspace, TLAPS

-----------------------------------------------------------------------------
(* The inductive invariant. *)

Early   == {"start", "locked", "free"}
Locking == {"locked", "free", "waiting", "terminating", "closing", "pruning", "removed", "unclean"}
              \cup Starting

\* A worktree exists from AddWorktree on and nobody plans to remove it before the
\* Advisor's PID is in the marker.
StartUndisturbed == \A r \in Runs :
    /\ pc[r] \in Early => r \notin reg \cup dir
    /\ pc[r] \in Starting => r \in reg \cap dir
    /\ pc[r] \in Early \cup Starting => r \notin noted \cup disturbed \cup stale
    /\ pc[r] = "waiting" => marker[r] = "full" /\ r \notin disturbed \cup stale

\* An Advisor on record that runs is visible in its marker, which is why nobody
\* plans to remove its worktree.
NotedVisible == \A r \in noted : leader[r] = "running" =>
    /\ r \in reg \cap dir /\ marker[r] = "full" /\ r \notin stale
    /\ pc[r] \in {"waiting", "terminating"} \cup Over

\* The lock is held from the check on, so that the check stays true.
LockHeld == \A r \in Runs : pc[r] \in Locking => lock[binding[r]] = r
CheckHolds == \A r \in Runs : pc[r] = "free" => NoneExists(r)
OneWorktree == \A q, r \in reg : binding[q] = binding[r] => q = r

\* "completed" is only said of an Advisor that ended well, undisturbed.
CompletedIntact == \A r \in Runs :
    /\ status[r] = "completed" => /\ leader[r] = "ok" /\ r \notin disturbed
                                  /\ pc[r] \in {"closing", "pruning", "removed", "clean", "unclean"}
    /\ record[r].status = "completed" => leader[r] = "ok" /\ r \notin disturbed /\ pc[r] = "ended"

AcceptedGone == \A r \in accepted : record[r].status = "completed" /\ r \notin reg \cup dir

Safe ==
    /\ StartUndisturbed /\ NotedVisible
    /\ LockHeld /\ CheckHolds /\ OneWorktree
    /\ CompletedIntact /\ AcceptedGone

IInv == TypeOK /\ Safe

-----------------------------------------------------------------------------
(* Type correctness. *)

LEMMA TypeStep == ASSUME TypeOK, Next PROVE TypeOK'
<1> USE NoRunAssumption, FaultsAssumption DEF TypeOK, runner, trees, group, results, history,
   Goto, Stay, Calm, Fault,
       Stages, Acquiring, Starting, Over, Alive, Statuses
<1>1. ASSUME NEW r \in Runs, TakeLock(r) PROVE TypeOK'
  BY <1>1 DEF TakeLock, Busy
<1>2. ASSUME NEW r \in Runs, CheckExisting(r) PROVE TypeOK'
  BY <1>2 DEF CheckExisting, Exit, Unlock
<1>3. ASSUME NEW r \in Runs, AddWorktree(r) PROVE TypeOK'
  BY <1>3 DEF AddWorktree, Exit, Unlock
<1>4. ASSUME NEW r \in Runs, WriteMarker(r) PROVE TypeOK'
  BY <1>4 DEF WriteMarker
<1>5. ASSUME NEW r \in Runs, Fork(r) PROVE TypeOK'
  BY <1>5 DEF Fork
<1>6. ASSUME NEW r \in Runs, Bind(r) PROVE TypeOK'
  BY <1>6 DEF Bind
<1>7. ASSUME NEW r \in Runs, TruncateMarker(r) PROVE TypeOK'
  BY <1>7 DEF TruncateMarker
<1>8. ASSUME NEW r \in Runs, FillMarker(r) PROVE TypeOK'
  BY <1>8 DEF FillMarker
<1>9. ASSUME NEW r \in Runs, WaitReturns(r) PROVE TypeOK'
  BY <1>9 DEF WaitReturns
<1>10. ASSUME NEW r \in Runs, WaitTimesOut(r) PROVE TypeOK'
  BY <1>10 DEF WaitTimesOut
<1>11. ASSUME NEW r \in Runs, LeaderGone(r) PROVE TypeOK'
  BY <1>11 DEF LeaderGone
<1>12. ASSUME NEW r \in Runs, GraceOver(r) PROVE TypeOK'
  BY <1>12 DEF GraceOver
<1>13. ASSUME NEW r \in Runs, CloseRemove(r) PROVE TypeOK'
  BY <1>13 DEF CloseRemove, RemoveDirs
<1>14. ASSUME NEW r \in Runs, CloseRmtree(r) PROVE TypeOK'
  BY <1>14 DEF CloseRmtree, RemoveDirs
<1>15. ASSUME NEW r \in Runs, ClosePrune(r) PROVE TypeOK'
  BY <1>15 DEF ClosePrune
<1>16. ASSUME NEW r \in Runs, CloseFails(r) PROVE TypeOK'
  BY <1>16 DEF CloseFails, RemoveDirs
<1>17. ASSUME NEW r \in Runs, Unlink(r) PROVE TypeOK'
  BY <1>17 DEF Unlink, Unlock
<1>18. ASSUME NEW r \in Runs, WriteRecord(r) PROVE TypeOK'
  BY <1>18 DEF WriteRecord, Exit, Unlock
<1>19. ASSUME NEW r \in Runs, InterruptAcquire(r) PROVE TypeOK'
  BY <1>19 DEF InterruptAcquire, Exit, Unlock, RemoveDirs
<1>20. ASSUME NEW r \in Runs, Abandon(r) PROVE TypeOK'
  BY <1>20 DEF Abandon, Exit, Unlock
<1>21. ASSUME NEW r \in Runs, InterruptRun(r) PROVE TypeOK'
  BY <1>21 DEF InterruptRun
<1>22. ASSUME NEW r \in Runs, Kill(r) PROVE TypeOK'
  BY <1>22 DEF Kill, Exit, Unlock
<1>23. ASSUME NEW r \in Runs, LeaderExits(r) PROVE TypeOK'
  BY <1>23 DEF LeaderExits
<1>24. ASSUME NEW r \in Runs, MemberExits(r) PROVE TypeOK'
  BY <1>24 DEF MemberExits
<1>25. ASSUME NEW r \in Runs, Validate(r) PROVE TypeOK'
  BY <1>25 DEF Validate, Accepts
<1>26. ASSUME NEW r \in Runs, Reclaim(r) PROVE TypeOK'
  BY <1>26 DEF Reclaim, RemoveDirs
<1>27. ASSUME NEW old \in SUBSET Old, Detect(old) PROVE TypeOK'
  BY <1>27 DEF Detect, Old
<1> QED
  BY <1>1, <1>2, <1>3, <1>4, <1>5, <1>6, <1>7, <1>8, <1>9, <1>10, <1>11, <1>12, <1>13, <1>14,
     <1>15, <1>16, <1>17, <1>18, <1>19, <1>20, <1>21, <1>22, <1>23, <1>24, <1>25, <1>26, <1>27 DEF
     Next, Steps, Disturb, GroupEnds

LEMMA SafeStep == ASSUME IInv, ~SlowStart, Next PROVE Safe'
<1> USE NoRunAssumption DEF runner, trees, group, results, history, Goto, Stay, Calm, Fault,
   NoRecord,
       Stages, Acquiring, Starting, Over, Alive, Early, Locking, NoneExists
<1>a. TypeOK /\ Safe  BY DEF IInv
<1>1. ASSUME NEW r \in Runs, TakeLock(r) PROVE Safe'
  <2>1. StartUndisturbed' /\ NotedVisible'
    BY <1>1, <1>a DEF TypeOK, Safe, StartUndisturbed, NotedVisible, TakeLock, Busy
  <2>2. LockHeld' /\ CheckHolds' /\ OneWorktree'
    BY <1>1, <1>a DEF TypeOK, Safe, LockHeld, CheckHolds, OneWorktree, TakeLock, Busy
  <2>3. CompletedIntact' /\ AcceptedGone'
    BY <1>1, <1>a DEF TypeOK, Safe, StartUndisturbed, CompletedIntact, AcceptedGone, TakeLock, Busy
  <2> QED  BY <2>1, <2>2, <2>3 DEF Safe
<1>2. ASSUME NEW r \in Runs, CheckExisting(r) PROVE Safe'
  <2>1. StartUndisturbed' /\ NotedVisible'
    BY <1>2, <1>a DEF TypeOK, Safe, StartUndisturbed, NotedVisible, CheckExisting, Exit, Unlock
  <2>2. LockHeld' /\ CheckHolds' /\ OneWorktree'
    BY <1>2, <1>a DEF TypeOK, Safe, LockHeld, CheckHolds, OneWorktree, CheckExisting, Exit, Unlock
  <2>3. CompletedIntact' /\ AcceptedGone'
    BY <1>2, <1>a DEF TypeOK, Safe, StartUndisturbed, CompletedIntact, AcceptedGone,
       CheckExisting, Exit, Unlock
  <2> QED  BY <2>1, <2>2, <2>3 DEF Safe
<1>3. ASSUME NEW r \in Runs, AddWorktree(r) PROVE Safe'
  <2>1. StartUndisturbed' /\ NotedVisible'
    BY <1>3, <1>a DEF TypeOK, Safe, StartUndisturbed, NotedVisible, AddWorktree, Exit, Unlock
  <2>2. LockHeld' /\ CheckHolds' /\ OneWorktree'
    BY <1>3, <1>a DEF TypeOK, Safe, LockHeld, CheckHolds, OneWorktree, AddWorktree, Exit, Unlock
  <2>3. CompletedIntact' /\ AcceptedGone'
    BY <1>3, <1>a DEF TypeOK, Safe, StartUndisturbed, CompletedIntact, AcceptedGone, AddWorktree,
       Exit, Unlock
  <2> QED  BY <2>1, <2>2, <2>3 DEF Safe
<1>4. ASSUME NEW r \in Runs, WriteMarker(r) PROVE Safe'
  <2>1. StartUndisturbed' /\ NotedVisible'
    BY <1>4, <1>a DEF TypeOK, Safe, StartUndisturbed, NotedVisible, WriteMarker
  <2>2. LockHeld' /\ CheckHolds' /\ OneWorktree'
    BY <1>4, <1>a DEF TypeOK, Safe, LockHeld, CheckHolds, OneWorktree, WriteMarker
  <2>3. CompletedIntact' /\ AcceptedGone'
    BY <1>4, <1>a DEF TypeOK, Safe, StartUndisturbed, CompletedIntact, AcceptedGone, WriteMarker
  <2> QED  BY <2>1, <2>2, <2>3 DEF Safe
<1>5. ASSUME NEW r \in Runs, Fork(r) PROVE Safe'
  <2>1. StartUndisturbed' /\ NotedVisible'
    BY <1>5, <1>a DEF TypeOK, Safe, StartUndisturbed, NotedVisible, Fork
  <2>2. LockHeld' /\ CheckHolds' /\ OneWorktree'
    BY <1>5, <1>a DEF TypeOK, Safe, LockHeld, CheckHolds, OneWorktree, Fork
  <2>3. CompletedIntact' /\ AcceptedGone'
    BY <1>5, <1>a DEF TypeOK, Safe, StartUndisturbed, CompletedIntact, AcceptedGone, Fork
  <2> QED  BY <2>1, <2>2, <2>3 DEF Safe
<1>6. ASSUME NEW r \in Runs, Bind(r) PROVE Safe'
  <2>1. StartUndisturbed' /\ NotedVisible'
    BY <1>6, <1>a DEF TypeOK, Safe, StartUndisturbed, NotedVisible, Bind
  <2>2. LockHeld' /\ CheckHolds' /\ OneWorktree'
    BY <1>6, <1>a DEF TypeOK, Safe, LockHeld, CheckHolds, OneWorktree, Bind
  <2>3. CompletedIntact' /\ AcceptedGone'
    BY <1>6, <1>a DEF TypeOK, Safe, StartUndisturbed, CompletedIntact, AcceptedGone, Bind
  <2> QED  BY <2>1, <2>2, <2>3 DEF Safe
<1>7. ASSUME NEW r \in Runs, TruncateMarker(r) PROVE Safe'
  <2>1. StartUndisturbed' /\ NotedVisible'
    BY <1>7, <1>a DEF TypeOK, Safe, StartUndisturbed, NotedVisible, TruncateMarker
  <2>2. LockHeld' /\ CheckHolds' /\ OneWorktree'
    BY <1>7, <1>a DEF TypeOK, Safe, LockHeld, CheckHolds, OneWorktree, TruncateMarker
  <2>3. CompletedIntact' /\ AcceptedGone'
    BY <1>7, <1>a DEF TypeOK, Safe, StartUndisturbed, CompletedIntact, AcceptedGone, TruncateMarker
  <2> QED  BY <2>1, <2>2, <2>3 DEF Safe
<1>8. ASSUME NEW r \in Runs, FillMarker(r) PROVE Safe'
  <2>1. StartUndisturbed' /\ NotedVisible'
    BY <1>8, <1>a DEF TypeOK, Safe, StartUndisturbed, NotedVisible, FillMarker
  <2>2. LockHeld' /\ CheckHolds' /\ OneWorktree'
    BY <1>8, <1>a DEF TypeOK, Safe, LockHeld, CheckHolds, OneWorktree, FillMarker
  <2>3. CompletedIntact' /\ AcceptedGone'
    BY <1>8, <1>a DEF TypeOK, Safe, StartUndisturbed, CompletedIntact, AcceptedGone, FillMarker
  <2> QED  BY <2>1, <2>2, <2>3 DEF Safe
<1>9. ASSUME NEW r \in Runs, WaitReturns(r) PROVE Safe'
  <2>1. StartUndisturbed' /\ NotedVisible'
    BY <1>9, <1>a DEF TypeOK, Safe, StartUndisturbed, NotedVisible, WaitReturns
  <2>2. LockHeld' /\ CheckHolds' /\ OneWorktree'
    BY <1>9, <1>a DEF TypeOK, Safe, LockHeld, CheckHolds, OneWorktree, WaitReturns
  <2>3. CompletedIntact' /\ AcceptedGone'
    BY <1>9, <1>a DEF TypeOK, Safe, StartUndisturbed, CompletedIntact, AcceptedGone, WaitReturns
  <2> QED  BY <2>1, <2>2, <2>3 DEF Safe
<1>10. ASSUME NEW r \in Runs, WaitTimesOut(r) PROVE Safe'
  <2>1. StartUndisturbed' /\ NotedVisible'
    BY <1>10, <1>a DEF TypeOK, Safe, StartUndisturbed, NotedVisible, WaitTimesOut
  <2>2. LockHeld' /\ CheckHolds' /\ OneWorktree'
    BY <1>10, <1>a DEF TypeOK, Safe, LockHeld, CheckHolds, OneWorktree, WaitTimesOut
  <2>3. CompletedIntact' /\ AcceptedGone'
    BY <1>10, <1>a DEF TypeOK, Safe, StartUndisturbed, CompletedIntact, AcceptedGone, WaitTimesOut
  <2> QED  BY <2>1, <2>2, <2>3 DEF Safe
<1>11. ASSUME NEW r \in Runs, LeaderGone(r) PROVE Safe'
  <2>1. StartUndisturbed' /\ NotedVisible'
    BY <1>11, <1>a DEF TypeOK, Safe, StartUndisturbed, NotedVisible, LeaderGone
  <2>2. LockHeld' /\ CheckHolds' /\ OneWorktree'
    BY <1>11, <1>a DEF TypeOK, Safe, LockHeld, CheckHolds, OneWorktree, LeaderGone
  <2>3. CompletedIntact' /\ AcceptedGone'
    BY <1>11, <1>a DEF TypeOK, Safe, StartUndisturbed, CompletedIntact, AcceptedGone, LeaderGone
  <2> QED  BY <2>1, <2>2, <2>3 DEF Safe
<1>12. ASSUME NEW r \in Runs, GraceOver(r) PROVE Safe'
  <2>1. StartUndisturbed' /\ NotedVisible'
    BY <1>12, <1>a DEF TypeOK, Safe, StartUndisturbed, NotedVisible, GraceOver
  <2>2. LockHeld' /\ CheckHolds' /\ OneWorktree'
    BY <1>12, <1>a DEF TypeOK, Safe, LockHeld, CheckHolds, OneWorktree, GraceOver
  <2>3. CompletedIntact' /\ AcceptedGone'
    BY <1>12, <1>a DEF TypeOK, Safe, StartUndisturbed, CompletedIntact, AcceptedGone, GraceOver
  <2> QED  BY <2>1, <2>2, <2>3 DEF Safe
<1>13. ASSUME NEW r \in Runs, CloseRemove(r) PROVE Safe'
  <2>1. StartUndisturbed' /\ NotedVisible'
    BY <1>13, <1>a DEF TypeOK, Safe, StartUndisturbed, NotedVisible, CloseRemove, RemoveDirs
  <2>2. LockHeld' /\ CheckHolds' /\ OneWorktree'
    BY <1>13, <1>a DEF TypeOK, Safe, LockHeld, CheckHolds, OneWorktree, CloseRemove, RemoveDirs
  <2>3. CompletedIntact' /\ AcceptedGone'
    BY <1>13, <1>a DEF TypeOK, Safe, StartUndisturbed, CompletedIntact, AcceptedGone, CloseRemove,
       RemoveDirs
  <2> QED  BY <2>1, <2>2, <2>3 DEF Safe
<1>14. ASSUME NEW r \in Runs, CloseRmtree(r) PROVE Safe'
  <2>1. StartUndisturbed' /\ NotedVisible'
    BY <1>14, <1>a DEF TypeOK, Safe, StartUndisturbed, NotedVisible, CloseRmtree, RemoveDirs
  <2>2. LockHeld' /\ CheckHolds' /\ OneWorktree'
    BY <1>14, <1>a DEF TypeOK, Safe, LockHeld, CheckHolds, OneWorktree, CloseRmtree, RemoveDirs
  <2>3. CompletedIntact' /\ AcceptedGone'
    BY <1>14, <1>a DEF TypeOK, Safe, StartUndisturbed, CompletedIntact, AcceptedGone, CloseRmtree,
       RemoveDirs
  <2> QED  BY <2>1, <2>2, <2>3 DEF Safe
<1>15. ASSUME NEW r \in Runs, ClosePrune(r) PROVE Safe'
  <2>1. StartUndisturbed' /\ NotedVisible'
    BY <1>15, <1>a DEF TypeOK, Safe, StartUndisturbed, NotedVisible, ClosePrune
  <2>2. LockHeld' /\ CheckHolds' /\ OneWorktree'
    BY <1>15, <1>a DEF TypeOK, Safe, LockHeld, CheckHolds, OneWorktree, ClosePrune
  <2>3. CompletedIntact' /\ AcceptedGone'
    BY <1>15, <1>a DEF TypeOK, Safe, StartUndisturbed, CompletedIntact, AcceptedGone, ClosePrune
  <2> QED  BY <2>1, <2>2, <2>3 DEF Safe
<1>16. ASSUME NEW r \in Runs, CloseFails(r) PROVE Safe'
  <2>1. StartUndisturbed' /\ NotedVisible'
    BY <1>16, <1>a DEF TypeOK, Safe, StartUndisturbed, NotedVisible, CloseFails, RemoveDirs
  <2>2. LockHeld' /\ CheckHolds' /\ OneWorktree'
    BY <1>16, <1>a DEF TypeOK, Safe, LockHeld, CheckHolds, OneWorktree, CloseFails, RemoveDirs
  <2>3. CompletedIntact' /\ AcceptedGone'
    BY <1>16, <1>a DEF TypeOK, Safe, StartUndisturbed, CompletedIntact, AcceptedGone, CloseFails,
       RemoveDirs
  <2> QED  BY <2>1, <2>2, <2>3 DEF Safe
<1>17. ASSUME NEW r \in Runs, Unlink(r) PROVE Safe'
  <2>1. StartUndisturbed' /\ NotedVisible'
    BY <1>17, <1>a DEF TypeOK, Safe, StartUndisturbed, NotedVisible, Unlink, Unlock
  <2>2. LockHeld' /\ CheckHolds' /\ OneWorktree'
    BY <1>17, <1>a DEF TypeOK, Safe, LockHeld, CheckHolds, OneWorktree, Unlink, Unlock
  <2>3. CompletedIntact' /\ AcceptedGone'
    BY <1>17, <1>a DEF TypeOK, Safe, StartUndisturbed, CompletedIntact, AcceptedGone, Unlink, Unlock
  <2> QED  BY <2>1, <2>2, <2>3 DEF Safe
<1>18. ASSUME NEW r \in Runs, WriteRecord(r) PROVE Safe'
  <2>1. StartUndisturbed' /\ NotedVisible'
    BY <1>18, <1>a DEF TypeOK, Safe, StartUndisturbed, NotedVisible, WriteRecord, Exit, Unlock
  <2>2. LockHeld' /\ CheckHolds' /\ OneWorktree'
    BY <1>18, <1>a DEF TypeOK, Safe, LockHeld, CheckHolds, OneWorktree, WriteRecord, Exit, Unlock
  <2>3. CompletedIntact' /\ AcceptedGone'
    BY <1>18, <1>a DEF TypeOK, Safe, StartUndisturbed, CompletedIntact, AcceptedGone, WriteRecord,
       Exit, Unlock
  <2> QED  BY <2>1, <2>2, <2>3 DEF Safe
<1>19. ASSUME NEW r \in Runs, InterruptAcquire(r) PROVE Safe'
  <2>1. StartUndisturbed' /\ NotedVisible'
    BY <1>19, <1>a DEF TypeOK, Safe, StartUndisturbed, NotedVisible, InterruptAcquire, Exit,
       Unlock, RemoveDirs
  <2>2. LockHeld' /\ CheckHolds' /\ OneWorktree'
    BY <1>19, <1>a DEF TypeOK, Safe, LockHeld, CheckHolds, OneWorktree, InterruptAcquire, Exit,
       Unlock, RemoveDirs
  <2>3. CompletedIntact' /\ AcceptedGone'
    BY <1>19, <1>a DEF TypeOK, Safe, StartUndisturbed, CompletedIntact, AcceptedGone,
       InterruptAcquire, Exit, Unlock, RemoveDirs
  <2> QED  BY <2>1, <2>2, <2>3 DEF Safe
<1>20. ASSUME NEW r \in Runs, Abandon(r) PROVE Safe'
  <2>1. StartUndisturbed' /\ NotedVisible'
    BY <1>20, <1>a DEF TypeOK, Safe, StartUndisturbed, NotedVisible, Abandon, Exit, Unlock
  <2>2. LockHeld' /\ CheckHolds' /\ OneWorktree'
    BY <1>20, <1>a DEF TypeOK, Safe, LockHeld, CheckHolds, OneWorktree, Abandon, Exit, Unlock
  <2>3. CompletedIntact' /\ AcceptedGone'
    BY <1>20, <1>a DEF TypeOK, Safe, StartUndisturbed, CompletedIntact, AcceptedGone, Abandon,
       Exit, Unlock
  <2> QED  BY <2>1, <2>2, <2>3 DEF Safe
<1>21. ASSUME NEW r \in Runs, InterruptRun(r) PROVE Safe'
  <2>1. StartUndisturbed' /\ NotedVisible'
    BY <1>21, <1>a DEF TypeOK, Safe, StartUndisturbed, NotedVisible, InterruptRun
  <2>2. LockHeld' /\ CheckHolds' /\ OneWorktree'
    BY <1>21, <1>a DEF TypeOK, Safe, LockHeld, CheckHolds, OneWorktree, InterruptRun
  <2>3. CompletedIntact' /\ AcceptedGone'
    BY <1>21, <1>a DEF TypeOK, Safe, StartUndisturbed, CompletedIntact, AcceptedGone, InterruptRun
  <2> QED  BY <2>1, <2>2, <2>3 DEF Safe
<1>22. ASSUME NEW r \in Runs, Kill(r) PROVE Safe'
  <2>1. StartUndisturbed' /\ NotedVisible'
    BY <1>22, <1>a DEF TypeOK, Safe, StartUndisturbed, NotedVisible, Kill, Exit, Unlock
  <2>2. LockHeld' /\ CheckHolds' /\ OneWorktree'
    BY <1>22, <1>a DEF TypeOK, Safe, LockHeld, CheckHolds, OneWorktree, Kill, Exit, Unlock
  <2>3. CompletedIntact' /\ AcceptedGone'
    BY <1>22, <1>a DEF TypeOK, Safe, StartUndisturbed, CompletedIntact, AcceptedGone, Kill, Exit,
       Unlock
  <2> QED  BY <2>1, <2>2, <2>3 DEF Safe
<1>23. ASSUME NEW r \in Runs, LeaderExits(r) PROVE Safe'
  <2>1. StartUndisturbed' /\ NotedVisible'
    BY <1>23, <1>a DEF TypeOK, Safe, StartUndisturbed, NotedVisible, LeaderExits
  <2>2. LockHeld' /\ CheckHolds' /\ OneWorktree'
    BY <1>23, <1>a DEF TypeOK, Safe, LockHeld, CheckHolds, OneWorktree, LeaderExits
  <2>3. CompletedIntact' /\ AcceptedGone'
    BY <1>23, <1>a DEF TypeOK, Safe, StartUndisturbed, CompletedIntact, AcceptedGone, LeaderExits
  <2> QED  BY <2>1, <2>2, <2>3 DEF Safe
<1>24. ASSUME NEW r \in Runs, MemberExits(r) PROVE Safe'
  <2>1. StartUndisturbed' /\ NotedVisible'
    BY <1>24, <1>a DEF TypeOK, Safe, StartUndisturbed, NotedVisible, MemberExits
  <2>2. LockHeld' /\ CheckHolds' /\ OneWorktree'
    BY <1>24, <1>a DEF TypeOK, Safe, LockHeld, CheckHolds, OneWorktree, MemberExits
  <2>3. CompletedIntact' /\ AcceptedGone'
    BY <1>24, <1>a DEF TypeOK, Safe, StartUndisturbed, CompletedIntact, AcceptedGone, MemberExits
  <2> QED  BY <2>1, <2>2, <2>3 DEF Safe
<1>25. ASSUME NEW r \in Runs, Validate(r) PROVE Safe'
  <2>1. StartUndisturbed' /\ NotedVisible'
    BY <1>25, <1>a DEF TypeOK, Safe, StartUndisturbed, NotedVisible, Validate, Accepts
  <2>2. LockHeld' /\ CheckHolds' /\ OneWorktree'
    BY <1>25, <1>a DEF TypeOK, Safe, LockHeld, CheckHolds, OneWorktree, Validate, Accepts
  <2>3. CompletedIntact' /\ AcceptedGone'
    BY <1>25, <1>a DEF TypeOK, Safe, StartUndisturbed, CompletedIntact, AcceptedGone, Validate,
       Accepts
  <2> QED  BY <2>1, <2>2, <2>3 DEF Safe
<1>26. ASSUME NEW r \in Runs, Reclaim(r) PROVE Safe'
  <2>1. StartUndisturbed' /\ NotedVisible'
    BY <1>26, <1>a DEF TypeOK, Safe, StartUndisturbed, NotedVisible, Reclaim, RemoveDirs
  <2>2. LockHeld' /\ CheckHolds' /\ OneWorktree'
    BY <1>26, <1>a DEF TypeOK, Safe, LockHeld, CheckHolds, OneWorktree, Reclaim, RemoveDirs
  <2>3. CompletedIntact' /\ AcceptedGone'
    BY <1>26, <1>a DEF TypeOK, Safe, StartUndisturbed, CompletedIntact, AcceptedGone, Reclaim,
       RemoveDirs
  <2> QED  BY <2>1, <2>2, <2>3 DEF Safe
<1>27. ASSUME NEW old \in SUBSET Old, Detect(old) PROVE Safe'
  <2>1. StartUndisturbed' /\ NotedVisible'
    BY <1>27, <1>a DEF TypeOK, Safe, StartUndisturbed, NotedVisible, Detect, Old, Stale, Active
  <2>2. LockHeld' /\ CheckHolds' /\ OneWorktree'
    BY <1>27, <1>a DEF TypeOK, Safe, LockHeld, CheckHolds, OneWorktree, Detect
  <2>3. CompletedIntact' /\ AcceptedGone'
    BY <1>27, <1>a DEF TypeOK, Safe, CompletedIntact, AcceptedGone, Detect
  <2> QED  BY <2>1, <2>2, <2>3 DEF Safe
<1> QED
  BY <1>1, <1>2, <1>3, <1>4, <1>5, <1>6, <1>7, <1>8, <1>9, <1>10, <1>11, <1>12, <1>13, <1>14,
     <1>15, <1>16, <1>17, <1>18, <1>19, <1>20, <1>21, <1>22, <1>23, <1>24, <1>25, <1>26, <1>27 DEF
     Next, Steps, Disturb, GroupEnds

-----------------------------------------------------------------------------
(* The theorems. *)

LEMMA StutterStep == UNCHANGED vars => (TypeOK <=> TypeOK') /\ (Safe <=> Safe')
<1> SUFFICES ASSUME UNCHANGED vars PROVE (TypeOK <=> TypeOK') /\ (Safe <=> Safe')  OBVIOUS
<1> USE DEF vars, runner, trees, group, results, history
<1>1. TypeOK <=> TypeOK'  BY DEF TypeOK, Alive
<1>2. (StartUndisturbed <=> StartUndisturbed') /\ (NotedVisible <=> NotedVisible')
  BY DEF StartUndisturbed, NotedVisible
<1>3. (LockHeld <=> LockHeld') /\ (CheckHolds <=> CheckHolds') /\ (OneWorktree <=> OneWorktree')
  BY DEF LockHeld, CheckHolds, OneWorktree, NoneExists
<1>4. (CompletedIntact <=> CompletedIntact') /\ (AcceptedGone <=> AcceptedGone')
  BY DEF CompletedIntact, AcceptedGone
<1> QED  BY <1>1, <1>2, <1>3, <1>4 DEF Safe

LEMMA InitIInv == ASSUME Init PROVE IInv
<1>1. TypeOK
  BY FaultsAssumption DEF Init, TypeOK, Stages, Acquiring, Statuses, NoRecord
<1>2. Safe
  BY <1>1 DEF Init, TypeOK, Safe, StartUndisturbed, NotedVisible, LockHeld, CheckHolds, OneWorktree,
     CompletedIntact, AcceptedGone, Early, Starting, Locking, NoRecord
<1> QED  BY <1>1, <1>2 DEF IInv

\* The state keeps its types, and a lock is held by a process that exists and is
\* about its binding, even when start-ups are slow (_acquire_lock).
THEOREM TypeCorrect == Spec => []TypeOK
<1>1. Init => TypeOK  BY InitIInv DEF IInv
<1>2. TypeOK /\ [Next]_vars => TypeOK'  BY TypeStep, StutterStep
<1> QED  BY <1>1, <1>2, PTL DEF Spec

\* The inductive invariant, where no start-up outlasts --older-than-hours.
THEOREM Invariance == ASSUME ~SlowStart PROVE Spec => []IInv
<1>1. Init => IInv  BY InitIInv
<1>2. IInv /\ [Next]_vars => IInv'  BY TypeStep, SafeStep, StutterStep DEF IInv
<1> QED  BY <1>1, <1>2, PTL DEF Spec

\* Whatever is killed, interrupted or reclaimed, an Advisor whose PID is in the
\* marker keeps its worktree while it runs (_marker_pid_active, run_advisor).
THEOREM AdvisorKeepsWorkspace == ASSUME ~SlowStart PROVE Spec => []NotedAdvisorKeepsWorkspace
<1>1. IInv => NotedAdvisorKeepsWorkspace
  BY DEF IInv, Safe, NotedVisible, NotedAdvisorKeepsWorkspace
<1> QED  BY <1>1, Invariance, PTL

\* At most one Advisor on record reviews a code commit of a pull request at a
\* time: the lock until its process dies, then the worktree (acquire).
THEOREM OneAdvisor == ASSUME ~SlowStart PROVE Spec => []OneAdvisorPerBinding
<1>1. IInv => OneAdvisorPerBinding
  BY DEF IInv, Safe, NotedVisible, OneWorktree, OneAdvisorPerBinding
<1> QED  BY <1>1, Invariance, PTL

\* An accepted opinion is of an Advisor that ended well in a worktree that was
\* its own to the end (validate_advisor_opinion).
THEOREM AcceptedIntact == ASSUME ~SlowStart PROVE Spec => []AcceptedWasIntact
<1>1. IInv => AcceptedWasIntact
  BY DEF IInv, Safe, TypeOK, CompletedIntact, AcceptedGone, AcceptedWasIntact
<1> QED  BY <1>1, Invariance, PTL
=============================================================================
