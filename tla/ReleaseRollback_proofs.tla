----------------------- MODULE ReleaseRollback_proofs -----------------------
(***************************************************************************)
(* Proofs about ReleaseRollback for any number of customer writes,         *)
(* attempts and faults, of every kind.                                     *)
(***************************************************************************)
EXTENDS ReleaseRollback, TLAPS

\* Control points between the engaged fence and its publication.
BehindFence == {"activate", "restoreLock", "relock", "assert", "verify", "openRestored", "publish"}
                  \cup Restoring

\* Control points between the proof that data is B0 and pg_restore.
Untouched == {"activate", "restoreLock", "preflight", "retain", "database"}

\* A publication that moves the state files owns the lease.
StateNeedsLease == pub \in {"state", "seal"} => lease = "publication"

\* While the rollback still owns its lease, nobody opens what it has frozen, and
\* the watermark it has seen is the one that it restores.
FrozenStaysClosed ==
    /\ rb = "recheck" /\ lease = "rollback" => ~proxy
    /\ rb = "fence" /\ lease = "rollback" => ~proxy /\ data = W0

FenceHolds == rb \in BehindFence => fence

BaselineBehindFence == rb \in Untouched \cup {"openRestored", "publish"} => data = W0

\* A torn database is fenced off, wherever the scripts are.
PartialFenced == data.partial => fence

SwitchNeedsVerdict == rb \in Switching => compatible

\* What the candidate wrote is served by the candidate.
ForwardNeedsCandidate == ~compatible /\ data.forward => app = "candidate"

Safe ==
    /\ NoCustomerWriteLost
    /\ StateNeedsLease /\ FrozenStaysClosed /\ FenceHolds /\ BaselineBehindFence
    /\ PartialFenced /\ SwitchNeedsVerdict /\ ForwardNeedsCandidate

IInv == TypeOK /\ Safe

-----------------------------------------------------------------------------
(* The type invariant in two parts, for provers that want Booleans alone. *)

Flags ==
    /\ marker \in BOOLEAN /\ proxy \in BOOLEAN /\ up \in BOOLEAN /\ fence \in BOOLEAN
    /\ late \in BOOLEAN /\ claim \in BOOLEAN /\ restored \in BOOLEAN /\ compatible \in BOOLEAN
    /\ initial \in [proxy : BOOLEAN, up : BOOLEAN]

Others ==
    /\ {stage, sealed} \subseteq {"none"} \cup {Stages[i] : i \in DOMAIN Stages}
    /\ app \in {"stable", "candidate"}
    /\ {data, declared} \subseteq Watermark
    /\ acked \in 0..MaxWrites
    /\ lease \in {"free", "publication", "rollback", "restore", "dead"}
    /\ clock \in {"open", "passed", "exceeded"}
    /\ pub \in {"idle", "command", "marker", "state", "seal", "proxy"}
    /\ target \in {Stages[i] : i \in DOMAIN Stages}
    /\ rb \in Unleased \cup Freezing \cup Switching \cup Forwarding \cup Restoring \cup Accepting
    /\ action \in {"none", "restore", "switch", "decision"}
    /\ result \in Results
    /\ attempts \in 0..MaxAttempts /\ faults \in 0..MaxFaults

LEMMA BaselineTypes == W0 \in Watermark /\ Broken \in Watermark
<1>1. 0 \in 0..MaxWrites  BY BoundsAssumption
<1>2. W0 \in Watermark  BY <1>1, Zenon DEF W0, Watermark
<1>3. Broken \in Watermark  BY <1>2 DEF Broken, Watermark
<1> QED  BY <1>2, <1>3

LEMMA FlagsOfType == ASSUME TypeOK PROVE Flags  BY Zenon DEF TypeOK, Flags
LEMMA OthersOfType == ASSUME TypeOK PROVE Others  BY DEF TypeOK, Others
LEMMA TypeOfParts == Flags' /\ Others' => TypeOK'
BY DEF TypeOK, Flags, Others

LEMMA StutterStep == ASSUME IInv, UNCHANGED vars PROVE IInv'
<1> USE DEF vars, stateFiles, services, host, clocks, pubVars, memory, rbVars
<1>1. TypeOK'  BY DEF IInv, TypeOK
<1>2. Safe'
  BY DEF IInv, Safe, NoCustomerWriteLost, StateNeedsLease, FrozenStaysClosed,
     FenceHolds, BaselineBehindFence, PartialFenced, SwitchNeedsVerdict, ForwardNeedsCandidate
<1> QED  BY <1>1, <1>2 DEF IInv

LEMMA PublicationStep == ASSUME IInv, Publication PROVE IInv'
<1> USE DEF stateFiles, services, host, clocks, pubVars, memory, rbVars, Outside, PubUnchanged,
           Goto, Exit, Release, Fault,
           Unleased, Freezing, Switching, Forwarding, Restoring, Accepting, BehindFence, Untouched,
           NoCustomerWriteLost, StateNeedsLease, FrozenStaysClosed, FenceHolds,
           BaselineBehindFence, PartialFenced, SwitchNeedsVerdict, ForwardNeedsCandidate
<1>a. TypeOK /\ Flags /\ Others  BY FlagsOfType, OthersOfType DEF IInv
<1>b. Safe  BY DEF IInv
<1>1. CASE PubBegin
  <2>1. Flags'  BY <1>1, <1>a, Zenon DEF Flags, PubBegin
  <2>2. Others'
    BY <1>1, <1>a, BaselineTypes, BoundsAssumption DEF Others, Results, PubBegin
  <2>3. Safe'
    BY <1>1, <1>a, <1>b DEF Others, Safe, Watermark, W0, Broken, PubBegin
  <2> QED  BY <2>1, <2>2, <2>3, TypeOfParts DEF IInv
<1>2. CASE PubCommand
  <2>1. Flags'  BY <1>2, <1>a, Zenon DEF Flags, PubCommand
  <2>2. Others'
    BY <1>2, <1>a, BaselineTypes, BoundsAssumption DEF Others, Results, PubCommand
  <2>3. Safe'
    BY <1>2, <1>a, <1>b DEF Others, Safe, Watermark, W0, Broken, PubCommand
  <2> QED  BY <2>1, <2>2, <2>3, TypeOfParts DEF IInv
<1>3. CASE PubMarker
  <2>1. Flags'  BY <1>3, <1>a, Zenon DEF Flags, PubMarker, Advances, PubExit
  <2>2. Others'
    BY <1>3, <1>a, BaselineTypes, BoundsAssumption DEF Others, Results, PubMarker, Advances, PubExit
  <2>3. Safe'
    BY <1>3, <1>a, <1>b DEF Others, Safe, Watermark, W0, Broken, PubMarker, Advances, PubExit
  <2> QED  BY <2>1, <2>2, <2>3, TypeOfParts DEF IInv
<1>4. CASE PubState
  <2>1. Flags'  BY <1>4, <1>a, Zenon DEF Flags, PubState
  <2>2. Others'
    BY <1>4, <1>a, BaselineTypes, BoundsAssumption DEF Others, Results, PubState
  <2>3. Safe'
    BY <1>4, <1>a, <1>b DEF Others, Safe, Watermark, W0, Broken, PubState
  <2> QED  BY <2>1, <2>2, <2>3, TypeOfParts DEF IInv
<1>5. CASE PubSeal
  <2>1. Flags'  BY <1>5, <1>a, Zenon DEF Flags, PubSeal, PubExit
  <2>2. Others'
    BY <1>5, <1>a, BaselineTypes, BoundsAssumption DEF Others, Results, PubSeal, PubExit
  <2>3. Safe'
    BY <1>5, <1>a, <1>b DEF Others, Safe, Watermark, W0, Broken, PubSeal, PubExit
  <2> QED  BY <2>1, <2>2, <2>3, TypeOfParts DEF IInv
<1>6. CASE PubProxy
  <2>1. Flags'  BY <1>6, <1>a, Zenon DEF Flags, PubProxy, PubExit
  <2>2. Others'
    BY <1>6, <1>a, BaselineTypes, BoundsAssumption DEF Others, Results, PubProxy, PubExit
  <2>3. Safe'
    BY <1>6, <1>a, <1>b DEF Others, Safe, Watermark, W0, Broken, PubProxy, PubExit
  <2> QED  BY <2>1, <2>2, <2>3, TypeOfParts DEF IInv
<1> QED
  BY <1>1, <1>2, <1>3, <1>4, <1>5, <1>6 DEF Publication

LEMMA RollbackStep == ASSUME IInv, Rollback PROVE IInv'
<1> USE DEF stateFiles, services, host, clocks, pubVars, memory, rbVars, Outside, PubUnchanged,
           Goto, Exit, Release, Fault,
           Unleased, Freezing, Switching, Forwarding, Restoring, Accepting, BehindFence, Untouched,
           NoCustomerWriteLost, StateNeedsLease, FrozenStaysClosed, FenceHolds,
           BaselineBehindFence, PartialFenced, SwitchNeedsVerdict, ForwardNeedsCandidate
<1>a. TypeOK /\ Flags /\ Others  BY FlagsOfType, OthersOfType DEF IInv
<1>b. Safe  BY DEF IInv
<1>1. CASE RbInspect
  <2>1. Flags'  BY <1>1, <1>a, Zenon DEF Flags, RbInspect, ActionFor
  <2>2. Others'
    BY <1>1, <1>a, BaselineTypes, BoundsAssumption DEF Others, Results, RbInspect, ActionFor
  <2>3. Safe'
    BY <1>1, <1>a, <1>b DEF Others, Safe, Watermark, W0, Broken, RbInspect, ActionFor
  <2> QED  BY <2>1, <2>2, <2>3, TypeOfParts DEF IInv
<1>2. CASE RbLock
  <2>1. Flags'  BY <1>2, <1>a, Zenon DEF Flags, RbLock, TakeLease
  <2>2. Others'
    BY <1>2, <1>a, BaselineTypes, BoundsAssumption DEF Others, Results, RbLock, TakeLease
  <2>3. Safe'
    BY <1>2, <1>a, <1>b DEF Others, Safe, Watermark, W0, Broken, RbLock, TakeLease
  <2> QED  BY <2>1, <2>2, <2>3, TypeOfParts DEF IInv
<1>3. CASE RbExecute
  <2>1. Flags'  BY <1>3, <1>a, Zenon DEF Flags, RbExecute, ActionFor
  <2>2. Others'
    BY <1>3, <1>a, BaselineTypes, BoundsAssumption DEF Others, Results, RbExecute, ActionFor
  <2>3. Safe'
    BY <1>3, <1>a, <1>b DEF Others, Safe, Watermark, W0, Broken, RbExecute, ActionFor
  <2> QED  BY <2>1, <2>2, <2>3, TypeOfParts DEF IInv
<1>4. CASE RbFreeze
  <2>1. Flags'  BY <1>4, <1>a, Zenon DEF Flags, RbFreeze
  <2>2. Others'
    BY <1>4, <1>a, BaselineTypes, BoundsAssumption DEF Others, Results, RbFreeze
  <2>3. Safe'
    BY <1>4, <1>a, <1>b DEF Others, Safe, Watermark, W0, Broken, RbFreeze
  <2> QED  BY <2>1, <2>2, <2>3, TypeOfParts DEF IInv
<1>5. CASE RbRecheck
  <2>1. Flags'  BY <1>5, <1>a, Zenon DEF Flags, RbRecheck, ActionFor, PrePublicProven
  <2>2. Others'
    BY <1>5, <1>a, BaselineTypes, BoundsAssumption DEF Others, Results, RbRecheck, ActionFor,
       PrePublicProven
  <2>3. Safe'
    BY <1>5, <1>a, <1>b DEF Others, Safe, Watermark, W0, Broken, RbRecheck, ActionFor,
       PrePublicProven
  <2> QED  BY <2>1, <2>2, <2>3, TypeOfParts DEF IInv
<1>6. CASE RbFence
  <2>1. Flags'  BY <1>6, <1>a, Zenon DEF Flags, RbFence
  <2>2. Others'
    BY <1>6, <1>a, BaselineTypes, BoundsAssumption DEF Others, Results, RbFence
  <2>3. Safe'
    BY <1>6, <1>a, <1>b DEF Others, Safe, Watermark, W0, Broken, RbFence
  <2> QED  BY <2>1, <2>2, <2>3, TypeOfParts DEF IInv
<1>7. CASE RbActivate
  <2>1. Flags'  BY <1>7, <1>a, Zenon DEF Flags, RbActivate
  <2>2. Others'
    BY <1>7, <1>a, BaselineTypes, BoundsAssumption DEF Others, Results, RbActivate
  <2>3. Safe'
    BY <1>7, <1>a, <1>b DEF Others, Safe, Watermark, W0, Broken, RbActivate
  <2> QED  BY <2>1, <2>2, <2>3, TypeOfParts DEF IInv
<1>8. CASE RbRelock
  <2>1. Flags'  BY <1>8, <1>a, Zenon DEF Flags, RbRelock, TakeLease
  <2>2. Others'
    BY <1>8, <1>a, BaselineTypes, BoundsAssumption DEF Others, Results, RbRelock, TakeLease
  <2>3. Safe'
    BY <1>8, <1>a, <1>b DEF Others, Safe, Watermark, W0, Broken, RbRelock, TakeLease
  <2> QED  BY <2>1, <2>2, <2>3, TypeOfParts DEF IInv
<1>9. CASE RbAssert
  <2>1. Flags'  BY <1>9, <1>a, Zenon DEF Flags, RbAssert
  <2>2. Others'
    BY <1>9, <1>a, BaselineTypes, BoundsAssumption DEF Others, Results, RbAssert
  <2>3. Safe'
    BY <1>9, <1>a, <1>b DEF Others, Safe, Watermark, W0, Broken, RbAssert
  <2> QED  BY <2>1, <2>2, <2>3, TypeOfParts DEF IInv
<1>10. CASE RbVerify
  <2>1. Flags'  BY <1>10, <1>a, Zenon DEF Flags, RbVerify
  <2>2. Others'
    BY <1>10, <1>a, BaselineTypes, BoundsAssumption DEF Others, Results, RbVerify
  <2>3. Safe'
    BY <1>10, <1>a, <1>b DEF Others, Safe, Watermark, W0, Broken, RbVerify
  <2> QED  BY <2>1, <2>2, <2>3, TypeOfParts DEF IInv
<1>11. CASE RbOpenRestored
  <2>1. Flags'  BY <1>11, <1>a, Zenon DEF Flags, RbOpenRestored
  <2>2. Others'
    BY <1>11, <1>a, BaselineTypes, BoundsAssumption DEF Others, Results, RbOpenRestored
  <2>3. Safe'
    BY <1>11, <1>a, <1>b DEF Others, Safe, Watermark, W0, Broken, RbOpenRestored
  <2> QED  BY <2>1, <2>2, <2>3, TypeOfParts DEF IInv
<1>12. CASE RbPublish
  <2>1. Flags'  BY <1>12, <1>a, Zenon DEF Flags, RbPublish
  <2>2. Others'
    BY <1>12, <1>a, BaselineTypes, BoundsAssumption DEF Others, Results, RbPublish
  <2>3. Safe'
    <3>1. data = W0 /\ ~data.partial  BY <1>12, <1>b DEF RbPublish, Safe, W0
    <3>2. rb' \in {"idle", "complete"}  BY <1>12 DEF RbPublish
    <3>3. UNCHANGED <<stage, data, acked, pub, compatible, app>>  BY <1>12 DEF RbPublish
    <3>4. PartialFenced' /\ NoCustomerWriteLost' /\ ForwardNeedsCandidate'  BY <1>b, <3>1, <3>3 DEF Safe
    <3>5. FrozenStaysClosed' /\ FenceHolds' /\ BaselineBehindFence' /\ SwitchNeedsVerdict'  BY <3>2
    <3>6. StateNeedsLease'  BY <1>12, <1>b DEF RbPublish, Safe
    <3> QED  BY <3>4, <3>5, <3>6 DEF Safe
  <2> QED  BY <2>1, <2>2, <2>3, TypeOfParts DEF IInv
<1>13. CASE RbComplete
  <2>1. Flags'  BY <1>13, <1>a, Zenon DEF Flags, RbComplete, ClockResult
  <2>2. Others'
    BY <1>13, <1>a, BaselineTypes, BoundsAssumption DEF Others, Results, RbComplete, ClockResult
  <2>3. Safe'
    BY <1>13, <1>a, <1>b DEF Others, Safe, Watermark, W0, Broken, RbComplete, ClockResult
  <2> QED  BY <2>1, <2>2, <2>3, TypeOfParts DEF IInv
<1> QED
  BY <1>1, <1>2, <1>3, <1>4, <1>5, <1>6, <1>7, <1>8, <1>9, <1>10, <1>11, <1>12, <1>13 DEF Rollback

LEMMA RestoreStep == ASSUME IInv, Restore PROVE IInv'
<1> USE DEF stateFiles, services, host, clocks, pubVars, memory, rbVars, Outside, PubUnchanged,
           Goto, Exit, Release, Fault,
           Unleased, Freezing, Switching, Forwarding, Restoring, Accepting, BehindFence, Untouched,
           NoCustomerWriteLost, StateNeedsLease, FrozenStaysClosed, FenceHolds,
           BaselineBehindFence, PartialFenced, SwitchNeedsVerdict, ForwardNeedsCandidate
<1>a. TypeOK /\ Flags /\ Others  BY FlagsOfType, OthersOfType DEF IInv
<1>b. Safe  BY DEF IInv
<1>1. CASE RsLock
  <2>1. Flags'  BY <1>1, <1>a, Zenon DEF Flags, RsLock, TakeLease
  <2>2. Others'
    BY <1>1, <1>a, BaselineTypes, BoundsAssumption DEF Others, Results, RsLock, TakeLease
  <2>3. Safe'
    BY <1>1, <1>a, <1>b DEF Others, Safe, Watermark, W0, Broken, RsLock, TakeLease
  <2> QED  BY <2>1, <2>2, <2>3, TypeOfParts DEF IInv
<1>2. CASE RsPreflight
  <2>1. Flags'  BY <1>2, <1>a, Zenon DEF Flags, RsPreflight
  <2>2. Others'
    BY <1>2, <1>a, BaselineTypes, BoundsAssumption DEF Others, Results, RsPreflight
  <2>3. Safe'
    BY <1>2, <1>a, <1>b DEF Others, Safe, Watermark, W0, Broken, RsPreflight
  <2> QED  BY <2>1, <2>2, <2>3, TypeOfParts DEF IInv
<1>3. CASE RsRetain
  <2>1. Flags'  BY <1>3, <1>a, Zenon DEF Flags, RsRetain
  <2>2. Others'
    BY <1>3, <1>a, BaselineTypes, BoundsAssumption DEF Others, Results, RsRetain
  <2>3. Safe'
    BY <1>3, <1>a, <1>b DEF Others, Safe, Watermark, W0, Broken, RsRetain
  <2> QED  BY <2>1, <2>2, <2>3, TypeOfParts DEF IInv
<1>4. CASE RsDatabase
  <2>1. Flags'  BY <1>4, <1>a, Zenon DEF Flags, RsDatabase
  <2>2. Others'
    BY <1>4, <1>a, BaselineTypes, BoundsAssumption DEF Others, Results, RsDatabase
  <2>3. Safe'
    BY <1>4, <1>a, <1>b DEF Others, Safe, Watermark, W0, Broken, RsDatabase
  <2> QED  BY <2>1, <2>2, <2>3, TypeOfParts DEF IInv
<1>5. CASE RsFiles
  <2>1. Flags'  BY <1>5, <1>a, Zenon DEF Flags, RsFiles
  <2>2. Others'
    BY <1>5, <1>a, BaselineTypes, BoundsAssumption DEF Others, Results, RsFiles
  <2>3. Safe'
    BY <1>5, <1>a, <1>b DEF Others, Safe, Watermark, W0, Broken, RsFiles
  <2> QED  BY <2>1, <2>2, <2>3, TypeOfParts DEF IInv
<1>6. CASE RsStartApp
  <2>1. Flags'  BY <1>6, <1>a, Zenon DEF Flags, RsStartApp
  <2>2. Others'
    BY <1>6, <1>a, BaselineTypes, BoundsAssumption DEF Others, Results, RsStartApp
  <2>3. Safe'
    BY <1>6, <1>a, <1>b DEF Others, Safe, Watermark, W0, Broken, RsStartApp
  <2> QED  BY <2>1, <2>2, <2>3, TypeOfParts DEF IInv
<1>7. CASE RsStartProxy
  <2>1. Flags'  BY <1>7, <1>a, Zenon DEF Flags, RsStartProxy
  <2>2. Others'
    BY <1>7, <1>a, BaselineTypes, BoundsAssumption DEF Others, Results, RsStartProxy
  <2>3. Safe'
    BY <1>7, <1>a, <1>b DEF Others, Safe, Watermark, W0, Broken, RsStartProxy
  <2> QED  BY <2>1, <2>2, <2>3, TypeOfParts DEF IInv
<1>8. CASE RsExternal
  <2>1. Flags'  BY <1>8, <1>a, Zenon DEF Flags, RsExternal
  <2>2. Others'
    BY <1>8, <1>a, BaselineTypes, BoundsAssumption DEF Others, Results, RsExternal
  <2>3. Safe'
    BY <1>8, <1>a, <1>b DEF Others, Safe, Watermark, W0, Broken, RsExternal
  <2> QED  BY <2>1, <2>2, <2>3, TypeOfParts DEF IInv
<1> QED
  BY <1>1, <1>2, <1>3, <1>4, <1>5, <1>6, <1>7, <1>8 DEF Restore

LEMMA EngineStep == ASSUME IInv, Engine PROVE IInv'
<1> USE DEF stateFiles, services, host, clocks, pubVars, memory, rbVars, Outside, PubUnchanged,
           Goto, Exit, Release, Fault,
           Unleased, Freezing, Switching, Forwarding, Restoring, Accepting, BehindFence, Untouched,
           NoCustomerWriteLost, StateNeedsLease, FrozenStaysClosed, FenceHolds,
           BaselineBehindFence, PartialFenced, SwitchNeedsVerdict, ForwardNeedsCandidate
<1>a. TypeOK /\ Flags /\ Others  BY FlagsOfType, OthersOfType DEF IInv
<1>b. Safe  BY DEF IInv
<1>1. CASE EnIsolate
  <2>1. Flags'  BY <1>1, <1>a, Zenon DEF Flags, EnIsolate
  <2>2. Others'
    BY <1>1, <1>a, BaselineTypes, BoundsAssumption DEF Others, Results, EnIsolate
  <2>3. Safe'
    BY <1>1, <1>a, <1>b DEF Others, Safe, Watermark, W0, Broken, EnIsolate
  <2> QED  BY <2>1, <2>2, <2>3, TypeOfParts DEF IInv
<1>2. CASE EnSwitch
  <2>1. Flags'  BY <1>2, <1>a, Zenon DEF Flags, EnSwitch
  <2>2. Others'
    BY <1>2, <1>a, BaselineTypes, BoundsAssumption DEF Others, Results, EnSwitch
  <2>3. Safe'
    BY <1>2, <1>a, <1>b DEF Others, Safe, Watermark, W0, Broken, EnSwitch
  <2> QED  BY <2>1, <2>2, <2>3, TypeOfParts DEF IInv
<1>3. CASE EnCheck
  <2>1. Flags'  BY <1>3, <1>a, Zenon DEF Flags, EnCheck
  <2>2. Others'
    BY <1>3, <1>a, BaselineTypes, BoundsAssumption DEF Others, Results, EnCheck
  <2>3. Safe'
    BY <1>3, <1>a, <1>b DEF Others, Safe, Watermark, W0, Broken, EnCheck
  <2> QED  BY <2>1, <2>2, <2>3, TypeOfParts DEF IInv
<1>4. CASE EnOpenStable
  <2>1. Flags'  BY <1>4, <1>a, Zenon DEF Flags, EnOpenStable
  <2>2. Others'
    BY <1>4, <1>a, BaselineTypes, BoundsAssumption DEF Others, Results, EnOpenStable
  <2>3. Safe'
    BY <1>4, <1>a, <1>b DEF Others, Safe, Watermark, W0, Broken, EnOpenStable
  <2> QED  BY <2>1, <2>2, <2>3, TypeOfParts DEF IInv
<1>5. CASE EnReadyStable
  <2>1. Flags'  BY <1>5, <1>a, Zenon DEF Flags, EnReadyStable, ClockResult
  <2>2. Others'
    BY <1>5, <1>a, BaselineTypes, BoundsAssumption DEF Others, Results, EnReadyStable, ClockResult
  <2>3. Safe'
    BY <1>5, <1>a, <1>b DEF Others, Safe, Watermark, W0, Broken, EnReadyStable, ClockResult
  <2> QED  BY <2>1, <2>2, <2>3, TypeOfParts DEF IInv
<1>6. CASE EnFinish
  <2>1. Flags'  BY <1>6, <1>a, Zenon DEF Flags, EnFinish
  <2>2. Others'
    BY <1>6, <1>a, BaselineTypes, BoundsAssumption DEF Others, Results, EnFinish
  <2>3. Safe'
    BY <1>6, <1>a, <1>b DEF Others, Safe, Watermark, W0, Broken, EnFinish
  <2> QED  BY <2>1, <2>2, <2>3, TypeOfParts DEF IInv
<1>7. CASE EnReisolate
  <2>1. Flags'  BY <1>7, <1>a, Zenon DEF Flags, EnReisolate
  <2>2. Others'
    BY <1>7, <1>a, BaselineTypes, BoundsAssumption DEF Others, Results, EnReisolate
  <2>3. Safe'
    BY <1>7, <1>a, <1>b DEF Others, Safe, Watermark, W0, Broken, EnReisolate
  <2> QED  BY <2>1, <2>2, <2>3, TypeOfParts DEF IInv
<1>8. CASE EnForward
  <2>1. Flags'  BY <1>8, <1>a, Zenon DEF Flags, EnForward
  <2>2. Others'
    BY <1>8, <1>a, BaselineTypes, BoundsAssumption DEF Others, Results, EnForward
  <2>3. Safe'
    BY <1>8, <1>a, <1>b DEF Others, Safe, Watermark, W0, Broken, EnForward
  <2> QED  BY <2>1, <2>2, <2>3, TypeOfParts DEF IInv
<1>9. CASE EnOpenCandidate
  <2>1. Flags'  BY <1>9, <1>a, Zenon DEF Flags, EnOpenCandidate
  <2>2. Others'
    BY <1>9, <1>a, BaselineTypes, BoundsAssumption DEF Others, Results, EnOpenCandidate
  <2>3. Safe'
    BY <1>9, <1>a, <1>b DEF Others, Safe, Watermark, W0, Broken, EnOpenCandidate
  <2> QED  BY <2>1, <2>2, <2>3, TypeOfParts DEF IInv
<1>10. CASE EnReadyCandidate
  <2>1. Flags'  BY <1>10, <1>a, Zenon DEF Flags, EnReadyCandidate
  <2>2. Others'
    BY <1>10, <1>a, BaselineTypes, BoundsAssumption DEF Others, Results, EnReadyCandidate
  <2>3. Safe'
    BY <1>10, <1>a, <1>b DEF Others, Safe, Watermark, W0, Broken, EnReadyCandidate
  <2> QED  BY <2>1, <2>2, <2>3, TypeOfParts DEF IInv
<1>11. CASE EnGiveUp
  <2>1. Flags'  BY <1>11, <1>a, Zenon DEF Flags, EnGiveUp
  <2>2. Others'
    BY <1>11, <1>a, BaselineTypes, BoundsAssumption DEF Others, Results, EnGiveUp
  <2>3. Safe'
    BY <1>11, <1>a, <1>b DEF Others, Safe, Watermark, W0, Broken, EnGiveUp
  <2> QED  BY <2>1, <2>2, <2>3, TypeOfParts DEF IInv
<1> QED
  BY <1>1, <1>2, <1>3, <1>4, <1>5, <1>6, <1>7, <1>8, <1>9, <1>10, <1>11 DEF Engine

LEMMA FailureStep == ASSUME IInv, Failure PROVE IInv'
<1> USE DEF stateFiles, services, host, clocks, pubVars, memory, rbVars, Outside, PubUnchanged,
           Goto, Exit, Release, Fault,
           Unleased, Freezing, Switching, Forwarding, Restoring, Accepting, BehindFence, Untouched,
           NoCustomerWriteLost, StateNeedsLease, FrozenStaysClosed, FenceHolds,
           BaselineBehindFence, PartialFenced, SwitchNeedsVerdict, ForwardNeedsCandidate
<1>a. TypeOK /\ Flags /\ Others  BY FlagsOfType, OthersOfType DEF IInv
<1>b. Safe  BY DEF IInv
<1>1. CASE PubFails
  <2>1. Flags'  BY <1>1, <1>a, Zenon DEF Flags, PubFails, PubExit
  <2>2. Others'
    BY <1>1, <1>a, BaselineTypes, BoundsAssumption DEF Others, Results, PubFails, PubExit
  <2>3. Safe'
    BY <1>1, <1>a, <1>b DEF Others, Safe, Watermark, W0, Broken, PubFails, PubExit
  <2> QED  BY <2>1, <2>2, <2>3, TypeOfParts DEF IInv
<1>2. CASE IsolateFails
  <2>1. Flags'  BY <1>2, <1>a, Zenon DEF Flags, IsolateFails
  <2>2. Others'
    BY <1>2, <1>a, BaselineTypes, BoundsAssumption DEF Others, Results, IsolateFails
  <2>3. Safe'
    BY <1>2, <1>a, <1>b DEF Others, Safe, Watermark, W0, Broken, IsolateFails
  <2> QED  BY <2>1, <2>2, <2>3, TypeOfParts DEF IInv
<1>3. CASE SwitchFails
  <2>1. Flags'  BY <1>3, <1>a, Zenon DEF Flags, SwitchFails
  <2>2. Others'
    BY <1>3, <1>a, BaselineTypes, BoundsAssumption DEF Others, Results, SwitchFails
  <2>3. Safe'
    BY <1>3, <1>a, <1>b DEF Others, Safe, Watermark, W0, Broken, SwitchFails
  <2> QED  BY <2>1, <2>2, <2>3, TypeOfParts DEF IInv
<1>4. CASE AuditFails
  <2>1. Flags'  BY <1>4, <1>a, Zenon DEF Flags, AuditFails
  <2>2. Others'
    BY <1>4, <1>a, BaselineTypes, BoundsAssumption DEF Others, Results, AuditFails
  <2>3. Safe'
    BY <1>4, <1>a, <1>b DEF Others, Safe, Watermark, W0, Broken, AuditFails
  <2> QED  BY <2>1, <2>2, <2>3, TypeOfParts DEF IInv
<1>5. CASE StopProxyFails
  <2>1. Flags'  BY <1>5, <1>a, Zenon DEF Flags, StopProxyFails
  <2>2. Others'
    BY <1>5, <1>a, BaselineTypes, BoundsAssumption DEF Others, Results, StopProxyFails
  <2>3. Safe'
    BY <1>5, <1>a, <1>b DEF Others, Safe, Watermark, W0, Broken, StopProxyFails
  <2> QED  BY <2>1, <2>2, <2>3, TypeOfParts DEF IInv
<1>6. CASE ForwardFails
  <2>1. Flags'  BY <1>6, <1>a, Zenon DEF Flags, ForwardFails
  <2>2. Others'
    BY <1>6, <1>a, BaselineTypes, BoundsAssumption DEF Others, Results, ForwardFails
  <2>3. Safe'
    BY <1>6, <1>a, <1>b DEF Others, Safe, Watermark, W0, Broken, ForwardFails
  <2> QED  BY <2>1, <2>2, <2>3, TypeOfParts DEF IInv
<1>7. CASE RollbackFails
  <2>1. Flags'  BY <1>7, <1>a, Zenon DEF Flags, RollbackFails, ClockResult
  <2>2. Others'
    BY <1>7, <1>a, BaselineTypes, BoundsAssumption DEF Others, Results, RollbackFails, ClockResult
  <2>3. Safe'
    BY <1>7, <1>a, <1>b DEF Others, Safe, Watermark, W0, Broken, RollbackFails, ClockResult
  <2> QED  BY <2>1, <2>2, <2>3, TypeOfParts DEF IInv
<1>8. CASE RestoreFails
  <2>1. Flags'  BY <1>8, <1>a, Zenon DEF Flags, RestoreFails, RestoreCleanup, Interrupted
  <2>2. Others'
    BY <1>8, <1>a, BaselineTypes, BoundsAssumption DEF Others, Results, RestoreFails,
       RestoreCleanup, Interrupted
  <2>3. Safe'
    BY <1>8, <1>a, <1>b DEF Others, Safe, Watermark, W0, Broken, RestoreFails, RestoreCleanup,
       Interrupted
  <2> QED  BY <2>1, <2>2, <2>3, TypeOfParts DEF IInv
<1>9. CASE RestoreSignalled
  <2>1. Flags'  BY <1>9, <1>a, Zenon DEF Flags, RestoreSignalled, RestoreCleanup
  <2>2. Others'
    BY <1>9, <1>a, BaselineTypes, BoundsAssumption DEF Others, Results, RestoreSignalled,
       RestoreCleanup
  <2>3. Safe'
    BY <1>9, <1>a, <1>b DEF Others, Safe, Watermark, W0, Broken, RestoreSignalled, RestoreCleanup
  <2> QED  BY <2>1, <2>2, <2>3, TypeOfParts DEF IInv
<1>10. CASE ScriptSignalled
  <2>1. Flags'  BY <1>10, <1>a, Zenon DEF Flags, ScriptSignalled
  <2>2. Others'
    BY <1>10, <1>a, BaselineTypes, BoundsAssumption DEF Others, Results, ScriptSignalled
  <2>3. Safe'
    BY <1>10, <1>a, <1>b DEF Others, Safe, Watermark, W0, Broken, ScriptSignalled
  <2> QED  BY <2>1, <2>2, <2>3, TypeOfParts DEF IInv
<1>11. CASE KillPublication
  <2>1. Flags'  BY <1>11, <1>a, Zenon DEF Flags, KillPublication
  <2>2. Others'
    BY <1>11, <1>a, BaselineTypes, BoundsAssumption DEF Others, Results, KillPublication
  <2>3. Safe'
    BY <1>11, <1>a, <1>b DEF Others, Safe, Watermark, W0, Broken, KillPublication
  <2> QED  BY <2>1, <2>2, <2>3, TypeOfParts DEF IInv
<1>12. CASE KillRollback
  <2>1. Flags'  BY <1>12, <1>a, Zenon DEF Flags, KillRollback, Interrupted
  <2>2. Others'
    BY <1>12, <1>a, BaselineTypes, BoundsAssumption DEF Others, Results, KillRollback, Interrupted
  <2>3. Safe'
    BY <1>12, <1>a, <1>b DEF Others, Safe, Watermark, W0, Broken, KillRollback, Interrupted
  <2> QED  BY <2>1, <2>2, <2>3, TypeOfParts DEF IInv
<1> QED
  BY <1>1, <1>2, <1>3, <1>4, <1>5, <1>6, <1>7, <1>8, <1>9, <1>10, <1>11, <1>12 DEF Failure

LEMMA EnvironmentStep ==
    ASSUME IInv, CustomerWrite \/ LimitPasses \/ ClearStaleLease \/ Quiet PROVE IInv'
<1> USE DEF stateFiles, services, host, clocks, pubVars, memory, rbVars
<1>a. TypeOK /\ Safe  BY DEF IInv
<1>1. CASE CustomerWrite
  <2>0. Flags'  BY <1>1, <1>a, FlagsOfType, Zenon DEF Flags, CustomerWrite
  <2>1. Others'
    <3>1. data \in Watermark /\ acked \in 0..MaxWrites /\ data.writes = acked
      BY <1>a, OthersOfType DEF Others, Safe, NoCustomerWriteLost
    <3>2. data.writes + 1 \in 0..MaxWrites /\ acked + 1 \in 0..MaxWrites
      BY <1>1, <3>1, BoundsAssumption DEF CustomerWrite
    <3>3. (data.forward \/ app = "candidate") \in BOOLEAN  BY Zenon
    <3>4. data' = [data EXCEPT !.writes = data.writes + 1, !.forward = (data.forward \/ app = "candidate")]
      BY <1>1 DEF CustomerWrite
    <3>5. data' \in Watermark  BY <3>1, <3>2, <3>3, <3>4 DEF Watermark
    <3> QED  BY <1>1, <1>a, <3>2, <3>5, OthersOfType DEF Others, CustomerWrite
  <2>2. Safe'
    <3>1. data \in Watermark /\ acked \in 0..MaxWrites  BY <1>a, OthersOfType DEF Others
    <3>2. ~fence /\ proxy  BY <1>1 DEF CustomerWrite, Public
    <3>3. /\ data'.writes = data.writes + 1 /\ data'.partial = data.partial
          /\ data'.forward <=> (data.forward \/ app = "candidate")
      BY <1>1, <3>1 DEF CustomerWrite, Watermark
    <3>4. rb \notin BehindFence  BY <1>a, <3>2 DEF Safe, FenceHolds
    <3>5. BaselineBehindFence' /\ FenceHolds'
      BY <1>1, <3>4 DEF CustomerWrite, BaselineBehindFence, FenceHolds, BehindFence, Untouched,
         Restoring
    <3>6. NoCustomerWriteLost' /\ PartialFenced'
      BY <1>1, <1>a, <3>3 DEF CustomerWrite, Safe, NoCustomerWriteLost, PartialFenced
    <3>7. ForwardNeedsCandidate' /\ SwitchNeedsVerdict' /\ StateNeedsLease'
      BY <1>1, <1>a, <3>3
         DEF CustomerWrite, Safe, ForwardNeedsCandidate, SwitchNeedsVerdict, StateNeedsLease
    <3>8. FrozenStaysClosed'  BY <1>1, <1>a, <3>2 DEF CustomerWrite, Safe, FrozenStaysClosed
    <3> QED  BY <3>5, <3>6, <3>7, <3>8 DEF Safe
  <2> QED  BY <2>0, <2>1, <2>2, TypeOfParts DEF IInv
<1>2. CASE LimitPasses
  <2>0. Flags'  BY <1>2, <1>a, FlagsOfType, Zenon DEF Flags, LimitPasses
  <2>1. Others'  BY <1>2, <1>a, OthersOfType DEF Others, LimitPasses
  <2>2. Safe'
    BY <1>2, <1>a DEF LimitPasses, Safe, NoCustomerWriteLost, StateNeedsLease, FrozenStaysClosed,
       FenceHolds, BaselineBehindFence, PartialFenced, SwitchNeedsVerdict, ForwardNeedsCandidate
  <2> QED  BY <2>0, <2>1, <2>2, TypeOfParts DEF IInv
<1>3. CASE ClearStaleLease
  <2>0. Flags'  BY <1>3, <1>a, FlagsOfType, Zenon DEF Flags, ClearStaleLease
  <2>1. Others'  BY <1>3, <1>a, OthersOfType DEF Others, ClearStaleLease
  <2>2. Safe'
    BY <1>3, <1>a DEF ClearStaleLease, Safe, NoCustomerWriteLost, StateNeedsLease,
       FrozenStaysClosed,
       FenceHolds, BaselineBehindFence, PartialFenced, SwitchNeedsVerdict, ForwardNeedsCandidate
  <2> QED  BY <2>0, <2>1, <2>2, TypeOfParts DEF IInv
<1>4. CASE Quiet  BY <1>4, StutterStep DEF Quiet
<1> QED  BY <1>1, <1>2, <1>3, <1>4

-----------------------------------------------------------------------------
(* The theorems. *)

\* The inductive invariant holds in every reachable state.
THEOREM Invariance == Spec => []IInv
<1>1. Init => IInv
  <2> SUFFICES ASSUME Init PROVE IInv  OBVIOUS
  <2>1. Flags  BY Zenon DEF Init, Flags
  <2>2. Others
    <3>1. Stages[1] = "prepared" /\ 1 \in DOMAIN Stages  BY DEF Stages
    <3>2. "prepared" \in {Stages[i] : i \in DOMAIN Stages}  BY <3>1
    <3> QED  BY <3>2, BaselineTypes, BoundsAssumption DEF Init, Others, Unleased, Results
  <2>3. TypeOK  BY <2>1, <2>2 DEF Flags, Others, TypeOK
  <2>4. Safe
    BY DEF Init, Safe, NoCustomerWriteLost, StateNeedsLease, FrozenStaysClosed,
       FenceHolds, BaselineBehindFence, PartialFenced, SwitchNeedsVerdict, ForwardNeedsCandidate,
       BehindFence, Untouched, Restoring, Switching, W0
  <2> QED  BY <2>3, <2>4 DEF IInv
<1>2. IInv /\ [Next]_vars => IInv'
  BY PublicationStep, RollbackStep, RestoreStep, EngineStep, FailureStep, EnvironmentStep,
     StutterStep
     DEF Next
<1> QED  BY <1>1, <1>2, PTL DEF Spec

\* The host, the state files and the scripts keep their types; in particular the
\* watermark never outgrows the writes that were acknowledged.
THEOREM TypeCorrect == Spec => []TypeOK
<1>1. IInv => TypeOK  BY DEF IInv
<1> QED  BY <1>1, Invariance, PTL

\* No rollback discards a customer's write, whatever fails, is killed, signalled
\* and retried, however often (rollback-run.sh, choose_rollback_path, the fence).
THEOREM WritesSurvive == Spec => []NoCustomerWriteLost
<1>1. IInv => NoCustomerWriteLost  BY DEF IInv, Safe
<1> QED  BY <1>1, Invariance, PTL

\* A database that pg_restore left half done is never served to customers
\* (publication fence, verify-pr2a-result).
THEOREM TornDatabaseFenced == Spec => []PartialNeverPublic
<1>1. IInv => PartialNeverPublic  BY DEF IInv, Safe, PartialFenced, PartialNeverPublic, Public
<1> QED  BY <1>1, Invariance, PTL

\* An incompatible old release is never put in front of customers on data that the
\* candidate wrote (NEEDS_ROLLBACK_DECISION).
THEOREM OldAppKeptAway == Spec => []OldAppNeverOnForwardData
<1>1. IInv => OldAppNeverOnForwardData
  BY DEF IInv, Safe, ForwardNeedsCandidate, OldAppNeverOnForwardData
<1> QED  BY <1>1, Invariance, PTL
=============================================================================
