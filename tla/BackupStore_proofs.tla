------------------------- MODULE BackupStore_proofs -------------------------
(***************************************************************************)
(* Proofs about BackupStore for any files, contents, recovery points and   *)
(* faults.  Types and the dump of a point need no more; the rest is about  *)
(* a rotation that runs while nobody holds the lease (~Overlap) and images *)
(* with different bytes (~Residue), without which it does not hold.        *)
(***************************************************************************)
EXTENDS BackupStore, FiniteSetTheorems, NaturalsInduction, WellFoundedInduction, TLAPS

-----------------------------------------------------------------------------
(* The inductive invariant. *)

Phases == {"idle", "stop", "quiesce", "inventory", "next", "reuse", "stage", "age",
           "meta", "record", "dump", "dumped", "complete", "restart", "cleanup"}

\* The builder works on one file; it works on a point that has no manifest yet.
Filing   == {"reuse", "stage", "age", "meta", "record"}
Building == {"inventory", "next", "dump", "dumped"} \cup Filing

Stored   == Cipher \cup {Absent}
Manifest == [files : [Files -> Digests \cup {Absent}], cipher : [Digests -> Stored],
             rows : SUBSET Pdfs]

\* The types: Boolean variables, and all the others.
Flags ==
    /\ app \in BOOLEAN /\ alerted \in BOOLEAN /\ needs \in BOOLEAN
    /\ saw \in [age : BOOLEAN, meta : BOOLEAN]

Types ==
    /\ source \in [Files -> Digests \cup {Absent}] /\ rows \subseteq Pdfs
    /\ lease \in {"none", "job", "restore", "rotate"}
    /\ age \in [Digests -> Stored] /\ meta \in [Digests -> Stored]
    /\ staged \in [Digests -> Stored] /\ got \in [Digests -> Stored]
    /\ payload \subseteq Points /\ manifests \subseteq Points /\ complete \subseteq Points
    /\ verified \subseteq Points /\ deleting \subseteq Points /\ expired \subseteq Points
    /\ point \in [Points -> Manifest]
    /\ kind \in {"none", "precopy", "finalize"} /\ phase \in Phases
    /\ inv \in [Files -> Digests \cup {Absent}] /\ todo \subseteq Files
    /\ dumped \subseteq Pdfs
    /\ started \in 0..MaxPoints /\ restoring \in 0..MaxPoints
    /\ rot \in {"idle", "read", "apply"}
    /\ read \in [complete : SUBSET Points, journaled : SUBSET Points,
                 finalizing : SUBSET Points]
    /\ plan \subseteq Targets
    /\ \A t \in plan : t.what \in {"age", "meta"} <=> t.digest # Absent
    /\ faults \in Nat

\* The lease has one owner, and what a run of backup-run.sh has begun is there.
Owners ==
    /\ lease = "job" <=> phase # "idle"
    /\ lease = "restore" <=> restoring # 0
    /\ lease = "rotate" <=> ~Overlap /\ rot # "idle"
    /\ phase = "idle" <=> kind = "none"
    /\ phase \in {"stop", "quiesce", "dump", "dumped", "complete", "restart"} =>
          kind = "finalize"
    /\ needs => kind = "finalize"
    /\ kind = "finalize" /\ phase \in Building \cup {"complete", "restart"} => started # 0
    /\ kind = "finalize" /\ phase \in {"stop", "quiesce"} => started < MaxPoints
    /\ \A f \in todo : inv[f] # Absent
    /\ phase \in Filing => todo # {}
    /\ phase = "idle" => inv = NoFiles /\ todo = {}

\* Rows refer to files.  While the application stays stopped, so do they to the
\* inventory and to the dump.
PointsBacked ==
    /\ \A f \in rows : source[f] # Absent
    /\ kind = "finalize" /\ phase \in Building \ {"inventory"} /\ ~app =>
          \A f \in rows : inv[f] # Absent
    /\ phase = "dumped" /\ ~app => \A f \in dumped : inv[f] # Absent
    /\ \A b \in Points : \A f \in point[b].rows : point[b].files[f] # Absent

\* The points that can have a manifest, a marker or a journal.
Known == IF kind = "finalize" /\ phase \in Building THEN 1..(started - 1) ELSE 1..started

KnownPoints == manifests \cup complete \cup verified \cup deleting \subseteq Known

\* No two files have the same content, in the volume or in a manifest.
Injective(files) == \A f, g \in Files : files[f] = files[g] => f = g \/ files[f] = Absent

NoTwins == Injective(source) /\ Injective(inv) /\ \A b \in Points : ValidManifest(b)

\* What the builder has recorded is what the store holds.
FilesStored ==
    /\ \A f \in Files \ todo :
          inv[f] # Absent => got[inv[f]] # Absent /\ age[inv[f]] = got[inv[f]]
    /\ phase \in {"age", "meta", "record"} => staged[Digest] # Absent
    /\ phase \in {"meta", "record"} => age[Digest] = staged[Digest]
    /\ phase \in {"dump", "dumped", "complete"} => todo = {}

\* Before the completion marker the dump and the manifest of the point are stored.
PointSigned ==
    /\ phase \in {"dumped", "complete"} => started \in payload
    /\ phase = "complete" =>
          /\ started \in manifests
          /\ point[started] = [files |-> inv, cipher |-> got, rows |-> dumped]
    /\ \A b \in Points : \A d \in Keys(b) : point[b].cipher[d] # Absent

\* The points that must be restorable: completed ones without a journal, the
\* newest verified one and the one that a restore has passed.
KeptRestorable ==
    /\ CompletedIsRestorable
    /\ verified # {} => Restorable(Protected)
    /\ restoring # 0 => Restorable(restoring)

\* Nothing has changed since rotation read the markers and journals.
ReadCurrent ==
    rot = "read" => read = [complete |-> complete, journaled |-> deleting \cap manifests,
                            finalizing |-> deleting \ manifests]

\* The plan still holds the removal of a marker of t's point; the deletion of b is
\* journaled, or will be before anything is deleted.
Waits(t, what) == Target(t.round, t.point, what) \in plan
Journaled(b)   == b \in deleting \/ Target(0, b, "journal") \in plan

\* What is left of the plan spares the protected point and every object that a
\* point without a journal refers to, and takes the markers of a point before its
\* manifest and its journal.
PlanSafe ==
    /\ rot # "apply" => plan = {}
    /\ \A t \in plan :
        /\ t.what = "journal" <=> t.round = 0
        /\ t.what = "journal" => t.point \in manifests
        /\ Journaled(t.point)
        /\ verified # {} => t.point # Protected
        /\ t.what \notin {"journal", "deleting"} => t.point \in manifests
        /\ t.what \in {"manifest", "deleting"} =>
              /\ t.point \in complete => Waits(t, "complete")
              /\ t.point \in verified => Waits(t, "verified")
        /\ t.what = "age" =>
              /\ \A b \in complete : t.digest \in Keys(b) => Journaled(b)
              /\ verified # {} => t.digest \notin Keys(Protected)
        /\ \A u \in plan : t.point = u.point /\ 0 \notin {t.round, u.round} => t.round = u.round

\* What holds however rotation is run, and what needs it to run alone.
Base  == Flags /\ Types /\ Owners /\ PointsBacked
Sound == /\ KnownPoints /\ NoTwins /\ FilesStored /\ PointSigned /\ KeptRestorable
         /\ ReadCurrent /\ PlanSafe /\ RotationCanResume


-----------------------------------------------------------------------------
(* Least and greatest elements. *)

Less == {p \in Nat \X Nat : p[1] < p[2]}

\* A set of natural numbers has a least element, and Min finds it.
LEMMA MinIsLeast ==
    ASSUME NEW S \in SUBSET Nat, S # {}
    PROVE  Min(S) \in S /\ \A y \in S : Min(S) <= y
<1>1. OpToRel(<, Nat) = Less  BY Zenon DEF OpToRel, Less
<1>2. IsWellFoundedOn(Less, Nat)  BY <1>1, NatLessThanWellFounded, Zenon
<1>3. PICK x \in S : \A y \in S : ~ (<<y, x>> \in Less)  BY <1>2, WFMin, Zenon
<1>4. \A y \in S : y < x => <<y, x>> \in Less  BY DEF Less
<1>5. \A y \in S : ~(y < x)  BY <1>3, <1>4
<1>6. \A y \in S : x <= y  BY <1>5
<1> QED  BY <1>6 DEF Min

\* A set of numbers with an upper bound has a greatest element, and Max finds it.
LEMMA MaxIsGreatest ==
    ASSUME NEW n \in Nat, NEW S \in SUBSET (1..n), S # {}
    PROVE  Max(S) \in S /\ \A y \in S : y <= Max(S)
<1> DEFINE U == {u \in Nat : \A y \in S : y <= u}
<1>1. U \in SUBSET Nat /\ n \in U  OBVIOUS
<1>2. Min(U) \in U /\ \A y \in U : Min(U) <= y  BY <1>1, MinIsLeast
<1> DEFINE m == Min(U)
<1>3. m \in Nat /\ \A y \in S : y <= m  BY <1>2
<1> HIDE DEF m
<1>4. m \in S
  <2> SUFFICES ASSUME m \notin S PROVE FALSE  OBVIOUS
  <2>1. \A y \in S : y \in Nat /\ y >= 1 /\ y < m  BY <1>3
  <2>2. PICK y \in S : y \in Nat /\ y >= 1 /\ y < m  BY <2>1
  <2>3. m - 1 \in Nat  BY <1>3, <2>2
  <2>4. \A z \in S : z <= m - 1  BY <1>3, <2>1
  <2>5. m <= m - 1  BY <1>2, <2>3, <2>4 DEF m
  <2> QED  BY <1>3, <2>5
<1> QED  BY <1>3, <1>4 DEF Max

\* There are more ciphertexts than can be in use under one digest.
LEMMA FreshExists ==
    ASSUME Types, NEW d \in Digests
    PROVE  Fresh(d) \in Cipher
<1>1. {c \in Cipher : ~InUse(c, d)} # {}
  <2> SUFFICES ASSUME \A c \in Cipher : InUse(c, d) PROVE FALSE  OBVIOUS
  <2> DEFINE owner(c) == CHOOSE b \in manifests : point[b].cipher[d] = c
             use == [c \in Cipher |-> IF c = age[d] THEN 1 ELSE IF c = meta[d] THEN 2
                                      ELSE IF c = staged[d] THEN 3 ELSE owner(c) + 3]
  <2>1. \A c \in Cipher : c \notin {age[d], meta[d], staged[d]} =>
            owner(c) \in manifests /\ point[owner(c)].cipher[d] = c
    BY DEF InUse
  <2> HIDE DEF owner
  <2>2. /\ MaxPoints \in Nat
        /\ \A c \in Cipher : c \notin {age[d], meta[d], staged[d]} =>
               owner(c) \in Nat /\ 1 <= owner(c) /\ owner(c) <= MaxPoints
    <3>1. \A b \in manifests : b \in Nat /\ 1 <= b /\ b <= MaxPoints
      BY BoundsAssumption DEF Types, Points
    <3> QED  BY <2>1, <3>1, BoundsAssumption
  <2>3. use \in [Cipher -> 1..(MaxPoints + 3)]
    <3>1. ASSUME NEW c \in Cipher PROVE use[c] \in 1..(MaxPoints + 3)
      <4>1. CASE c \in {age[d], meta[d], staged[d]}
        <5>1. use[c] \in {1, 2, 3}  BY <4>1
        <5> QED  BY <2>2, <5>1
      <4>2. CASE c \notin {age[d], meta[d], staged[d]}
        <5>1. use[c] = owner(c) + 3  BY <4>2
        <5> QED  BY <2>2, <4>2, <5>1
      <4> QED  BY <4>1, <4>2
    <3> QED  BY <3>1
  <2>4. \A x, y \in Cipher : use[x] = use[y] => x = y
    <3> SUFFICES ASSUME NEW x \in Cipher, NEW y \in Cipher, use[x] = use[y] PROVE x = y  OBVIOUS
    <3>1. CASE {x, y} \cap {age[d], meta[d], staged[d]} = {}
      <4>1. use[x] = owner(x) + 3 /\ use[y] = owner(y) + 3  BY <3>1
      <4>2. owner(x) = owner(y)  BY <2>1, <2>2, <3>1, <4>1
      <4> QED  BY <2>1, <3>1, <4>2
    <3>2. CASE {x, y} \cap {age[d], meta[d], staged[d]} # {}
      <4>1. ASSUME NEW c \in Cipher, c \notin {age[d], meta[d], staged[d]}
            PROVE  use[c] \notin {1, 2, 3}
        <5>1. use[c] = owner(c) + 3  BY <4>1
        <5> QED  BY <2>2, <4>1, <5>1
      <4>2. \A c \in Cipher : c \in {age[d], meta[d], staged[d]} => use[c] \in {1, 2, 3}
        OBVIOUS
      <4>3. {x, y} \subseteq {age[d], meta[d], staged[d]}  BY <3>2, <4>1, <4>2
      <4> QED  BY <4>3
    <3> QED  BY <3>1, <3>2
  <2>5. /\ IsFiniteSet(Cipher) /\ Cardinality(Cipher) = MaxPoints + 4
        /\ IsFiniteSet(1..(MaxPoints + 3)) /\ Cardinality(1..(MaxPoints + 3)) = MaxPoints + 3
    <3>1. \A n \in Nat : IsFiniteSet(1..n) /\ Cardinality(1..n) = IF 1 > n THEN 0 ELSE n - 1 + 1
      BY FS_Interval
    <3> QED  BY <2>2, <3>1 DEF Cipher
  <2>6. Cardinality(1..(MaxPoints + 3)) < Cardinality(Cipher)  BY <2>2, <2>5
  <2> HIDE DEF use
  <2>7. \E x, y \in Cipher : x # y /\ use[x] = use[y]
    BY <2>3, <2>5, <2>6, FS_PigeonHole, Zenon
  <2> QED  BY <2>4, <2>7
<1>2. {c \in Cipher : ~InUse(c, d)} \in SUBSET Nat  BY BoundsAssumption DEF Cipher
<1> QED  BY <1>1, <1>2, MinIsLeast DEF Fresh

\* The builder looks at a file of the inventory.
LEMMA ItemType ==
    ASSUME Types, Owners, todo # {}
    PROVE  Item \in todo /\ Item \in Files /\ Digest \in Digests
<1>1. todo \in SUBSET Nat  BY FilesAssumption DEF Types
<1>2. Item \in todo  BY <1>1, MinIsLeast DEF Item
<1> QED  BY <1>2 DEF Types, Owners, Digest

\* Where a target can be, given what it is.
WellFormed(t) == t.what \in {"age", "meta"} <=> t.digest # Absent

\* Every target of a point's deletion is a target, of that point, and takes no
\* object that a kept point refers to.
LEMMA DeleteTargetsType ==
    ASSUME Types, NEW round \in 0..3, NEW b \in Points, NEW referenced,
           NEW t \in DeleteTargets(round, b, referenced)
    PROVE  /\ t \in Targets /\ WellFormed(t) /\ t.round = round /\ t.point = b
           /\ t.what \notin {"journal"}
           /\ t.what = "verified" => b \in verified
           /\ t.what \in {"age", "meta"} => t.digest \in Keys(b) \ referenced
<1>1. Keys(b) \subseteq Digests  BY DEF Types, Keys, Manifest
<1>2. 0 \notin Digests  BY DigestsAssumption
<1>3. CASE \E what \in {"complete", "payload", "manifest", "deleting"} :
              t = Target(round, b, what)
  BY <1>3 DEF Target, Targets, WellFormed, Absent
<1>4. CASE b \in verified /\ t = Target(round, b, "verified")
  BY <1>4 DEF Target, Targets, WellFormed, Absent
<1>5. CASE t \in [round : {round}, point : {b}, what : {"age", "meta"},
                 digest : Keys(b) \ referenced]
  BY <1>1, <1>2, <1>5 DEF Targets, WellFormed, Absent
<1> QED  BY <1>3, <1>4, <1>5 DEF DeleteTargets

\* A planned target belongs to one of four rounds.
LEMMA PlannedTargets ==
    ASSUME NEW t \in Planned
    PROVE  \/ \E b \in Doomed : t = Target(0, b, "journal")
           \/ \E b \in read.journaled : t \in DeleteTargets(1, b, Referenced(Live \ Doomed))
           \/ \E b \in Doomed : t \in DeleteTargets(2, b, Referenced(Live \ Doomed))
           \/ \E b \in read.finalizing : t = Target(3, b, "deleting")
  BY DEF Planned

\* The Boolean variables keep their type.
LEMMA FlagsNext ==
    ASSUME Flags, Types, Owners, [Next]_vars
    PROVE  Flags'
<1> USE DEF site, host, cas, objects, markers, job, rotator, Fault, JobStep
<1>0. Flags /\ Types /\ Owners  OBVIOUS
<1>1. CASE StartPrecopy \/ StartFinalize \/ StopApp \/ Quiesce
  BY <1>0, <1>1
  DEF Flags, StartPrecopy, StartFinalize, StopApp, Quiesce, Quiescent
<1>2. CASE MonitorKills \/ JobFails \/ RestartApp
  BY <1>0, <1>2
  DEF Flags, MonitorKills, JobFails, RestartApp, RestartsApp
<1>3. CASE Cleanup
  BY <1>0, <1>3
  DEF Flags, Cleanup, RestartsApp, NoFiles, NoObjects, NotSeen
<1>4. CASE Inventory
  BY <1>0, <1>4
  DEF Flags, Inventory
<1>5. CASE Probe
  BY <1>0, <1>5
  DEF Flags, Probe, Undisturbed, Quiescent
<1>6. CASE Disturbed \/ FilesPublished
  BY <1>0, <1>6
  DEF Flags, Disturbed, Undisturbed, Quiescent, FilesPublished
<1>7. CASE Reuse
  <2>1. saw' \in {saw, NotSeen} /\ UNCHANGED <<host, needs>>  BY <1>7 DEF Reuse, Recorded
  <2>2. NotSeen \in [age : BOOLEAN, meta : BOOLEAN]  BY Zenon DEF NotSeen
  <2>3. saw' \in [age : BOOLEAN, meta : BOOLEAN]  BY <1>0, <2>1, <2>2, Zenon DEF Flags
  <2> QED  BY <1>0, <2>1, <2>3, Zenon DEF Flags, host
<1>8. CASE Stage
  BY <1>0, <1>8
  DEF Flags, Stage
<1>9. CASE UploadAge
  BY <1>0, <1>9
  DEF Flags, UploadAge, Uploads
<1>10. CASE UploadMeta
  BY <1>0, <1>10
  DEF Flags, UploadMeta, Uploads
<1>11. CASE RecordFile
  BY <1>0, <1>11
  DEF Flags, RecordFile, Recorded, NotSeen
<1>12. CASE Dump
  BY <1>0, <1>12
  DEF Flags, Dump
<1>13. CASE SignManifest
  BY <1>0, <1>13
  DEF Flags, SignManifest, Undisturbed, Quiescent
<1>14. CASE Complete
  BY <1>0, <1>14
  DEF Flags, Complete
<1>15. ASSUME NEW b \in Points, Preflight(b) PROVE Flags'
  BY <1>0, <1>15
  DEF Flags, Preflight, Restorable
<1>16. CASE ExternalReady
  BY <1>0, <1>16
  DEF Flags, ExternalReady
<1>17. CASE RestoreFails
  BY <1>0, <1>17
  DEF Flags, RestoreFails
<1>18. CASE RotateReads \/ RotateDecides \/ RotateEnds
  BY <1>0, <1>18
  DEF Flags, RotateReads, RotatorOwns, RotateDecides, NotRead, RotateEnds
<1>19. CASE RotateApplies
  BY <1>0, <1>19
  DEF Flags, RotateApplies, Handles, Journals, Without, Erased
<1>20. ASSUME NEW f \in Files, NEW d \in Digests, AppWrites(f, d) PROVE Flags'
  BY <1>0, <1>20
  DEF Flags, AppWrites
<1>21. ASSUME NEW f \in Files, AppCommits(f) PROVE Flags'
  BY <1>0, <1>21
  DEF Flags, AppCommits
<1>22. CASE AppStartsUnasked \/ OperatorStarts
  BY <1>0, <1>22
  DEF Flags, AppStartsUnasked, OperatorStarts
<1>23. ASSUME NEW b \in Points, Expire(b) PROVE Flags'
  BY <1>0, <1>23
  DEF Flags, Expire
<1>24. CASE UNCHANGED vars
  BY <1>0, <1>24
  DEF Flags, vars
<1> QED
  BY <1>1, <1>2, <1>3, <1>4, <1>5, <1>6, <1>7, <1>8, <1>9, <1>10, <1>11, <1>12, <1>13, <1>14,
     <1>15, <1>16, <1>17, <1>18, <1>19, <1>20, <1>21, <1>22, <1>23, <1>24
  DEF Next, Orchestrator, Builder, Restorer, Rotator, Environment

\* Everything else keeps its type; a fresh ciphertext is always found.
LEMMA TypesNext ==
    ASSUME Flags, Types, Owners, [Next]_vars
    PROVE  Types'
<1> USE DEF site, host, cas, objects, markers, job, rotator, Fault, JobStep
<1>0. Flags /\ Types /\ Owners  OBVIOUS
<1>a. todo # {} => Item \in todo /\ Item \in Files /\ Digest \in Digests  BY ItemType
<1>b. phase \in Filing => todo # {}  BY DEF Owners
<1>1. CASE StartPrecopy \/ StartFinalize \/ StopApp
  BY <1>0, <1>1, BoundsAssumption
  DEF Types, Phases, StartPrecopy, StartFinalize, StopApp
<1>2. CASE Quiesce
  BY <1>0, <1>2, BoundsAssumption DEF Types, Phases, Owners, Quiesce
<1>3. CASE MonitorKills \/ JobFails \/ RestartApp
  BY <1>0, <1>3, BoundsAssumption
  DEF Types, Phases, MonitorKills, JobFails, RestartApp, RestartsApp
<1>4. CASE Cleanup
  <2>1. NoFiles \in [Files -> Digests \cup {Absent}] /\ NoObjects \in [Digests -> Stored]
    BY DEF NoFiles, NoObjects, Stored
  <2>2. faults' = faults \/ Fault  BY <1>4 DEF Cleanup
  <2>3. faults' \in Nat  BY <1>0, <2>2 DEF Types
  <2> QED  BY <1>0, <1>4, <2>1, <2>3 DEF Types, Phases, Cleanup
<1>5. CASE Inventory
  BY <1>0, <1>5, BoundsAssumption
  DEF Types, Phases, Inventory
<1>6. CASE Probe \/ Disturbed \/ FilesPublished
  BY <1>0, <1>6, BoundsAssumption
  DEF Types, Phases, Probe, Undisturbed, Quiescent, Disturbed, FilesPublished
<1>7. CASE Reuse
  <2>1. Digest \in Digests /\ meta[Digest] \in Stored /\ Absent \in Stored
    BY <1>0, <1>a, <1>b, <1>7 DEF Types, Reuse, Filing, Stored
  <2>2. got' \in [Digests -> Stored] /\ staged' \in [Digests -> Stored] /\ todo' \subseteq Files
    BY <1>0, <1>7, <2>1 DEF Types, Reuse, Recorded
  <2> QED  BY <1>0, <1>7, <2>2 DEF Types, Phases, Reuse, Recorded
<1>8. CASE Stage
  <2>1. Digest \in Digests /\ Fresh(Digest) \in Stored
    BY <1>0, <1>a, <1>b, <1>8, FreshExists DEF Stage, Filing, Stored
  <2>2. staged' \in [Digests -> Stored]
    BY <1>0, <1>8, <2>1 DEF Types, Stage
  <2> QED  BY <1>0, <1>8, <2>2 DEF Types, Phases, Stage
<1>9. CASE UploadAge
  <2>1. Digest \in Digests /\ staged[Digest] \in Stored
    BY <1>0, <1>a, <1>b, <1>9 DEF Types, UploadAge, Filing
  <2> QED  BY <1>0, <1>9, <2>1 DEF Types, Phases, UploadAge, Uploads
<1>10. CASE UploadMeta
  <2>1. Digest \in Digests /\ staged[Digest] \in Stored
    BY <1>0, <1>a, <1>b, <1>10 DEF Types, UploadMeta, Filing
  <2> QED  BY <1>0, <1>10, <2>1 DEF Types, Phases, UploadMeta, Uploads
<1>11. CASE RecordFile
  <2>1. Digest \in Digests /\ staged[Digest] \in Stored /\ Absent \in Stored
    BY <1>0, <1>a, <1>b, <1>11 DEF Types, RecordFile, Filing, Stored
  <2>2. got' \in [Digests -> Stored] /\ staged' \in [Digests -> Stored] /\ todo' \subseteq Files
    BY <1>0, <1>11, <2>1 DEF Types, RecordFile, Recorded
  <2> QED  BY <1>0, <1>11, <2>2 DEF Types, Phases, RecordFile, Recorded
<1>12. CASE Dump
  <2>1. started \in Points
    BY <1>0, <1>12, BoundsAssumption DEF Types, Owners, Building, Dump, Points
  <2> QED  BY <1>0, <1>12, <2>1 DEF Types, Phases, Dump
<1>13. CASE SignManifest
  <2>1. started \in Points
    BY <1>0, <1>13, BoundsAssumption DEF Types, Owners, Building, SignManifest, Points
  <2>2. [files |-> inv, cipher |-> got, rows |-> dumped] \in Manifest
    BY <1>0 DEF Types, Manifest
  <2> QED  BY <1>0, <1>13, <2>1, <2>2 DEF Types, Phases, SignManifest
<1>14. CASE Complete
  <2>1. started \in Points
    BY <1>0, <1>14, BoundsAssumption DEF Types, Owners, Complete, Points
  <2> QED  BY <1>0, <1>14, <2>1 DEF Types, Phases, Complete
<1>15. ASSUME NEW b \in Points, Preflight(b) PROVE Types'
  BY <1>0, <1>15, BoundsAssumption DEF Types, Points, Preflight
<1>16. CASE ExternalReady
  <2>1. restoring \in Points
    BY <1>0, <1>16, BoundsAssumption DEF Types, ExternalReady, Points
  <2> QED  BY <1>0, <1>16, <2>1, BoundsAssumption DEF Types, ExternalReady
<1>17. CASE RestoreFails
  BY <1>0, <1>17, BoundsAssumption
  DEF Types, Phases, RestoreFails
<1>18. CASE RotateReads \/ RotateEnds
  BY <1>0, <1>18, BoundsAssumption
  DEF Types, Phases, RotateReads, RotatorOwns, RotateEnds
<1>19. CASE RotateDecides
  <2>1. plan' \subseteq Targets /\ \A t \in plan' : WellFormed(t)
    <3>1. CASE VerifiedBound
      <4>1. /\ read.complete \subseteq Points /\ Doomed \subseteq Points
            /\ read.journaled \subseteq Points /\ read.finalizing \subseteq Points
        BY <1>0 DEF Types, Live, Doomed
      <4>2. \A b \in Points : \A i \in {0, 3}, what \in {"journal", "deleting"} :
                Target(i, b, what) \in Targets /\ WellFormed(Target(i, b, what))
        BY DEF Target, Targets, WellFormed, Absent
      <4>3. \A b \in Points : \A i \in {1, 2} :
                \A t \in DeleteTargets(i, b, Referenced(Live \ Doomed)) :
                    t \in Targets /\ WellFormed(t)
        BY <1>0, DeleteTargetsType
      <4>4. ASSUME NEW t \in Planned PROVE t \in Targets /\ WellFormed(t)
        BY <4>1, <4>2, <4>3, PlannedTargets
      <4> QED  BY <1>19, <3>1, <4>4 DEF RotateDecides
    <3>2. CASE ~VerifiedBound
      BY <1>0, <1>19, <3>2 DEF RotateDecides, Types, WellFormed
    <3> QED  BY <3>1, <3>2
  <2>2. rot' \in {"idle", "apply"} /\ lease' \in {lease, "none"}
    BY <1>19 DEF RotateDecides, RotatorOwns
  <2>3. NotRead \in [complete : SUBSET Points, journaled : SUBSET Points,
                    finalizing : SUBSET Points]
    BY DEF NotRead
  <2> QED  BY <1>0, <1>19, <2>1, <2>2, <2>3 DEF Types, RotateDecides, WellFormed
<1>20. CASE RotateApplies
  <2>1. PICK t \in plan : Handles(t)  BY <1>20 DEF RotateApplies
  <2>2. /\ t.point \in Points
        /\ t.what \in {"age", "meta"} => t.digest \in Digests
    BY <1>0, <2>1 DEF Types, Targets
  <2>3. /\ payload' \subseteq Points /\ manifests' \subseteq Points /\ complete' \subseteq Points
        /\ verified' \subseteq Points /\ deleting' \subseteq Points
    BY <1>0, <2>1, <2>2 DEF Types, Handles, Without, Journals
  <2>4. NoPoint \in Manifest  BY DEF NoPoint, Manifest, NoFiles, NoObjects, Stored
  <2>5. point' \in [Points -> Manifest]  BY <1>0, <2>1, <2>2, <2>4 DEF Types, Handles
  <2>6. Absent \in Stored  BY DEF Stored
  <2>7. age' \in [Digests -> Stored] /\ meta' \in [Digests -> Stored]
    BY <1>0, <2>1, <2>2, <2>6 DEF Types, Handles, Erased
  <2>8. plan' \subseteq Targets /\ \A u \in plan' : WellFormed(u)
    BY <1>0, <2>1 DEF Types, Handles, WellFormed
  <2> QED  BY <1>0, <1>20, <2>3, <2>5, <2>7, <2>8 DEF Types, RotateApplies, WellFormed
<1>21. ASSUME NEW f \in Files, NEW d \in Digests, AppWrites(f, d) PROVE Types'
  BY <1>0, <1>21, BoundsAssumption
  DEF Types, Phases, AppWrites
<1>22. ASSUME NEW f \in Files, AppCommits(f) PROVE Types'
  BY <1>0, <1>22, BoundsAssumption
  DEF Types, Phases, AppCommits
<1>23. CASE AppStartsUnasked \/ OperatorStarts
  BY <1>0, <1>23, BoundsAssumption
  DEF Types, Phases, AppStartsUnasked, OperatorStarts
<1>24. ASSUME NEW b \in Points, Expire(b) PROVE Types'
  BY <1>0, <1>24, BoundsAssumption
  DEF Types, Phases, Expire
<1>25. CASE UNCHANGED vars
  BY <1>0, <1>25
  DEF Types, Phases, vars
<1> QED
  BY <1>1, <1>2, <1>3, <1>4, <1>5, <1>6, <1>7, <1>8, <1>9, <1>10, <1>11, <1>12, <1>13, <1>14,
     <1>15, <1>16, <1>17, <1>18, <1>19, <1>20, <1>21, <1>22, <1>23, <1>24, <1>25
  DEF Next, Orchestrator, Builder, Restorer, Rotator, Environment

\* The lease goes from one owner to the next, through nobody.
LEMMA OwnersNext ==
    ASSUME Flags, Types, Owners, [Next]_vars
    PROVE  Owners'
<1> USE DEF site, host, cas, objects, markers, job, rotator, Fault, JobStep
<1>0. Flags /\ Types /\ Owners  OBVIOUS
<1>a. todo # {} => Item \in todo /\ Item \in Files /\ Digest \in Digests  BY ItemType
<1>b. phase \in Filing => todo # {}  BY DEF Owners
<1>1. CASE StartPrecopy \/ StartFinalize \/ StopApp \/ Quiesce
  BY <1>0, <1>a, <1>1, BoundsAssumption, FlagsAssumption
  DEF Types, Phases, Owners, Building, Filing, StartPrecopy, StartFinalize, StopApp, Quiesce,
      Quiescent
<1>2. CASE MonitorKills \/ JobFails \/ RestartApp
  BY <1>0, <1>a, <1>2, BoundsAssumption, FlagsAssumption
  DEF Types, Phases, Owners, Building, Filing, MonitorKills, JobFails, RestartApp, RestartsApp
<1>3. CASE Cleanup
  BY <1>0, <1>a, <1>3, BoundsAssumption, FlagsAssumption
  DEF Types, Phases, Owners, Building, Filing, Cleanup, RestartsApp, NoFiles, NoObjects,
      NotSeen
<1>4. CASE Inventory
  BY <1>0, <1>a, <1>4, BoundsAssumption, FlagsAssumption
  DEF Types, Phases, Owners, Building, Filing, Inventory
<1>5. CASE Probe \/ Disturbed \/ FilesPublished
  BY <1>0, <1>a, <1>5, BoundsAssumption, FlagsAssumption
  DEF Types, Phases, Owners, Building, Filing, Probe, Undisturbed, Quiescent, Disturbed,
      FilesPublished
<1>6. CASE Reuse
  BY <1>0, <1>a, <1>6, BoundsAssumption, FlagsAssumption
  DEF Types, Phases, Owners, Building, Filing, Reuse, Recorded, NotSeen
<1>7. CASE Stage
  BY <1>0, <1>a, <1>7, BoundsAssumption, FlagsAssumption
  DEF Types, Phases, Owners, Building, Filing, Stage
<1>8. CASE UploadAge
  BY <1>0, <1>a, <1>8, BoundsAssumption, FlagsAssumption
  DEF Types, Phases, Owners, Building, Filing, UploadAge, Uploads
<1>9. CASE UploadMeta
  BY <1>0, <1>a, <1>9, BoundsAssumption, FlagsAssumption
  DEF Types, Phases, Owners, Building, Filing, UploadMeta, Uploads
<1>10. CASE RecordFile
  BY <1>0, <1>a, <1>10, BoundsAssumption, FlagsAssumption
  DEF Types, Phases, Owners, Building, Filing, RecordFile, Recorded, NotSeen
<1>11. CASE Dump
  BY <1>0, <1>a, <1>11, BoundsAssumption, FlagsAssumption
  DEF Types, Phases, Owners, Building, Filing, Dump
<1>12. CASE SignManifest
  BY <1>0, <1>a, <1>12, BoundsAssumption, FlagsAssumption
  DEF Types, Phases, Owners, Building, Filing, SignManifest, Undisturbed, Quiescent
<1>13. CASE Complete
  BY <1>0, <1>a, <1>13, BoundsAssumption, FlagsAssumption
  DEF Types, Phases, Owners, Building, Filing, Complete
<1>14. ASSUME NEW b \in Points, Preflight(b) PROVE Owners'
  BY <1>0, <1>14, BoundsAssumption DEF Types, Owners, Points, Preflight
<1>15. CASE ExternalReady
  BY <1>0, <1>a, <1>15, BoundsAssumption, FlagsAssumption
  DEF Types, Phases, Owners, Building, Filing, ExternalReady
<1>16. CASE RestoreFails
  BY <1>0, <1>a, <1>16, BoundsAssumption, FlagsAssumption
  DEF Types, Phases, Owners, Building, Filing, RestoreFails
<1>17. CASE RotateReads \/ RotateDecides \/ RotateEnds
  BY <1>0, <1>a, <1>17, BoundsAssumption, FlagsAssumption
  DEF Types, Phases, Owners, Building, Filing, RotateReads, RotatorOwns, RotateDecides,
      NotRead, RotateEnds
<1>18. CASE RotateApplies
  BY <1>0, <1>a, <1>18, BoundsAssumption, FlagsAssumption
  DEF Types, Phases, Owners, Building, Filing, RotateApplies, Handles, Journals, Without,
      Erased
<1>19. ASSUME NEW f \in Files, NEW d \in Digests, AppWrites(f, d) PROVE Owners'
  BY <1>0, <1>a, <1>19, BoundsAssumption, FlagsAssumption
  DEF Types, Phases, Owners, Building, Filing, AppWrites
<1>20. ASSUME NEW f \in Files, AppCommits(f) PROVE Owners'
  BY <1>0, <1>a, <1>20, BoundsAssumption, FlagsAssumption
  DEF Types, Phases, Owners, Building, Filing, AppCommits
<1>21. CASE AppStartsUnasked \/ OperatorStarts
  BY <1>0, <1>a, <1>21, BoundsAssumption, FlagsAssumption
  DEF Types, Phases, Owners, Building, Filing, AppStartsUnasked, OperatorStarts
<1>22. ASSUME NEW b \in Points, Expire(b) PROVE Owners'
  BY <1>0, <1>a, <1>22, BoundsAssumption, FlagsAssumption
  DEF Types, Phases, Owners, Building, Filing, Expire
<1>23. CASE UNCHANGED vars
  BY <1>0, <1>a, <1>23
  DEF Types, Phases, Owners, Building, Filing, vars
<1> QED
  BY <1>1, <1>2, <1>3, <1>4, <1>5, <1>6, <1>7, <1>8, <1>9, <1>10, <1>11, <1>12, <1>13, <1>14,
     <1>15, <1>16, <1>17, <1>18, <1>19, <1>20, <1>21, <1>22, <1>23
  DEF Next, Orchestrator, Builder, Restorer, Rotator, Environment

\* Rows and files are frozen together from the inventory to the manifest, or the
\* run ends without a manifest.
LEMMA BackedNext ==
    ASSUME Flags, Types, Owners, PointsBacked, [Next]_vars
    PROVE  PointsBacked'
<1> USE DEF site, host, cas, objects, markers, job, rotator, Fault, JobStep
<1>0. Flags /\ Types /\ Owners  OBVIOUS
<1>1. CASE StartPrecopy \/ StartFinalize \/ StopApp \/ Quiesce
  BY <1>0, <1>1
  DEF Types, Phases, Owners, PointsBacked, Building, Filing, StartPrecopy, StartFinalize,
      StopApp, Quiesce, Quiescent
<1>2. CASE MonitorKills \/ JobFails \/ RestartApp
  BY <1>0, <1>2
  DEF Types, Phases, Owners, PointsBacked, Building, Filing, MonitorKills, JobFails,
      RestartApp, RestartsApp
<1>3. CASE Cleanup
  BY <1>0, <1>3
  DEF Types, Phases, Owners, PointsBacked, Building, Filing, Cleanup, RestartsApp, NoFiles,
      NoObjects, NotSeen
<1>4. CASE Inventory
  BY <1>0, <1>4
  DEF Types, Phases, Owners, PointsBacked, Building, Filing, Inventory
<1>5. CASE Probe \/ Disturbed \/ FilesPublished
  BY <1>0, <1>5
  DEF Types, Phases, Owners, PointsBacked, Building, Filing, Probe, Undisturbed, Quiescent,
      Disturbed, FilesPublished
<1>6. CASE Reuse
  BY <1>0, <1>6
  DEF Types, Phases, Owners, PointsBacked, Building, Filing, Reuse, Recorded, NotSeen
<1>7. CASE Stage
  BY <1>0, <1>7
  DEF Types, Phases, Owners, PointsBacked, Building, Filing, Stage
<1>8. CASE UploadAge
  BY <1>0, <1>8
  DEF Types, Phases, Owners, PointsBacked, Building, Filing, UploadAge, Uploads
<1>9. CASE UploadMeta
  BY <1>0, <1>9
  DEF Types, Phases, Owners, PointsBacked, Building, Filing, UploadMeta, Uploads
<1>10. CASE RecordFile
  BY <1>0, <1>10
  DEF Types, Phases, Owners, PointsBacked, Building, Filing, RecordFile, Recorded, NotSeen
<1>11. CASE Dump
  BY <1>0, <1>11
  DEF Types, Phases, Owners, PointsBacked, Building, Filing, Dump
<1>12. CASE SignManifest
  BY <1>0, <1>12
  DEF Types, Phases, Owners, PointsBacked, Building, Filing, SignManifest, Undisturbed,
      Quiescent
<1>13. CASE Complete
  BY <1>0, <1>13
  DEF Types, Phases, Owners, PointsBacked, Building, Filing, Complete
<1>14. ASSUME NEW b \in Points, Preflight(b) PROVE PointsBacked'
  BY <1>0, <1>14
  DEF Types, Phases, Owners, PointsBacked, Building, Filing, Preflight, Restorable
<1>15. CASE ExternalReady
  BY <1>0, <1>15
  DEF Types, Phases, Owners, PointsBacked, Building, Filing, ExternalReady
<1>16. CASE RestoreFails
  BY <1>0, <1>16
  DEF Types, Phases, Owners, PointsBacked, Building, Filing, RestoreFails
<1>17. CASE RotateReads \/ RotateDecides \/ RotateEnds
  BY <1>0, <1>17
  DEF Types, Phases, Owners, PointsBacked, Building, Filing, RotateReads, RotatorOwns,
      RotateDecides, NotRead, RotateEnds
<1>18. CASE RotateApplies
  <2>1. PICK t \in plan : Handles(t)  BY <1>18 DEF RotateApplies
  <2>2. UNCHANGED <<source, rows, kind, phase, app, inv, dumped>>
    BY <1>18 DEF RotateApplies
  <2>3. \A b \in Points : point'[b] \in {point[b], NoPoint}
    BY <1>0, <2>1 DEF Types, Handles
  <2>4. NoPoint.rows = {}  BY DEF NoPoint
  <2> QED  BY <1>0, <2>2, <2>3, <2>4 DEF PointsBacked
<1>19. ASSUME NEW f \in Files, NEW d \in Digests, AppWrites(f, d) PROVE PointsBacked'
  BY <1>0, <1>19
  DEF Types, Phases, Owners, PointsBacked, Building, Filing, AppWrites
<1>20. ASSUME NEW f \in Files, AppCommits(f) PROVE PointsBacked'
  BY <1>0, <1>20
  DEF Types, Phases, Owners, PointsBacked, Building, Filing, AppCommits
<1>21. CASE AppStartsUnasked \/ OperatorStarts
  BY <1>0, <1>21
  DEF Types, Phases, Owners, PointsBacked, Building, Filing, AppStartsUnasked, OperatorStarts
<1>22. ASSUME NEW b \in Points, Expire(b) PROVE PointsBacked'
  BY <1>0, <1>22
  DEF Types, Phases, Owners, PointsBacked, Building, Filing, Expire
<1>23. CASE UNCHANGED vars
  BY <1>0, <1>23
  DEF Types, Phases, Owners, PointsBacked, Building, Filing, vars
<1> QED
  BY <1>1, <1>2, <1>3, <1>4, <1>5, <1>6, <1>7, <1>8, <1>9, <1>10, <1>11, <1>12, <1>13, <1>14,
     <1>15, <1>16, <1>17, <1>18, <1>19, <1>20, <1>21, <1>22, <1>23
  DEF Next, Orchestrator, Builder, Restorer, Rotator, Environment

\* Markers and journals are those of points whose files are complete.
LEMMA KnownNext ==
    ASSUME ~Overlap, ~Residue, Base, Sound, [Next]_vars
    PROVE  KnownPoints'
<1> USE DEF site, host, cas, objects, markers, job, rotator, Fault, JobStep
<1>0. Flags /\ Types /\ Owners  BY DEF Base
<1>1. CASE StartPrecopy \/ StartFinalize \/ StopApp \/ Quiesce
  BY <1>0, <1>1, BoundsAssumption
  DEF Types, Owners, Building, Filing, Sound, KnownPoints, Known, StartPrecopy, StartFinalize,
      StopApp, Quiesce, Quiescent
<1>2. CASE MonitorKills \/ JobFails \/ RestartApp
  BY <1>0, <1>2, BoundsAssumption
  DEF Types, Owners, Building, Filing, Sound, KnownPoints, Known, MonitorKills, JobFails,
      RestartApp, RestartsApp
<1>3. CASE Cleanup
  BY <1>0, <1>3, BoundsAssumption
  DEF Types, Owners, Building, Filing, Sound, KnownPoints, Known, Cleanup, RestartsApp,
      NoFiles, NoObjects, NotSeen
<1>4. CASE Inventory
  BY <1>0, <1>4, BoundsAssumption
  DEF Types, Owners, Building, Filing, Sound, KnownPoints, Known, Inventory
<1>5. CASE Probe \/ Disturbed \/ FilesPublished
  BY <1>0, <1>5, BoundsAssumption
  DEF Types, Owners, Building, Filing, Sound, KnownPoints, Known, Probe, Undisturbed,
      Quiescent, Disturbed, FilesPublished
<1>6. CASE Reuse
  BY <1>0, <1>6, BoundsAssumption
  DEF Types, Owners, Building, Filing, Sound, KnownPoints, Known, Reuse, Recorded, NotSeen
<1>7. CASE Stage
  BY <1>0, <1>7, BoundsAssumption
  DEF Types, Owners, Building, Filing, Sound, KnownPoints, Known, Stage
<1>8. CASE UploadAge
  BY <1>0, <1>8, BoundsAssumption
  DEF Types, Owners, Building, Filing, Sound, KnownPoints, Known, UploadAge, Uploads
<1>9. CASE UploadMeta
  BY <1>0, <1>9, BoundsAssumption
  DEF Types, Owners, Building, Filing, Sound, KnownPoints, Known, UploadMeta, Uploads
<1>10. CASE RecordFile
  BY <1>0, <1>10, BoundsAssumption
  DEF Types, Owners, Building, Filing, Sound, KnownPoints, Known, RecordFile, Recorded,
      NotSeen
<1>11. CASE Dump
  BY <1>0, <1>11, BoundsAssumption
  DEF Types, Owners, Building, Filing, Sound, KnownPoints, Known, Dump
<1>12. CASE SignManifest
  BY <1>0, <1>12, BoundsAssumption
  DEF Types, Owners, Building, Filing, Sound, KnownPoints, Known, SignManifest, Undisturbed,
      Quiescent
<1>13. CASE Complete
  BY <1>0, <1>13, BoundsAssumption
  DEF Types, Owners, Building, Filing, Sound, KnownPoints, Known, Complete
<1>14. ASSUME NEW b \in Points, Preflight(b) PROVE KnownPoints'
  BY <1>0, <1>14, BoundsAssumption
  DEF Types, Owners, Building, Filing, Sound, KnownPoints, Known, Preflight, Restorable
<1>15. CASE ExternalReady
  <2>1. restoring \in complete
    BY <1>15 DEF ExternalReady, Sound, KeptRestorable, Restorable
  <2> QED  BY <1>15, <2>1 DEF ExternalReady, Sound, KnownPoints, Known
<1>16. CASE RestoreFails
  BY <1>0, <1>16, BoundsAssumption
  DEF Types, Owners, Building, Filing, Sound, KnownPoints, Known, RestoreFails
<1>17. CASE RotateReads \/ RotateDecides \/ RotateEnds
  BY <1>0, <1>17, BoundsAssumption
  DEF Types, Owners, Building, Filing, Sound, KnownPoints, Known, RotateReads, RotatorOwns,
      RotateDecides, NotRead, RotateEnds
<1>18. CASE RotateApplies
  <2>1. PICK t \in plan : (\A u \in plan : Precedes(t, u)) /\ Handles(t)
    BY <1>18 DEF RotateApplies
  <2>2. t.what = "journal" => t.point \in manifests  BY <2>1 DEF Sound, PlanSafe
  <2>3. UNCHANGED <<kind, phase, started>>  BY <1>18 DEF RotateApplies
  <2>4. manifests' \cup complete' \cup verified' \cup deleting' \subseteq Known
    BY <2>1, <2>2 DEF Sound, KnownPoints, Handles, Journals, Without
  <2> QED  BY <2>3, <2>4 DEF KnownPoints, Known
<1>19. ASSUME NEW f \in Files, NEW d \in Digests, AppWrites(f, d) PROVE KnownPoints'
  BY <1>0, <1>19, BoundsAssumption
  DEF Types, Owners, Building, Filing, Sound, KnownPoints, Known, AppWrites
<1>20. ASSUME NEW f \in Files, AppCommits(f) PROVE KnownPoints'
  BY <1>0, <1>20, BoundsAssumption
  DEF Types, Owners, Building, Filing, Sound, KnownPoints, Known, AppCommits
<1>21. CASE AppStartsUnasked \/ OperatorStarts
  BY <1>0, <1>21, BoundsAssumption
  DEF Types, Owners, Building, Filing, Sound, KnownPoints, Known, AppStartsUnasked,
      OperatorStarts
<1>22. ASSUME NEW b \in Points, Expire(b) PROVE KnownPoints'
  BY <1>0, <1>22, BoundsAssumption
  DEF Types, Owners, Building, Filing, Sound, KnownPoints, Known, Expire
<1>23. CASE UNCHANGED vars
  BY <1>0, <1>23
  DEF Types, Owners, Building, Filing, Sound, KnownPoints, Known, vars
<1> QED
  BY <1>1, <1>2, <1>3, <1>4, <1>5, <1>6, <1>7, <1>8, <1>9, <1>10, <1>11, <1>12, <1>13, <1>14,
     <1>15, <1>16, <1>17, <1>18, <1>19, <1>20, <1>21, <1>22, <1>23
  DEF Next, Orchestrator, Builder, Restorer, Rotator, Environment

\* Without residues of images, no content is stored under two paths.
LEMMA TwinsNext ==
    ASSUME ~Overlap, ~Residue, Base, Sound, [Next]_vars
    PROVE  NoTwins'
<1> USE DEF site, host, cas, objects, markers, job, rotator, Fault, JobStep
<1>0. Flags /\ Types /\ Owners  BY DEF Base
<1>1. CASE StartPrecopy \/ StartFinalize \/ StopApp \/ Quiesce
  BY <1>0, <1>1
  DEF Types, Owners, Sound, NoTwins, Injective, ValidManifest, StartPrecopy, StartFinalize,
      StopApp, Quiesce, Quiescent
<1>2. CASE MonitorKills \/ JobFails \/ RestartApp
  BY <1>0, <1>2
  DEF Types, Owners, Sound, NoTwins, Injective, ValidManifest, MonitorKills, JobFails,
      RestartApp, RestartsApp
<1>3. CASE Cleanup
  BY <1>0, <1>3
  DEF Types, Owners, Sound, NoTwins, Injective, ValidManifest, Cleanup, RestartsApp, NoFiles,
      NoObjects, NotSeen
<1>4. CASE Inventory
  BY <1>0, <1>4
  DEF Types, Owners, Sound, NoTwins, Injective, ValidManifest, Inventory
<1>5. CASE Probe \/ Disturbed \/ FilesPublished
  BY <1>0, <1>5
  DEF Types, Owners, Sound, NoTwins, Injective, ValidManifest, Probe, Undisturbed, Quiescent,
      Disturbed, FilesPublished
<1>6. CASE Reuse
  BY <1>0, <1>6
  DEF Types, Owners, Sound, NoTwins, Injective, ValidManifest, Reuse, Recorded, NotSeen
<1>7. CASE Stage
  BY <1>0, <1>7
  DEF Types, Owners, Sound, NoTwins, Injective, ValidManifest, Stage
<1>8. CASE UploadAge
  BY <1>0, <1>8
  DEF Types, Owners, Sound, NoTwins, Injective, ValidManifest, UploadAge, Uploads
<1>9. CASE UploadMeta
  BY <1>0, <1>9
  DEF Types, Owners, Sound, NoTwins, Injective, ValidManifest, UploadMeta, Uploads
<1>10. CASE RecordFile
  BY <1>0, <1>10
  DEF Types, Owners, Sound, NoTwins, Injective, ValidManifest, RecordFile, Recorded, NotSeen
<1>11. CASE Dump
  BY <1>0, <1>11
  DEF Types, Owners, Sound, NoTwins, Injective, ValidManifest, Dump
<1>12. CASE SignManifest
  BY <1>0, <1>12
  DEF Types, Owners, Sound, NoTwins, Injective, ValidManifest, SignManifest, Undisturbed,
      Quiescent
<1>13. CASE Complete
  BY <1>0, <1>13
  DEF Types, Owners, Sound, NoTwins, Injective, ValidManifest, Complete
<1>14. ASSUME NEW b \in Points, Preflight(b) PROVE NoTwins'
  BY <1>0, <1>14
  DEF Types, Owners, Sound, NoTwins, Injective, ValidManifest, Preflight, Restorable
<1>15. CASE ExternalReady
  BY <1>0, <1>15
  DEF Types, Owners, Sound, NoTwins, Injective, ValidManifest, ExternalReady
<1>16. CASE RestoreFails
  BY <1>0, <1>16
  DEF Types, Owners, Sound, NoTwins, Injective, ValidManifest, RestoreFails
<1>17. CASE RotateReads \/ RotateDecides \/ RotateEnds
  BY <1>0, <1>17
  DEF Types, Owners, Sound, NoTwins, Injective, ValidManifest, RotateReads, RotatorOwns,
      RotateDecides, NotRead, RotateEnds
<1>18. CASE RotateApplies
  <2>1. PICK t \in plan : (\A u \in plan : Precedes(t, u)) /\ Handles(t)
    BY <1>18 DEF RotateApplies
  <2>2. \A b \in Points : point'[b] \in {point[b], NoPoint}
    BY <1>0, <2>1 DEF Types, Handles
  <2>3. \A f \in Files : NoPoint.files[f] = Absent  BY DEF NoPoint, NoFiles
  <2>4. UNCHANGED <<source, inv>>  BY <1>18 DEF RotateApplies
  <2> QED  BY <2>2, <2>3, <2>4 DEF Sound, NoTwins, Injective, ValidManifest
<1>19. ASSUME NEW f \in Files, NEW d \in Digests, AppWrites(f, d) PROVE NoTwins'
  BY <1>0, <1>19
  DEF Types, Owners, Sound, NoTwins, Injective, ValidManifest, AppWrites
<1>20. ASSUME NEW f \in Files, AppCommits(f) PROVE NoTwins'
  BY <1>0, <1>20
  DEF Types, Owners, Sound, NoTwins, Injective, ValidManifest, AppCommits
<1>21. CASE AppStartsUnasked \/ OperatorStarts
  BY <1>0, <1>21
  DEF Types, Owners, Sound, NoTwins, Injective, ValidManifest, AppStartsUnasked,
      OperatorStarts
<1>22. ASSUME NEW b \in Points, Expire(b) PROVE NoTwins'
  BY <1>0, <1>22
  DEF Types, Owners, Sound, NoTwins, Injective, ValidManifest, Expire
<1>23. CASE UNCHANGED vars
  BY <1>0, <1>23
  DEF Types, Owners, Sound, NoTwins, Injective, ValidManifest, vars
<1> QED
  BY <1>1, <1>2, <1>3, <1>4, <1>5, <1>6, <1>7, <1>8, <1>9, <1>10, <1>11, <1>12, <1>13, <1>14,
     <1>15, <1>16, <1>17, <1>18, <1>19, <1>20, <1>21, <1>22, <1>23
  DEF Next, Orchestrator, Builder, Restorer, Rotator, Environment

\* The builder records no ciphertext that the store does not hold.
LEMMA StoredNext ==
    ASSUME ~Overlap, ~Residue, Base, Sound, [Next]_vars
    PROVE  FilesStored'
<1> USE DEF site, host, cas, objects, markers, job, rotator, Fault, JobStep
<1>0. Flags /\ Types /\ Owners  BY DEF Base
<1>a. todo # {} => Item \in todo /\ Item \in Files /\ Digest \in Digests  BY <1>0, ItemType
<1>b. phase \in Filing => todo # {}  BY <1>0 DEF Owners
<1>c. UNCHANGED <<inv, todo>> => Digest' = Digest  BY DEF Digest, Item
<1>1. CASE StartPrecopy \/ StartFinalize \/ StopApp \/ Quiesce
  BY <1>0, <1>a, <1>b, <1>c, <1>1
  DEF Types, Owners, Building, Filing, Sound, FilesStored, StartPrecopy, StartFinalize,
      StopApp, Quiesce, Quiescent
<1>2. CASE MonitorKills \/ JobFails \/ RestartApp
  BY <1>0, <1>a, <1>b, <1>c, <1>2
  DEF Types, Owners, Building, Filing, Sound, FilesStored, MonitorKills, JobFails, RestartApp,
      RestartsApp
<1>3. CASE Cleanup
  BY <1>0, <1>a, <1>b, <1>c, <1>3
  DEF Types, Owners, Building, Filing, Sound, FilesStored, Cleanup, RestartsApp, NoFiles,
      NoObjects, NotSeen
<1>4. CASE Inventory
  BY <1>0, <1>a, <1>b, <1>c, <1>4
  DEF Types, Owners, Building, Filing, Sound, FilesStored, Inventory
<1>5. CASE Probe \/ Disturbed \/ FilesPublished
  BY <1>0, <1>a, <1>b, <1>c, <1>5
  DEF Types, Owners, Building, Filing, Sound, FilesStored, Probe, Undisturbed, Quiescent,
      Disturbed, FilesPublished
<1>6. CASE Reuse
  <2>1. Digest \in Digests /\ Digest = inv[Item] /\ Item \in Files
    BY <1>a, <1>b, <1>6 DEF Reuse, Filing, Digest
  <2>2. \A f \in Files : inv[f] = Digest /\ inv[f] # Absent => f = Item
    BY <2>1 DEF Sound, NoTwins, Injective
  <2> DEFINE c == meta[Digest]
  <2>3. Recorded(c) => c # Absent /\ age[Digest] = c
    BY <1>6 DEF Reuse, Recorded
  <2> HIDE DEF c
  <2>4. CASE Recorded(c)
    <3>1. ASSUME NEW f \in Files \ todo', inv[f] # Absent
          PROVE  got'[inv[f]] # Absent /\ age[inv[f]] = got'[inv[f]]
      <4>1. CASE f = Item  BY <1>0, <2>1, <2>3, <2>4, <4>1 DEF Types, Recorded
      <4>2. CASE f # Item
        <5>1. f \notin todo /\ inv[f] # Digest  BY <2>2, <2>4, <3>1, <4>2 DEF Recorded
        <5>2. got'[inv[f]] = got[inv[f]]  BY <1>0, <2>4, <3>1, <5>1 DEF Types, Recorded
        <5> QED  BY <3>1, <5>1, <5>2 DEF Sound, FilesStored
      <4> QED  BY <4>1, <4>2
    <3> QED  BY <1>6, <2>4, <3>1 DEF Reuse, Recorded, FilesStored
  <2>5. CASE ~Recorded(c)
    BY <1>6, <2>5 DEF Reuse, Sound, FilesStored, c
  <2> QED  BY <2>4, <2>5
<1>7. CASE Stage
  <2>1. Digest \in Digests /\ Fresh(Digest) # Absent
    BY <1>0, <1>a, <1>b, <1>7, FreshExists, BoundsAssumption DEF Stage, Filing, Cipher, Absent
  <2>2. staged'[Digest] # Absent  BY <1>0, <1>7, <2>1 DEF Types, Stage
  <2> QED  BY <1>7, <1>c, <2>2 DEF Stage, Sound, FilesStored
<1>8. CASE UploadAge
  BY <1>0, <1>a, <1>b, <1>c, <1>8
  DEF Types, Owners, Building, Filing, Sound, FilesStored, UploadAge, Uploads
<1>9. CASE UploadMeta
  BY <1>0, <1>a, <1>b, <1>c, <1>9
  DEF Types, Owners, Building, Filing, Sound, FilesStored, UploadMeta, Uploads
<1>10. CASE RecordFile
  <2>1. Digest \in Digests /\ Digest = inv[Item] /\ Item \in Files
    BY <1>a, <1>b, <1>10 DEF RecordFile, Filing, Digest
  <2>2. \A f \in Files : inv[f] = Digest /\ inv[f] # Absent => f = Item
    BY <2>1 DEF Sound, NoTwins, Injective
  <2> DEFINE c == staged[Digest]
  <2>3. c # Absent /\ age[Digest] = c
    BY <1>10 DEF RecordFile, Sound, FilesStored
  <2> HIDE DEF c
  <2>4. CASE Recorded(c)
    <3>1. ASSUME NEW f \in Files \ todo', inv[f] # Absent
          PROVE  got'[inv[f]] # Absent /\ age[inv[f]] = got'[inv[f]]
      <4>1. CASE f = Item  BY <1>0, <2>1, <2>3, <2>4, <4>1 DEF Types, Recorded
      <4>2. CASE f # Item
        <5>1. f \notin todo /\ inv[f] # Digest  BY <2>2, <2>4, <3>1, <4>2 DEF Recorded
        <5>2. got'[inv[f]] = got[inv[f]]  BY <1>0, <2>4, <3>1, <5>1 DEF Types, Recorded
        <5> QED  BY <3>1, <5>1, <5>2 DEF Sound, FilesStored
      <4> QED  BY <4>1, <4>2
    <3> QED  BY <1>10, <2>4, <3>1 DEF RecordFile, Recorded, FilesStored
  <2> QED  BY <1>10, <2>4 DEF RecordFile, c
<1>11. CASE Dump
  BY <1>0, <1>a, <1>b, <1>c, <1>11
  DEF Types, Owners, Building, Filing, Sound, FilesStored, Dump
<1>12. CASE SignManifest
  BY <1>0, <1>a, <1>b, <1>c, <1>12
  DEF Types, Owners, Building, Filing, Sound, FilesStored, SignManifest, Undisturbed,
      Quiescent
<1>13. CASE Complete
  BY <1>0, <1>a, <1>b, <1>c, <1>13
  DEF Types, Owners, Building, Filing, Sound, FilesStored, Complete
<1>14. ASSUME NEW b \in Points, Preflight(b) PROVE FilesStored'
  BY <1>0, <1>a, <1>b, <1>c, <1>14
  DEF Types, Owners, Building, Filing, Sound, FilesStored, Preflight, Restorable
<1>15. CASE ExternalReady
  BY <1>0, <1>a, <1>b, <1>c, <1>15
  DEF Types, Owners, Building, Filing, Sound, FilesStored, ExternalReady
<1>16. CASE RestoreFails
  BY <1>0, <1>a, <1>b, <1>c, <1>16
  DEF Types, Owners, Building, Filing, Sound, FilesStored, RestoreFails
<1>17. CASE RotateReads \/ RotateDecides \/ RotateEnds
  BY <1>0, <1>a, <1>b, <1>c, <1>17
  DEF Types, Owners, Building, Filing, Sound, FilesStored, RotateReads, RotatorOwns,
      RotateDecides, NotRead, RotateEnds
<1>18. CASE RotateApplies
  <2>1. phase' = "idle" /\ inv' = NoFiles  BY <1>0, <1>18 DEF Types, Owners, RotateApplies
  <2> QED  BY <2>1 DEF FilesStored, NoFiles
<1>19. ASSUME NEW f \in Files, NEW d \in Digests, AppWrites(f, d) PROVE FilesStored'
  BY <1>0, <1>a, <1>b, <1>c, <1>19
  DEF Types, Owners, Building, Filing, Sound, FilesStored, AppWrites
<1>20. ASSUME NEW f \in Files, AppCommits(f) PROVE FilesStored'
  BY <1>0, <1>a, <1>b, <1>c, <1>20
  DEF Types, Owners, Building, Filing, Sound, FilesStored, AppCommits
<1>21. CASE AppStartsUnasked \/ OperatorStarts
  BY <1>0, <1>a, <1>b, <1>c, <1>21
  DEF Types, Owners, Building, Filing, Sound, FilesStored, AppStartsUnasked, OperatorStarts
<1>22. ASSUME NEW b \in Points, Expire(b) PROVE FilesStored'
  BY <1>0, <1>a, <1>b, <1>c, <1>22
  DEF Types, Owners, Building, Filing, Sound, FilesStored, Expire
<1>23. CASE UNCHANGED vars
  BY <1>0, <1>a, <1>b, <1>c, <1>23
  DEF Types, Owners, Building, Filing, Sound, FilesStored, vars
<1> QED
  BY <1>1, <1>2, <1>3, <1>4, <1>5, <1>6, <1>7, <1>8, <1>9, <1>10, <1>11, <1>12, <1>13, <1>14,
     <1>15, <1>16, <1>17, <1>18, <1>19, <1>20, <1>21, <1>22, <1>23
  DEF Next, Orchestrator, Builder, Restorer, Rotator, Environment

\* The manifest names a ciphertext for every file, and precedes the marker.
LEMMA SignedNext ==
    ASSUME ~Overlap, ~Residue, Base, Sound, [Next]_vars
    PROVE  PointSigned'
<1> USE DEF site, host, cas, objects, markers, job, rotator, Fault, JobStep
<1>0. Flags /\ Types /\ Owners  BY DEF Base
<1>1. CASE StartPrecopy \/ StartFinalize \/ StopApp \/ Quiesce
  BY <1>0, <1>1
  DEF Types, Owners, Sound, PointSigned, Keys, StartPrecopy, StartFinalize, StopApp, Quiesce,
      Quiescent
<1>2. CASE MonitorKills \/ JobFails \/ RestartApp
  BY <1>0, <1>2
  DEF Types, Owners, Sound, PointSigned, Keys, MonitorKills, JobFails, RestartApp, RestartsApp
<1>3. CASE Cleanup
  BY <1>0, <1>3
  DEF Types, Owners, Sound, PointSigned, Keys, Cleanup, RestartsApp, NoFiles, NoObjects,
      NotSeen
<1>4. CASE Inventory
  BY <1>0, <1>4
  DEF Types, Owners, Sound, PointSigned, Keys, Inventory
<1>5. CASE Probe \/ Disturbed \/ FilesPublished
  BY <1>0, <1>5
  DEF Types, Owners, Sound, PointSigned, Keys, Probe, Undisturbed, Quiescent, Disturbed,
      FilesPublished
<1>6. CASE Reuse
  BY <1>0, <1>6
  DEF Types, Owners, Sound, PointSigned, Keys, Reuse, Recorded, NotSeen
<1>7. CASE Stage
  BY <1>0, <1>7
  DEF Types, Owners, Sound, PointSigned, Keys, Stage
<1>8. CASE UploadAge
  BY <1>0, <1>8
  DEF Types, Owners, Sound, PointSigned, Keys, UploadAge, Uploads
<1>9. CASE UploadMeta
  BY <1>0, <1>9
  DEF Types, Owners, Sound, PointSigned, Keys, UploadMeta, Uploads
<1>10. CASE RecordFile
  BY <1>0, <1>10
  DEF Types, Owners, Sound, PointSigned, Keys, RecordFile, Recorded, NotSeen
<1>11. CASE Dump
  BY <1>0, <1>11
  DEF Types, Owners, Sound, PointSigned, Keys, Dump
<1>12. CASE SignManifest
  <2> DEFINE new == [files |-> inv, cipher |-> got, rows |-> dumped]
  <2>1. started \in Points
    BY <1>0, <1>12, BoundsAssumption DEF Types, Owners, Building, SignManifest, Points
  <2>2. point' = [point EXCEPT ![started] = new]  BY <1>12 DEF SignManifest
  <2>3. point'[started] = new /\ \A b \in Points \ {started} : point'[b] = point[b]
    BY <1>0, <2>1, <2>2 DEF Types
  <2>4. \A f \in Files : inv[f] # Absent => got[inv[f]] # Absent
    BY <1>12 DEF SignManifest, Sound, FilesStored
  <2>5. \A b \in Points : \A d \in Keys(b)' : point'[b].cipher[d] # Absent
    BY <2>3, <2>4 DEF Sound, PointSigned, Keys
  <2> QED  BY <1>12, <2>3, <2>5 DEF SignManifest, Sound, PointSigned
<1>13. CASE Complete
  BY <1>0, <1>13
  DEF Types, Owners, Sound, PointSigned, Keys, Complete
<1>14. ASSUME NEW b \in Points, Preflight(b) PROVE PointSigned'
  BY <1>0, <1>14
  DEF Types, Owners, Sound, PointSigned, Keys, Preflight, Restorable
<1>15. CASE ExternalReady
  BY <1>0, <1>15
  DEF Types, Owners, Sound, PointSigned, Keys, ExternalReady
<1>16. CASE RestoreFails
  BY <1>0, <1>16
  DEF Types, Owners, Sound, PointSigned, Keys, RestoreFails
<1>17. CASE RotateReads \/ RotateDecides \/ RotateEnds
  BY <1>0, <1>17
  DEF Types, Owners, Sound, PointSigned, Keys, RotateReads, RotatorOwns, RotateDecides,
      NotRead, RotateEnds
<1>18. CASE RotateApplies
  <2>1. PICK t \in plan : (\A u \in plan : Precedes(t, u)) /\ Handles(t)
    BY <1>18 DEF RotateApplies
  <2>2. \A b \in Points : point'[b] \in {point[b], NoPoint}
    BY <1>0, <2>1 DEF Types, Handles
  <2>3. \A f \in Files : NoPoint.files[f] = Absent  BY DEF NoPoint, NoFiles
  <2>4. phase' = "idle"  BY <1>0, <1>18 DEF Types, Owners, RotateApplies
  <2>5. \A b \in Points : \A d \in Keys(b)' : point'[b].cipher[d] # Absent
    BY <2>2, <2>3 DEF Sound, PointSigned, Keys
  <2> QED  BY <2>4, <2>5 DEF PointSigned
<1>19. ASSUME NEW f \in Files, NEW d \in Digests, AppWrites(f, d) PROVE PointSigned'
  BY <1>0, <1>19
  DEF Types, Owners, Sound, PointSigned, Keys, AppWrites
<1>20. ASSUME NEW f \in Files, AppCommits(f) PROVE PointSigned'
  BY <1>0, <1>20
  DEF Types, Owners, Sound, PointSigned, Keys, AppCommits
<1>21. CASE AppStartsUnasked \/ OperatorStarts
  BY <1>0, <1>21
  DEF Types, Owners, Sound, PointSigned, Keys, AppStartsUnasked, OperatorStarts
<1>22. ASSUME NEW b \in Points, Expire(b) PROVE PointSigned'
  BY <1>0, <1>22
  DEF Types, Owners, Sound, PointSigned, Keys, Expire
<1>23. CASE UNCHANGED vars
  BY <1>0, <1>23
  DEF Types, Owners, Sound, PointSigned, Keys, vars
<1> QED
  BY <1>1, <1>2, <1>3, <1>4, <1>5, <1>6, <1>7, <1>8, <1>9, <1>10, <1>11, <1>12, <1>13, <1>14,
     <1>15, <1>16, <1>17, <1>18, <1>19, <1>20, <1>21, <1>22, <1>23
  DEF Next, Orchestrator, Builder, Restorer, Rotator, Environment

-----------------------------------------------------------------------------
(* Rotation. *)

\* The protected point is the newest verified one.
LEMMA ProtectedIsNewest ==
    ASSUME Types, verified # {}
    PROVE  Protected \in verified /\ Protected \in Points /\ \A b \in verified : b <= Protected
<1>1. MaxPoints \in Nat /\ verified \in SUBSET (1..MaxPoints)
  BY BoundsAssumption DEF Types, Points
<1> QED  BY <1>1, MaxIsGreatest DEF Protected, Points

\* The greatest element is the only one with nothing above it.
LEMMA NewestIs ==
    ASSUME NEW S \in SUBSET Points, NEW m \in S, \A b \in S : b <= m
    PROVE  Max(S) = m
<1>1. MaxPoints \in Nat /\ S \in SUBSET (1..MaxPoints)  BY BoundsAssumption DEF Points
<1>a. S # {}  OBVIOUS
<1>2. Max(S) \in S /\ \A b \in S : b <= Max(S)  BY <1>1, <1>a, MaxIsGreatest
<1>3. \A b \in S : b \in Nat  BY <1>1
<1>4. Max(S) <= m /\ m <= Max(S)  BY <1>2
<1> QED  BY <1>2, <1>3, <1>4

\* Who owns the lease runs alone.
LEMMA RunsAlone ==
    ASSUME ~Overlap, Base
    PROVE  /\ phase # "idle" => rot = "idle" /\ restoring = 0
           /\ restoring # 0 => rot = "idle" /\ phase = "idle"
           /\ rot # "idle" => phase = "idle" /\ restoring = 0
           /\ lease = "none" => rot = "idle" /\ restoring = 0 /\ phase = "idle"
  BY DEF Base, Owners

\* Only a rotation has a plan, and nobody else moves while it has one.
LEMMA OthersNotRotating ==
    ASSUME ~Overlap, Base, Sound, Orchestrator \/ Builder \/ Restorer
    PROVE  rot = "idle" /\ plan = {} /\ UNCHANGED <<rot, read, plan>>
<1> USE DEF site, host, cas, objects, markers, job, rotator, Fault, JobStep
<1>0. Owners /\ (plan = {} \/ rot = "apply")  BY DEF Base, Sound, PlanSafe
<1>1. CASE Orchestrator
  BY <1>0, <1>1, RunsAlone
  DEF Orchestrator, StartPrecopy, StartFinalize, StopApp, Quiesce, MonitorKills, JobFails,
      RestartApp,
      Cleanup
<1>2. CASE Builder
  BY <1>0, <1>2, RunsAlone
  DEF Builder, Inventory, Probe, Reuse, Stage, UploadAge, UploadMeta, RecordFile, Disturbed,
      FilesPublished, Dump, SignManifest, Complete
<1>3. CASE Restorer
  BY <1>0, <1>3, RunsAlone DEF Restorer, Preflight, ExternalReady, RestoreFails
<1> QED  BY <1>1, <1>2, <1>3

\* The application, its operator and the clock leave the store alone.
LEMMA EnvironmentKeeps ==
    ASSUME Environment
    PROVE  UNCHANGED <<age, meta, payload, manifests, point, complete, verified, deleting,
                       restoring, rot, read, plan>>
  BY
  DEF Environment, AppWrites, AppCommits, AppStartsUnasked, OperatorStarts, Expire, site,
      host,
     cas, objects, markers, job, rotator

\* What the order of the plan means for the target whose turn it is.
LEMMA TurnOf ==
    ASSUME Base, Sound, NEW t \in plan, \A u \in plan : Precedes(t, u)
    PROVE  /\ t \in Targets /\ t.point \in Points
           /\ t.what # "journal" => t.point \in deleting
           /\ t.what # "journal" => \A u \in plan : u.what # "journal"
           /\ t.what \in {"manifest", "deleting"} => t.point \notin complete \cup verified
           /\ t.what = "age" => \A b \in complete : t.digest \in Keys(b) => b \in deleting
           /\ \A u \in plan : t.point = u.point /\ 0 \notin {t.round, u.round}
                  => u.round = t.round /\ Rank[t.what] <= Rank[u.what]
<1>1. t \in Targets /\ t.point \in Points /\ plan \subseteq Targets
  BY DEF Base, Types, Targets
<1>2. \A u \in plan : u.round \in 0..3 /\ u.point \in Nat /\ (u.what = "journal" <=> u.round = 0)
  BY <1>1, BoundsAssumption DEF Sound, PlanSafe, Targets, Points
<1>3. t.what # "journal" => \A u \in plan : u.what # "journal"
  BY <1>2 DEF Precedes
<1>4. \A b : Target(0, b, "journal").what = "journal"  BY DEF Target
<1>5. t.what # "journal" => \A b : Journaled(b) => b \in deleting
  BY <1>3, <1>4 DEF Journaled
<1>6. \A u \in plan : t.point = u.point /\ 0 \notin {t.round, u.round}
          => u.round = t.round /\ Rank[t.what] <= Rank[u.what]
  BY <1>2 DEF Sound, PlanSafe, Precedes
<1>7. ASSUME t.what \in {"manifest", "deleting"}, NEW what \in {"complete", "verified"}
      PROVE  ~Waits(t, what)
  <2>1. /\ Target(t.round, t.point, what).point = t.point
        /\ Target(t.round, t.point, what).round = t.round
        /\ Target(t.round, t.point, what).what = what
    BY DEF Target
  <2>2. t.round # 0  BY <1>2, <1>7
  <2>3. ~(Rank[t.what] <= Rank[what])  BY <1>7 DEF Rank
  <2> QED  BY <1>6, <2>1, <2>2, <2>3 DEF Waits
<1>8. t.what \in {"manifest", "deleting"} => t.point \notin complete \cup verified
  BY <1>7 DEF Sound, PlanSafe
<1>9. t.what # "journal" => t.point \in deleting  BY <1>5 DEF Sound, PlanSafe
<1>10. t.what = "age" => \A b \in complete : t.digest \in Keys(b) => b \in deleting
  BY <1>5 DEF Sound, PlanSafe
<1> QED  BY <1>1, <1>3, <1>6, <1>8, <1>9, <1>10

\* A target leaves the protected point and the points without a journal alone.
LEMMA TurnSpares ==
    ASSUME Base, Sound, NEW t \in plan, \A u \in plan : Precedes(t, u), Handles(t)
    PROVE  /\ Protected' = Protected
           /\ verified # {} <=> verified' # {}
           /\ verified # {} => t.point # Protected
           /\ \A b \in complete' \ deleting' :
                  b \in complete \ deleting /\ (b = t.point => t.what = "journal")
<1>0. Types  BY DEF Base
<1>1. verified # {} => t.point # Protected  BY DEF Sound, PlanSafe
<1>2. CASE verified = {}
  <2>1. verified' = {}  BY <1>2 DEF Handles, Without
  <2> QED  BY <1>2, <2>1, TurnOf DEF Protected, Handles, Journals, Without
<1>3. CASE verified # {}
  <2>1. Protected \in verified /\ \A b \in verified : b <= Protected
    BY <1>0, <1>3, ProtectedIsNewest
  <2>2. Protected \in verified' /\ verified' \subseteq verified
    BY <1>1, <1>3, <2>1 DEF Handles, Without
  <2>3. verified' \in SUBSET Points  BY <1>0, <2>2 DEF Types
  <2>4. Max(verified') = Protected  BY <2>1, <2>2, <2>3, NewestIs
  <2>5. Protected' = Protected  BY <2>2, <2>4 DEF Protected
  <2> QED  BY <1>1, <1>3, <2>2, <2>5, TurnOf DEF Handles, Journals, Without
<1> QED  BY <1>2, <1>3

\* What rotation read stays true until it decides.
LEMMA ReadNext ==
    ASSUME ~Overlap, Base, Sound, [Next]_vars
    PROVE  ReadCurrent'
<1> USE DEF site, host, cas, objects, markers, job, rotator
<1>1. CASE Orchestrator \/ Builder \/ Restorer
  BY <1>1, OthersNotRotating DEF ReadCurrent
<1>2. CASE Environment \/ UNCHANGED vars
  BY <1>2, EnvironmentKeeps DEF Sound, ReadCurrent, vars
<1>3. CASE Rotator
  BY <1>3 DEF Rotator, RotateReads, RotateDecides, RotateApplies, RotateEnds, ReadCurrent
<1> QED  BY <1>1, <1>2, <1>3 DEF Next

\* The journals and markers that rotation reads stay readable, whoever moves.
LEMMA ResumeNext ==
    ASSUME ~Overlap, Base, Sound, [Next]_vars, Types', NoTwins'
    PROVE  RotationCanResume'
<1> USE DEF site, host, cas, objects, markers, job, rotator
<1> DEFINE Bound(c, v, d, m) == /\ c \subseteq m /\ (d \ m) \cap (c \cup v) = {}
                                /\ v \subseteq c \cup (d \cap m)
<1>0. Types /\ Owners  BY DEF Base
<1>1. Bound(complete, verified, deleting, manifests)
  BY DEF Sound, RotationCanResume, RecordsValid
<1>2. \A b \in Points : ValidManifest(b)'  BY DEF NoTwins
<1>3. SUFFICES Bound(complete', verified', deleting', manifests')
  BY <1>2 DEF RotationCanResume, RecordsValid, Types
<1>4. CASE UNCHANGED <<complete, verified, deleting, manifests>>
  BY <1>1, <1>4
<1>5. CASE SignManifest
  <2>1. started \notin complete \cup verified \cup deleting
    BY <1>0, <1>5, BoundsAssumption
    DEF SignManifest, Types, Owners, Building, Sound, KnownPoints, Known
  <2> QED  BY <1>1, <1>5, <2>1 DEF SignManifest, JobStep
<1>6. CASE Complete
  <2>1. started \in manifests  BY <1>6 DEF Complete, Sound, PointSigned
  <2> QED  BY <1>1, <1>6, <2>1 DEF Complete
<1>7. CASE ExternalReady
  <2>1. restoring \in complete  BY <1>7 DEF ExternalReady, Sound, KeptRestorable, Restorable
  <2> QED  BY <1>1, <1>7, <2>1 DEF ExternalReady
<1>8. CASE RotateApplies
  <2>1. PICK t \in plan : (\A u \in plan : Precedes(t, u)) /\ Handles(t)
    BY <1>8 DEF RotateApplies
  <2>2. /\ t.what # "journal" => t.point \in deleting
        /\ t.what \in {"manifest", "deleting"} => t.point \notin complete \cup verified
        /\ t.what # "deleting" => t.point \in manifests
    BY <2>1, TurnOf DEF Sound, PlanSafe
  <2>3. CASE t.what \in {"journal", "complete", "verified"}
    BY <1>1, <2>1, <2>2, <2>3 DEF Handles, Journals, Without
  <2>4. CASE t.what \in {"manifest", "deleting"}
    BY <1>1, <2>1, <2>2, <2>4 DEF Handles, Journals, Without
  <2>5. CASE t.what \notin {"journal", "complete", "verified", "manifest", "deleting"}
    BY <1>1, <2>1, <2>5 DEF Handles, Journals, Without
  <2> QED  BY <2>3, <2>4, <2>5
<1>9. CASE Orchestrator
  <2>1. UNCHANGED <<complete, verified, deleting, manifests>>
    BY <1>9 DEF Orchestrator, StartPrecopy, StartFinalize, StopApp, Quiesce, MonitorKills,
       JobFails, RestartApp, Cleanup
  <2> QED  BY <1>4, <2>1
<1>10. CASE Builder /\ ~SignManifest /\ ~Complete
  <2>1. UNCHANGED <<complete, verified, deleting, manifests>>
    BY <1>10 DEF Builder, Inventory, Probe, Reuse, Stage, UploadAge, UploadMeta, RecordFile,
       Disturbed, FilesPublished, Dump, JobStep
  <2> QED  BY <1>4, <2>1
<1>11. CASE \/ (Restorer /\ ~ExternalReady) \/ (Rotator /\ ~RotateApplies)
            \/ Environment \/ UNCHANGED vars
  <2>1. UNCHANGED <<complete, verified, deleting, manifests>>
    BY <1>11, EnvironmentKeeps DEF Restorer, Preflight, RestoreFails, Rotator, RotateReads,
       RotateDecides, RotateEnds, vars
  <2> QED  BY <1>4, <2>1
<1> QED  BY <1>5, <1>6, <1>7, <1>8, <1>9, <1>10, <1>11 DEF Next

-----------------------------------------------------------------------------
(* Points that can be restored. *)

\* A point stays restorable while its objects and its manifest stay.
LEMMA StaysRestorable ==
    ASSUME NEW b, Restorable(b), b \in complete' \cap manifests' \cap payload',
           point'[b] = point[b], \A d \in Keys(b) : age'[d] = age[d]
    PROVE  Restorable(b)'
  BY DEF Restorable, ValidManifest, Keys

\* A step that takes nothing from a restorable point and moves no marker.
LEMMA KeepsAll ==
    ASSUME Base, Sound, \A b \in Points : Restorable(b) => Restorable(b)',
           UNCHANGED <<complete, verified, deleting>>, restoring' \in {0, restoring}
    PROVE  KeptRestorable'
<1>0. Types  BY DEF Base
<1>1. \A b \in complete' \ deleting' : Restorable(b)'
  BY <1>0 DEF Types, Sound, KeptRestorable, CompletedIsRestorable
<1>2. Protected' = Protected  BY DEF Protected
<1>3. verified' # {} => Restorable(Protected)'
  <2>1. verified # {} => Restorable(Protected) /\ Protected \in Points
    BY <1>0, ProtectedIsNewest DEF Sound, KeptRestorable
  <2>2. \A b : b = Protected /\ b \in Points /\ Restorable(b) => Restorable(Protected)'
    BY <1>2 DEF Restorable, ValidManifest, Keys
  <2> QED  BY <2>1, <2>2
<1>4. restoring' # 0 => Restorable(restoring)'
  <2>1. restoring # 0 => Restorable(restoring) /\ restoring \in Points
    BY <1>0, BoundsAssumption DEF Types, Points, Sound, KeptRestorable
  <2>2. restoring' # 0 => restoring' = restoring  OBVIOUS
  <2> QED  BY <2>1, <2>2 DEF Restorable, ValidManifest, Keys
<1> QED  BY <1>1, <1>3, <1>4 DEF KeptRestorable, CompletedIsRestorable

\* Whoever moves, the points that must be restorable are.
LEMMA KeptNext ==
    ASSUME ~Overlap, ~Residue, Base, Sound, [Next]_vars, Base'
    PROVE  KeptRestorable'
<1> USE DEF site, host, cas, objects, markers, job, rotator
<1>0. Flags /\ Types /\ Owners /\ Types'  BY DEF Base
<1>1. CASE /\ UNCHANGED <<age, manifests, point, complete, verified, deleting>>
           /\ payload \subseteq payload' /\ restoring' \in {0, restoring}
  <2>1. \A b \in Points : Restorable(b) => Restorable(b)'
    BY <1>1 DEF Restorable, ValidManifest, Keys
  <2> QED  BY <1>1, <2>1, KeepsAll
<1>2. CASE Orchestrator
  <2>1. /\ UNCHANGED <<age, manifests, point, complete, verified, deleting>>
        /\ payload \subseteq payload' /\ restoring' = restoring
    BY <1>2 DEF Orchestrator, StartPrecopy, StartFinalize, StopApp, Quiesce, MonitorKills,
       JobFails, RestartApp, Cleanup
  <2> QED  BY <1>1, <2>1
<1>3. CASE UploadAge
  <2>1. UNCHANGED <<payload, manifests, point, complete, verified, deleting, restoring>>
    BY <1>3 DEF UploadAge, JobStep
  <2>2. todo # {}  BY <1>0, <1>3 DEF UploadAge, Owners, Filing
  <2>3. Digest \in Digests  BY <1>0, <2>2, ItemType
  <2>4. \A d \in Digests : age[d] # Absent => age'[d] = age[d]
    BY <1>0, <1>3, <2>3 DEF Types, UploadAge, Uploads
  <2>5. \A b \in Points : Keys(b) \subseteq Digests  BY <1>0 DEF Types, Keys, Manifest
  <2>6. ASSUME NEW b \in Points, Restorable(b) PROVE Restorable(b)'
    <3>1. \A d \in Keys(b) : age'[d] = age[d]
      BY <2>4, <2>5, <2>6 DEF Restorable, Sound, PointSigned
    <3>2. b \in complete' \cap manifests' \cap payload' /\ point'[b] = point[b]
      BY <2>1, <2>6 DEF Restorable
    <3> QED  BY <2>6, <3>1, <3>2, StaysRestorable
  <2> QED  BY <2>1, <2>6, KeepsAll
<1>4. CASE SignManifest
  <2>1. UNCHANGED <<age, payload, complete, verified, deleting, restoring>>
    BY <1>4 DEF SignManifest, JobStep
  <2>2. started \notin complete
    BY <1>0, <1>4, BoundsAssumption
    DEF SignManifest, Types, Owners, Building, Sound, KnownPoints, Known
  <2>3. \A b \in Points : b # started => point'[b] = point[b]
    BY <1>0, <1>4 DEF Types, SignManifest
  <2>4. ASSUME NEW b \in Points, Restorable(b) PROVE Restorable(b)'
    <3>1. b # started  BY <2>2, <2>4 DEF Restorable
    <3>2. b \in complete' \cap manifests' \cap payload'
      BY <1>4, <2>1, <2>4 DEF Restorable, SignManifest
    <3>3. \A d \in Keys(b) : age'[d] = age[d]  BY <2>1
    <3> QED  BY <2>3, <2>4, <3>1, <3>2, <3>3, StaysRestorable
  <2> QED  BY <2>1, <2>4, KeepsAll
<1>5. CASE Complete
  <2>1. UNCHANGED <<age, payload, manifests, point, verified, deleting, restoring>>
    BY <1>5 DEF Complete
  <2>2. complete' = complete \cup {started}  BY <1>5 DEF Complete
  <2>3. \A b \in Points : Restorable(b) => Restorable(b)'
    BY <2>1, <2>2 DEF Restorable, ValidManifest, Keys
  <2>4. Restorable(started)'
    <3>1. /\ started \in manifests \cap payload
          /\ point[started] = [files |-> inv, cipher |-> got, rows |-> dumped]
      BY <1>5 DEF Complete, Sound, PointSigned
    <3>2. started \in Points /\ ValidManifest(started)
      BY <1>0, <3>1 DEF Types, Sound, NoTwins
    <3>3. \A f \in Files : inv[f] # Absent => age[inv[f]] = got[inv[f]]
      BY <1>5 DEF Complete, Sound, FilesStored
    <3>4. \A d \in Keys(started) : age[d] = point[started].cipher[d]
      BY <3>1, <3>3 DEF Keys
    <3>5. started' = started  BY <1>5 DEF Complete
    <3> QED  BY <2>1, <2>2, <3>1, <3>2, <3>4, <3>5 DEF Restorable, ValidManifest, Keys
  <2>5. \A b \in complete' \ deleting' : Restorable(b)'
    <3>1. \A b \in complete \ deleting : b \in Points /\ Restorable(b)
      BY <1>0 DEF Types, Sound, KeptRestorable, CompletedIsRestorable
    <3>2. \A b : b = started => Restorable(b)'
      BY <1>5, <2>4 DEF Complete, Restorable, ValidManifest, Keys
    <3> QED  BY <2>1, <2>2, <2>3, <3>1, <3>2
  <2>6. verified' # {} => Restorable(Protected)'
    <3>1. verified # {} => Restorable(Protected) /\ Protected \in Points
      BY <1>0, ProtectedIsNewest DEF Sound, KeptRestorable
    <3>2. Protected' = Protected  BY <2>1 DEF Protected
    <3>3. \A b : b = Protected /\ b \in Points /\ Restorable(b) => Restorable(Protected)'
      BY <2>3, <3>2 DEF Restorable, ValidManifest, Keys
    <3> QED  BY <2>1, <3>1, <3>3
  <2>7. restoring' = 0
    <3>1. phase # "idle"  BY <1>5 DEF Complete
    <3> QED  BY <2>1, <3>1, RunsAlone
  <2> QED  BY <2>5, <2>6, <2>7 DEF KeptRestorable, CompletedIsRestorable
<1>6. CASE Builder /\ ~UploadAge /\ ~SignManifest /\ ~Complete
  <2>1. /\ UNCHANGED <<age, manifests, point, complete, verified, deleting>>
        /\ payload \subseteq payload' /\ restoring' = restoring
    BY <1>6 DEF Builder, Inventory, Probe, Reuse, Stage, UploadMeta, RecordFile,
       Disturbed, FilesPublished, Dump, JobStep
  <2> QED  BY <1>1, <2>1
<1>7. ASSUME NEW p \in Points, Preflight(p) PROVE KeptRestorable'
  <2>1. UNCHANGED <<age, payload, manifests, point, complete, verified, deleting>>
    BY <1>7 DEF Preflight
  <2>2. restoring' = p /\ Restorable(p)  BY <1>7 DEF Preflight
  <2>3. Restorable(restoring)'  BY <2>1, <2>2 DEF Restorable, ValidManifest, Keys
  <2>4. CompletedIsRestorable' /\ (verified' # {} => Restorable(Protected)')
    BY <2>1
    DEF Sound, KeptRestorable, CompletedIsRestorable, Restorable, ValidManifest, Keys,
        Protected
  <2> QED  BY <2>3, <2>4 DEF KeptRestorable
<1>8. CASE ExternalReady
  <2>1. UNCHANGED <<age, payload, manifests, point, complete, deleting>>
    BY <1>8 DEF ExternalReady
  <2>2. restoring' = 0 /\ verified' = verified \cup {restoring} /\ Restorable(restoring)
    BY <1>8 DEF ExternalReady, Sound, KeptRestorable
  <2>3. CompletedIsRestorable'
    BY <2>1 DEF Sound, KeptRestorable, CompletedIsRestorable, Restorable, ValidManifest, Keys
  <2>4. \A b : Restorable(b) => Restorable(b)'  BY <2>1 DEF Restorable, ValidManifest, Keys
  <2>5. verified' \in SUBSET Points /\ verified' # {} /\ verified \in SUBSET Points
    BY <1>0, <2>2 DEF Types
  <2>6. PICK m : m = Max(verified')  OBVIOUS
  <2>7. m \in verified' /\ \A b \in verified' : b <= m
    <3>1. MaxPoints \in Nat /\ verified' \in SUBSET (1..MaxPoints)
      BY <2>5, BoundsAssumption DEF Points
    <3> QED  BY <2>5, <2>6, <3>1, MaxIsGreatest
  <2>8. Restorable(m)
    <3>1. CASE m = restoring  BY <2>2, <3>1
    <3>2. CASE m \in verified
      <4>1. \A b \in verified : b <= m  BY <2>2, <2>7
      <4>2. Max(verified) = m  BY <2>5, <3>2, <4>1, NewestIs
      <4>3. Protected = m  BY <3>2, <4>2 DEF Protected
      <4> QED  BY <3>2, <4>3 DEF Sound, KeptRestorable
    <3> QED  BY <2>2, <2>7, <3>1, <3>2
  <2>9. Protected' = m  BY <2>5, <2>6 DEF Protected
  <2>10. Restorable(Protected)'
    <3>1. Restorable(m)'  BY <2>4, <2>8
    <3> QED  BY <2>4, <2>8, <2>9 DEF Restorable, ValidManifest, Keys
  <2> QED  BY <2>2, <2>3, <2>10 DEF KeptRestorable
<1>9. CASE RotateApplies
  <2>1. PICK t \in plan : (\A u \in plan : Precedes(t, u)) /\ Handles(t)
    BY <1>9 DEF RotateApplies
  <2>2. /\ Protected' = Protected /\ (verified # {} <=> verified' # {})
        /\ verified # {} => t.point # Protected
        /\ \A b \in complete' \ deleting' :
               b \in complete \ deleting /\ (b = t.point => t.what = "journal")
    BY <2>1, TurnSpares
  <2>3. /\ t.what = "age" => \A b \in complete : t.digest \in Keys(b) => b \in deleting
        /\ t.what = "age" => (verified # {} => t.digest \notin Keys(Protected))
    BY <2>1, TurnOf DEF Sound, PlanSafe
  <2>4. \A b \in Points : Keys(b) \subseteq Digests  BY <1>0 DEF Types, Keys, Manifest
  <2>5. ASSUME NEW b \in Points, Restorable(b), b = t.point => t.what = "journal",
               t.what = "age" => t.digest \notin Keys(b)
        PROVE  Restorable(b)'
    <3>1. b \in complete' \cap manifests' \cap payload' /\ point'[b] = point[b]
      BY <1>0, <2>1, <2>5 DEF Types, Restorable, Handles, Without
    <3>2. \A d \in Keys(b) : age'[d] = age[d]
      BY <1>0, <2>1, <2>4, <2>5 DEF Types, Handles, Erased
    <3> QED  BY <2>5, <3>1, <3>2, StaysRestorable
  <2>6. ASSUME NEW b \in complete' \ deleting' PROVE Restorable(b)'
    <3>1. b \in complete \ deleting /\ (b = t.point => t.what = "journal")  BY <2>2
    <3>2. b \in Points /\ Restorable(b)
      BY <1>0, <3>1 DEF Types, Sound, KeptRestorable, CompletedIsRestorable
    <3>3. t.what = "age" => t.digest \notin Keys(b)  BY <2>3, <3>1
    <3> QED  BY <2>5, <3>1, <3>2, <3>3
  <2>7. ASSUME verified # {} PROVE Restorable(Protected)'
    <3>1. Protected \in Points /\ Restorable(Protected)
      BY <1>0, <2>7, ProtectedIsNewest DEF Sound, KeptRestorable
    <3>2. PICK b \in Points : b = Protected  BY <3>1
    <3>3. Restorable(b)'  BY <2>2, <2>3, <2>5, <2>7, <3>1, <3>2
    <3> QED  BY <2>2, <3>2, <3>3 DEF Restorable, ValidManifest, Keys
  <2>8. restoring' = 0
    <3>1. rot # "idle" /\ restoring' = restoring  BY <1>9 DEF RotateApplies
    <3> QED  BY <3>1, RunsAlone
  <2> QED  BY <2>2, <2>6, <2>7, <2>8 DEF KeptRestorable, CompletedIsRestorable
<1>10. CASE RestoreFails \/ (Rotator /\ ~RotateApplies) \/ Environment \/ UNCHANGED vars
  <2>1. /\ UNCHANGED <<age, manifests, point, complete, verified, deleting>>
        /\ payload \subseteq payload' /\ restoring' \in {0, restoring}
    BY <1>10, EnvironmentKeeps
    DEF RestoreFails, Rotator, RotateReads, RotateDecides, RotateEnds, vars
  <2> QED  BY <1>1, <2>1
<1> QED  BY <1>2, <1>3, <1>4, <1>5, <1>6, <1>7, <1>8, <1>9, <1>10 DEF Next, Restorer

-----------------------------------------------------------------------------
(* What is planned. *)

\* What a plan must contain about a point before its manifest may go.
LEMMA PlannedHas ==
    ASSUME TRUE
    PROVE  /\ \A b \in Doomed : Target(0, b, "journal") \in Planned
           /\ \A b \in read.journaled : Target(1, b, "complete") \in Planned
           /\ \A b \in Doomed : Target(2, b, "complete") \in Planned
           /\ \A b \in read.journaled : b \in verified /\ b # Protected =>
                  Target(1, b, "verified") \in Planned
           /\ \A b \in Doomed : b \in verified /\ b # Protected =>
                  Target(2, b, "verified") \in Planned
<1>1. \A i, b, r : Target(i, b, "complete") \in DeleteTargets(i, b, r)  BY DEF DeleteTargets
<1>2. \A i, b, r : b \in verified /\ b # Protected =>
          Target(i, b, "verified") \in DeleteTargets(i, b, r)
  BY DEF DeleteTargets
<1> QED  BY <1>1, <1>2 DEF Planned

\* The plan of a rotation that read the current markers.
LEMMA PlannedSafe ==
    ASSUME Base, Sound, rot = "read", VerifiedBound, RotateDecides
    PROVE  PlanSafe'
<1> USE DEF site, host, cas, objects, markers, job, rotator
<1>0. Types  BY DEF Base
<1>1. /\ rot' = "apply" /\ plan' = Planned
      /\ UNCHANGED <<point, manifests, complete, verified, deleting>>
  BY DEF RotateDecides
<1>2. /\ read.complete = complete /\ read.journaled = deleting \cap manifests
      /\ read.finalizing = deleting \ manifests
  BY DEF Sound, ReadCurrent
<1>3. /\ complete \subseteq manifests
      /\ \A b \in read.finalizing : b \notin complete \cup verified
  BY <1>2 DEF Sound, RotationCanResume, RecordsValid
<1>4. Doomed \subseteq complete \ read.journaled /\ \A b \in Doomed : b # Protected
  BY <1>2 DEF Doomed, Live, Decision
<1>5. Protected' = Protected /\ \A b : Keys(b)' = Keys(b)  BY <1>1 DEF Protected, Keys
<1>6. \A b \in deleting \cup Doomed : Journaled(b)'
  BY <1>1, PlannedHas DEF Journaled, Target
<1>7. verified # {} => Protected \in Live \ Doomed /\ Protected \notin read.finalizing
  <2> SUFFICES ASSUME verified # {}
      PROVE  Protected \in Live \ Doomed /\ Protected \notin read.finalizing
    OBVIOUS
  <2>1. Protected \in verified  BY <1>0, ProtectedIsNewest
  <2> QED  BY <1>2, <1>3, <1>4, <2>1 DEF VerifiedBound, Live
<1>8. /\ read.complete \subseteq Points /\ Doomed \subseteq Points
      /\ read.journaled \subseteq Points /\ read.finalizing \subseteq Points
  BY <1>0 DEF Types, Live, Doomed
<1> DEFINE ref == Referenced(Live \ Doomed)
           Of(t, i, S) == /\ t.round = i /\ t.point \in S /\ t.what # "journal"
                          /\ t.what = "age" => t.digest \notin ref
<1>9. ASSUME NEW t \in Planned
      PROVE  \/ t.round = 0 /\ t.what = "journal" /\ t.point \in Doomed
             \/ Of(t, 1, read.journaled)
             \/ Of(t, 2, Doomed)
             \/ t.round = 3 /\ t.what = "deleting" /\ t.point \in read.finalizing
  <2>1. ASSUME NEW b \in Doomed, t = Target(0, b, "journal")
        PROVE  t.round = 0 /\ t.what = "journal" /\ t.point \in Doomed
    BY <2>1 DEF Target
  <2>2. ASSUME NEW b \in read.finalizing, t = Target(3, b, "deleting")
        PROVE  t.round = 3 /\ t.what = "deleting" /\ t.point \in read.finalizing
    BY <2>2 DEF Target
  <2>3. ASSUME NEW b \in Points, NEW i \in {1, 2}, NEW S, b \in S, t \in DeleteTargets(i, b, ref)
        PROVE  Of(t, i, S)
    <3>1. i \in 0..3  OBVIOUS
    <3> HIDE DEF ref
    <3> QED  BY <1>0, <2>3, <3>1, DeleteTargetsType
  <2>4. CASE \E b \in read.journaled : t \in DeleteTargets(1, b, ref)
    BY <1>8, <2>3, <2>4
  <2>5. CASE \E b \in Doomed : t \in DeleteTargets(2, b, ref)
    BY <1>8, <2>3, <2>5
  <2> QED  BY <2>1, <2>2, <2>4, <2>5, PlannedTargets
<1>10. ASSUME NEW d, d \notin ref
       PROVE  /\ \A b \in complete : d \in Keys(b) => Journaled(b)'
              /\ verified # {} => d \notin Keys(Protected)
  <2>1. \A b \in Live \ Doomed : d \notin Keys(b)  BY <1>10 DEF Referenced
  <2>2. \A b \in complete : b \in Live \ Doomed \/ b \in deleting \cup Doomed
    BY <1>2 DEF Live
  <2> QED  BY <1>6, <1>7, <2>1, <2>2
<1> HIDE DEF ref
<1>11. \A t \in Planned :
          /\ t.what = "journal" <=> t.round = 0
          /\ t.what \in {"journal"} => t.point \in manifests
          /\ t.point \in deleting \cup Doomed
          /\ verified # {} => t.point # Protected
          /\ t.what \notin {"journal", "deleting"} => t.point \in manifests
          /\ t.what = "age" => t.digest \notin ref
  <2>1. \A b \in read.journaled : b \in deleting /\ b \in manifests /\ b # Protected
    BY <1>2 DEF VerifiedBound
  <2>2. \A b \in Doomed : b \in manifests /\ b # Protected  BY <1>3, <1>4
  <2>3. \A b \in read.finalizing : b \in deleting /\ (verified # {} => b # Protected)
    BY <1>2, <1>7
  <2> QED  BY <1>9, <2>1, <2>2, <2>3
<1>12. ASSUME NEW t \in Planned, t.what \in {"manifest", "deleting"}
       PROVE  /\ t.point \in complete => Waits(t, "complete")'
              /\ t.point \in verified => Waits(t, "verified")'
  <2>1. CASE Of(t, 1, read.journaled)
    <3>1. t.point # Protected  BY <2>1 DEF VerifiedBound
    <3> QED  BY <1>1, <2>1, <3>1, PlannedHas DEF Waits, Target
  <2>2. CASE Of(t, 2, Doomed)
    <3>1. t.point # Protected  BY <1>4, <2>2
    <3> QED  BY <1>1, <2>2, <3>1, PlannedHas DEF Waits, Target
  <2>3. CASE t.point \in read.finalizing  BY <1>3, <2>3
  <2> QED  BY <1>9, <1>12, <2>1, <2>2, <2>3
<1>13. \A t, u \in Planned : t.point = u.point /\ 0 \notin {t.round, u.round} => t.round = u.round
  <2>1. /\ \A b \in read.journaled : b \notin Doomed /\ b \notin read.finalizing
        /\ \A b \in read.finalizing : b \notin Doomed
    BY <1>2, <1>3, <1>4
  <2> QED  BY <1>9, <2>1
<1>14. \A t \in Planned : t.what = "age" =>
          /\ \A b \in complete' : t.digest \in Keys(b)' => Journaled(b)'
          /\ verified' # {} => t.digest \notin Keys(Protected)'
  <2>1. Keys(Protected)' = Keys(Protected)  BY <1>1, <1>5 DEF Keys
  <2> QED  BY <1>1, <1>5, <1>10, <1>11, <2>1
<1> HIDE DEF Of
<1>15. \A t \in plan' :
          /\ t.what = "journal" <=> t.round = 0
          /\ t.what = "journal" => t.point \in manifests'
          /\ Journaled(t.point)'
          /\ verified' # {} => t.point # Protected'
          /\ t.what \notin {"journal", "deleting"} => t.point \in manifests'
          /\ t.what \in {"manifest", "deleting"} =>
                /\ t.point \in complete' => Waits(t, "complete")'
                /\ t.point \in verified' => Waits(t, "verified")'
  <2> SUFFICES ASSUME NEW t \in plan'
      PROVE
          /\ t.what = "journal" <=> t.round = 0
          /\ t.what = "journal" => t.point \in manifests'
          /\ Journaled(t.point)'
          /\ verified' # {} => t.point # Protected'
          /\ t.what \notin {"journal", "deleting"} => t.point \in manifests'
          /\ t.what \in {"manifest", "deleting"} =>
                /\ t.point \in complete' => Waits(t, "complete")'
                /\ t.point \in verified' => Waits(t, "verified")'
    OBVIOUS
  <2>1. t \in Planned  BY <1>1
  <2>2. Journaled(t.point)'  BY <1>6, <1>11, <2>1
  <2> QED  BY <1>1, <1>5, <1>11, <1>12, <2>1, <2>2
<1> QED  BY <1>1, <1>13, <1>14, <1>15 DEF PlanSafe

\* Handling the target whose turn it is leaves a plan that is as safe.
LEMMA AppliedSafe ==
    ASSUME Base, Sound, NEW t \in plan, \A u \in plan : Precedes(t, u), Handles(t),
           UNCHANGED rot, rot = "apply"
    PROVE  PlanSafe'
<1>0. Types  BY DEF Base
<1>1. plan' = plan \ {t} /\ \A u \in plan' : u \in plan /\ u # t  BY DEF Handles
<1>2. /\ t.what # "journal" => \A u \in plan : u.what # "journal"
      /\ t.what \in {"manifest", "deleting"} => t.point \notin complete \cup verified
      /\ \A u \in plan : t.point = u.point /\ 0 \notin {t.round, u.round}
             => u.round = t.round /\ Rank[t.what] <= Rank[u.what]
  BY TurnOf
<1>3. /\ Protected' = Protected /\ (verified # {} <=> verified' # {})
      /\ verified # {} => t.point # Protected
  BY TurnSpares
<1>4. \A u \in plan : u \in Targets /\ (u.what = "journal" <=> u.round = 0)
                      /\ (u.what \in {"age", "meta"} <=> u.digest # Absent)
  BY <1>0 DEF Types, Sound, PlanSafe
<1>5. ASSUME NEW u \in plan', t.point = u.point, t.what \in {"manifest", "deleting"}
      PROVE  t.what = "manifest" /\ u.what = "deleting"
  <2>1. u \in plan /\ t.round # 0 /\ u.round # 0  BY <1>1, <1>2, <1>4, <1>5
  <2>2. u.round = t.round /\ Rank[t.what] <= Rank[u.what]  BY <1>2, <1>5, <2>1
  <2>3. u.what = t.what \/ (t.what = "manifest" /\ u.what = "deleting")
    BY <1>4, <1>5, <2>1, <2>2 DEF Targets, Rank
  <2>4. u.what = t.what => u.digest = t.digest  BY <1>4, <1>5, <2>1
  <2>5. u.what # t.what
    <3>1. /\ t = [round |-> t.round, point |-> t.point, digest |-> t.digest, what |-> t.what]
          /\ u = [round |-> u.round, point |-> u.point, digest |-> u.digest, what |-> u.what]
      BY <1>4, <2>1 DEF Targets
    <3> QED  BY <1>1, <1>5, <2>2, <2>4, <3>1
  <2> QED  BY <2>3, <2>5
<1>6. \A b : Journaled(b) /\ (t.what = "deleting" => b # t.point) => Journaled(b)'
  <2>1. \A b : t = Target(0, b, "journal") => t.what = "journal" /\ t.point = b
    BY DEF Target
  <2>2. \A b : Target(0, b, "journal") = Target(0, b, "journal")'  BY DEF Target
  <2> QED  BY <1>1, <2>1, <2>2 DEF Journaled, Handles, Journals, Without
<1>7. /\ \A b \in complete' \cup verified' : Keys(b)' = Keys(b)
      /\ verified # {} => Keys(Protected)' = Keys(Protected)
  <2>1. \A b \in Points : (t.what = "manifest" /\ b = t.point) \/ point'[b] = point[b]
    BY <1>0 DEF Types, Handles
  <2>2. /\ complete' \cup verified' \subseteq complete \cup verified
        /\ complete \cup verified \subseteq Points
    BY <1>0 DEF Types, Handles, Without
  <2>3. \A b \in complete' \cup verified' : point'[b] = point[b]  BY <1>2, <2>1, <2>2
  <2>4. verified # {} => point'[Protected] = point[Protected]
    BY <1>0, <1>3, <2>1, ProtectedIsNewest
  <2>5. verified # {} => point[Protected]' = point[Protected]  BY <1>3, <2>4
  <2> QED  BY <2>3, <2>5 DEF Keys
<1>8. ASSUME NEW u \in plan', u.what \in {"manifest", "deleting"},
             NEW what \in {"complete", "verified"}, Waits(u, what),
             what = "complete" => u.point \in complete',
             what = "verified" => u.point \in verified'
      PROVE  Waits(u, what)'
  <2>1. /\ Target(u.round, u.point, what) \in plan
        /\ Target(u.round, u.point, what)' = Target(u.round, u.point, what)
    BY <1>8 DEF Waits, Target
  <2>2. t = Target(u.round, u.point, what) => t.what = what /\ t.point = u.point
    BY DEF Target
  <2>3. t # Target(u.round, u.point, what)  BY <1>8, <2>2 DEF Handles, Without
  <2> QED  BY <1>1, <2>1, <2>3 DEF Waits
<1>9. ASSUME NEW u \in plan'
      PROVE  /\ u.what = "journal" <=> u.round = 0
             /\ u.what = "journal" => u.point \in manifests'
             /\ Journaled(u.point)'
             /\ verified' # {} => u.point # Protected'
             /\ u.what \notin {"journal", "deleting"} => u.point \in manifests'
  <2>1. /\ u \in plan /\ Journaled(u.point)
        /\ u.what = "journal" <=> u.round = 0
        /\ u.what = "journal" => u.point \in manifests
        /\ verified # {} => u.point # Protected
        /\ u.what \notin {"journal", "deleting"} => u.point \in manifests
    BY <1>1 DEF Sound, PlanSafe
  <2>2. t.what = "manifest" /\ t.point = u.point => u.what = "deleting"  BY <1>5
  <2>3. t.what = "deleting" => t.point # u.point  BY <1>5
  <2>4. Journaled(u.point)'  BY <1>6, <2>1, <2>3
  <2>5. u.point \in manifests => u.point \in manifests' \/ u.what = "deleting"
    BY <2>2 DEF Handles, Without
  <2> QED  BY <1>3, <2>1, <2>4, <2>5
<1>10. ASSUME NEW u \in plan', u.what \in {"manifest", "deleting"}
       PROVE  /\ u.point \in complete' => Waits(u, "complete")'
              /\ u.point \in verified' => Waits(u, "verified")'
  <2>1. complete' \subseteq complete /\ verified' \subseteq verified
    BY DEF Handles, Without
  <2>2. /\ u.point \in complete => Waits(u, "complete")
        /\ u.point \in verified => Waits(u, "verified")
    BY <1>1, <1>10 DEF Sound, PlanSafe
  <2> QED  BY <1>8, <1>10, <2>1, <2>2
<1>11. ASSUME NEW u \in plan', u.what = "age"
       PROVE  /\ \A b \in complete' : u.digest \in Keys(b)' => Journaled(b)'
              /\ verified' # {} => u.digest \notin Keys(Protected)'
  <2>1. complete' \subseteq complete  BY DEF Handles, Without
  <2>2. /\ \A b \in complete : u.digest \in Keys(b) => Journaled(b)
        /\ verified # {} => u.digest \notin Keys(Protected)
    BY <1>1, <1>11 DEF Sound, PlanSafe
  <2> QED  BY <1>2, <1>3, <1>6, <1>7, <2>1, <2>2
<1>12. \A u, v \in plan' : u.point = v.point /\ 0 \notin {u.round, v.round} => u.round = v.round
  BY <1>1 DEF Sound, PlanSafe
<1> QED  BY <1>9, <1>10, <1>11, <1>12 DEF PlanSafe

\* A plan is safe when it is made and stays so until the last target.
LEMMA PlanNext ==
    ASSUME ~Overlap, Base, Sound, [Next]_vars
    PROVE  PlanSafe'
<1> USE DEF site, host, cas, objects, markers, job, rotator
<1>1. CASE plan' = {}  BY <1>1 DEF PlanSafe
<1>2. CASE Orchestrator \/ Builder \/ Restorer  BY <1>1, <1>2, OthersNotRotating
<1>3. CASE Environment \/ UNCHANGED vars
  <2>1. UNCHANGED <<point, manifests, complete, verified, deleting, rot, plan>>
    BY <1>3, EnvironmentKeeps DEF vars
  <2> QED  BY <2>1 DEF Sound, PlanSafe, Journaled, Waits, Keys, Protected, Target
<1>4. CASE RotateReads
  BY <1>1, <1>4 DEF RotateReads, Sound, PlanSafe
<1>5. CASE RotateDecides
  <2>1. rot = "read" /\ plan = {}  BY <1>5 DEF RotateDecides, Sound, PlanSafe
  <2>2. CASE VerifiedBound  BY <1>5, <2>1, <2>2, PlannedSafe
  <2>3. CASE ~VerifiedBound  BY <1>1, <1>5, <2>1, <2>3 DEF RotateDecides
  <2> QED  BY <2>2, <2>3
<1>6. CASE RotateApplies
  <2>1. PICK t \in plan : (\A u \in plan : Precedes(t, u)) /\ Handles(t)
    BY <1>6 DEF RotateApplies
  <2> QED  BY <1>6, <2>1, AppliedSafe DEF RotateApplies
<1>7. CASE RotateEnds  BY <1>1, <1>7 DEF RotateEnds
<1> QED  BY <1>2, <1>3, <1>4, <1>5, <1>6, <1>7 DEF Next, Rotator

-----------------------------------------------------------------------------
(* Theorems. *)

\* Nothing is stored, nobody runs.
LEMMA BaseInit ==
    ASSUME Init
    PROVE  Base
<1> USE BoundsAssumption DEF Init, NoFiles, NoObjects, NoPoint, NotSeen, NotRead
<1>1. Flags  BY Zenon DEF Flags
<1>2. NoPoint \in Manifest  BY DEF Manifest, Stored
<1>3. Types  BY <1>2 DEF Types, Stored, Phases
<1>4. Owners  BY DEF Owners, Building, Filing
<1>5. PointsBacked  BY DEF PointsBacked, Building, Filing
<1> QED  BY <1>1, <1>3, <1>4, <1>5 DEF Base

\* Nothing is stored, nothing is planned.
LEMMA SoundInit ==
    ASSUME Init
    PROVE  Sound
<1> USE DEF Init, NoFiles, NoObjects, NoPoint, NotSeen, NotRead
<1>1. KnownPoints  BY DEF KnownPoints
<1>2. NoTwins  BY DEF NoTwins, Injective, ValidManifest
<1>3. FilesStored  BY DEF FilesStored
<1>4. PointSigned  BY DEF PointSigned, Keys
<1>5. KeptRestorable  BY DEF KeptRestorable, CompletedIsRestorable
<1>6. ReadCurrent  BY DEF ReadCurrent
<1>7. PlanSafe  BY DEF PlanSafe
<1>8. RotationCanResume  BY DEF RotationCanResume, RecordsValid
<1> QED  BY <1>1, <1>2, <1>3, <1>4, <1>5, <1>6, <1>7, <1>8 DEF Sound

\* The part of the inductive invariant that needs no hypothesis.
THEOREM BaseInvariant == Spec => []Base
<1>1. Init => Base  BY BaseInit
<1>2. Base /\ [Next]_vars => Base'
  BY FlagsNext, TypesNext, OwnersNext, BackedNext DEF Base
<1> QED  BY <1>1, <1>2, PTL DEF Spec

\* The site, the store and the scripts keep their types; a free lease means that no
\* backup and no restore is under way (backup-run.sh, restore-run.sh).
THEOREM TypeCorrect == Spec => []TypeOK
<1>1. Base => TypeOK
  <2> SUFFICES ASSUME Base PROVE TypeOK  OBVIOUS
  <2>1. Flags /\ Types /\ Owners  BY DEF Base
  <2>2. app \in BOOLEAN /\ alerted \in BOOLEAN  BY <2>1 DEF Flags
  <2>3. needs => kind = "finalize"  BY <2>1 DEF Owners
  <2>4. lease = "none" => phase = "idle" /\ restoring = 0  BY <2>1 DEF Owners
  <2> QED  BY <2>1, <2>2, <2>3, <2>4 DEF Types, TypeOK, Stored
<1> QED  BY <1>1, BaseInvariant, PTL

\* The dump of a completed point refers only to files of the same point, although the
\* application can be started in the middle of the window (assert_quiescent, the
\* monitor of run_finalizer_with_deadline).
THEOREM DumpsWithinPoints == Spec => []DumpWithinPoint
<1>1. Base => DumpWithinPoint  BY DEF Base, Types, PointsBacked, DumpWithinPoint
<1> QED  BY <1>1, BaseInvariant, PTL

\* The part that needs rotation to run alone.
LEMMA SoundNext ==
    ASSUME ~Overlap, ~Residue, Base, Sound, [Next]_vars, Base'
    PROVE  Sound'
<1>1. KnownPoints' /\ NoTwins' /\ FilesStored' /\ PointSigned'
  BY KnownNext, TwinsNext, StoredNext, SignedNext
<1>2. Types'  BY DEF Base
<1>3. KeptRestorable' /\ ReadCurrent' /\ PlanSafe' /\ RotationCanResume'
  BY <1>1, <1>2, KeptNext, ReadNext, PlanNext, ResumeNext
<1> QED  BY <1>1, <1>3 DEF Sound

\* The inductive invariant holds in every reachable state.
THEOREM SoundInvariant ==
    ASSUME ~Overlap, ~Residue
    PROVE  Spec => [](Base /\ Sound)
<1>1. Init => Base /\ Sound  BY BaseInit, SoundInit
<1>2. Base /\ Sound /\ [Next]_vars => Base' /\ Sound'
  BY FlagsNext, TypesNext, OwnersNext, BackedNext, SoundNext DEF Base
<1> QED  BY <1>1, <1>2, PTL DEF Spec

\* A completed point whose deletion is not journaled passes the preflight of a
\* restore, after any failures of backups, restores and rotations (BackupBuilder,
\* deletion_targets, rotate.py).
THEOREM CompletedRestorable ==
    ASSUME ~Overlap, ~Residue
    PROVE  Spec => []CompletedIsRestorable
<1>1. Sound => CompletedIsRestorable  BY DEF Sound, KeptRestorable
<1> QED  BY <1>1, SoundInvariant, PTL

\* Whatever an interrupted rotation left behind passes the validation of the next
\* one (the order of the deletion targets).
THEOREM RotationResumes ==
    ASSUME ~Overlap, ~Residue
    PROVE  Spec => []RotationCanResume
<1>1. Sound => RotationCanResume  BY DEF Sound
<1> QED  BY <1>1, SoundInvariant, PTL

\* Once a point was verified, no step leaves the store without a verified point that
\* can be restored (protected_backup_id).
THEOREM VerifiedKept ==
    ASSUME ~Overlap, ~Residue
    PROVE  Spec => VerifiedPointKept
<1> DEFINE Keeps == verified # {} => \E b \in verified' : Restorable(b)'
<1>1. ASSUME Base, Sound, Base', Sound', [Next]_vars PROVE [Keeps]_vars
  <2> USE DEF site, host, cas, objects, markers, job, rotator
  <2> SUFFICES ASSUME verified # {} PROVE \E b \in verified' : Restorable(b)'  OBVIOUS
  <2>1. verified' # {}
    <3>1. CASE RotateApplies
      <4>1. PICK t \in plan : (\A u \in plan : Precedes(t, u)) /\ Handles(t)
        BY <3>1 DEF RotateApplies
      <4> QED  BY <1>1, <4>1, TurnSpares
    <3>2. CASE ~RotateApplies
      <4>1. verified \subseteq verified'
        BY <1>1, <3>2 DEF Next, Orchestrator, StartPrecopy, StartFinalize, StopApp, Quiesce,
           MonitorKills, JobFails, RestartApp, Cleanup, Builder, Inventory, Probe, Reuse, Stage,
           UploadAge, UploadMeta, RecordFile, Disturbed, FilesPublished, Dump, SignManifest,
           Complete, JobStep, Restorer, Preflight, ExternalReady, RestoreFails, Rotator,
           RotateReads, RotateDecides, RotateEnds, Environment, AppWrites, AppCommits,
           AppStartsUnasked, OperatorStarts, Expire, vars
      <4> QED  BY <4>1
    <3> QED  BY <3>1, <3>2
  <2>2. Restorable(Protected)'  BY <1>1, <2>1 DEF Sound, KeptRestorable
  <2>3. Protected' \in verified'
    <3>1. verified' \in SUBSET (1..MaxPoints) /\ MaxPoints \in Nat
      BY <1>1, BoundsAssumption DEF Base, Types, Points
    <3>2. Max(verified') \in verified'  BY <2>1, <3>1, MaxIsGreatest
    <3> QED  BY <2>1, <3>2 DEF Protected
  <2>4. PICK b \in verified' : b = Protected'  BY <2>3
  <2>5. Restorable(b)'  BY <2>2, <2>4 DEF Restorable, ValidManifest, Keys
  <2> QED  BY <2>5
<1>2. Base /\ Sound /\ (Base /\ Sound)' /\ [Next]_vars => [Keeps]_vars  BY <1>1
<1> QED  BY <1>2, SoundInvariant, PTL DEF Spec, VerifiedPointKept

=============================================================================
