----------------------------- MODULE BackupStore -----------------------------
(***************************************************************************)
(* Recovery points in the remote store: backup-run.sh with the             *)
(* BackupBuilder that fills it (precopy beside the running application,    *)
(* finalize in the nightly stop window), the restore that verifies a point *)
(* and the authorized rotation that deletes expired points.                *)
(*                                                                         *)
(* File contents are stored once, under their SHA-256, as a ciphertext     *)
(* (.age) and its metadata (.json).  age encrypts with a fresh key, so two *)
(* encryptions of one content are two different ciphertexts; a ciphertext  *)
(* is a number that nothing else in the system holds when it is made.      *)
(* A recovery point adds its database dump and configuration (one object   *)
(* here), a signed manifest and, last, a completion marker.                *)
(***************************************************************************)
EXTENDS Naturals, FiniteSetsExt

CONSTANTS
    Pdfs,          \* paths of formal PDF files, which rows refer to
    Images,        \* paths below qrcodes/, cached images and their residues
    Digests,       \* SHA-256 values, ordered
    MaxPoints,     \* bound: finalizer runs that obtain a backup_id
    MaxFaults,     \* bound: failing or interrupted commands
    Overlap,       \* does rotate.py run beside an owner of the lease?
    Residue        \* can two images hold the same bytes?

Files     == Pdfs \cup Images
Points    == 1..MaxPoints
Absent    == 0
Cipher    == 1..(MaxPoints + 4)

ASSUME FilesAssumption == Files \subseteq Nat /\ Pdfs \cap Images = {}
ASSUME DigestsAssumption == Digests \subseteq Nat \ {0}
ASSUME BoundsAssumption == MaxPoints \in Nat /\ MaxFaults \in Nat
ASSUME FlagsAssumption == {Overlap, Residue} \subseteq BOOLEAN

VARIABLES
    \* the site
    source,        \* content of every path of the file volume
    rows,          \* PDF paths that rows of the database refer to
    app,           \* is the application container running?
    alerted,       \* a critical alert is open
    lease,         \* owner of the PR2A lock directory
    \* the remote store
    age, meta,     \* ciphertext under a digest, ciphertext its metadata names
    payload,       \* points whose dump and configuration are stored
    manifests,     \* points whose manifest is stored
    point,         \* what the manifest of a point says
    complete, verified, deleting,   \* markers and journals, by backup_id
    expired,       \* points past every generation's cutoff
    \* backup-run.sh and BackupBuilder
    kind, phase,
    needs,         \* app_needs_recovery
    staged,        \* the local publication checkpoint of a digest
    inv,           \* the inventory
    todo,          \* files of the inventory not published yet
    saw,           \* age_exists and meta_exists
    got,           \* ciphertexts of the published files
    dumped,        \* rows in the dump
    started,       \* backup ids handed out
    \* restore-run.sh
    restoring,
    \* rotate.py
    rot, read, plan,
    faults

site    == <<source, rows>>
host    == <<app, alerted>>
cas     == <<age, meta>>
objects == <<payload, manifests, point>>
markers == <<complete, verified, deleting>>
job     == <<kind, phase, needs, staged, inv, todo, saw, got, dumped, started>>
rotator == <<rot, read, plan>>
vars    == <<site, host, lease, cas, objects, markers, expired, job, restoring,
             rotator, faults>>

NoFiles   == [f \in Files |-> Absent]
NoObjects == [d \in Digests |-> Absent]
NoPoint   == [files |-> NoFiles, cipher |-> NoObjects, rows |-> {}]
NotSeen   == [age |-> FALSE, meta |-> FALSE]
NotRead   == [complete |-> {}, journaled |-> {}, finalizing |-> {}]

Init ==
    /\ source = NoFiles /\ rows = {}
    /\ app = TRUE /\ alerted = FALSE
    /\ lease = "none"
    /\ age = NoObjects /\ meta = NoObjects
    /\ payload = {} /\ manifests = {} /\ point = [b \in Points |-> NoPoint]
    /\ complete = {} /\ verified = {} /\ deleting = {}
    /\ expired = {}
    /\ kind = "none" /\ phase = "idle" /\ needs = FALSE
    /\ staged = NoObjects /\ inv = NoFiles /\ todo = {}
    /\ saw = NotSeen
    /\ got = NoObjects /\ dumped = {} /\ started = 0
    /\ restoring = 0
    /\ rot = "idle" /\ read = NotRead /\ plan = {}
    /\ faults = 0

\* A command fails, is cut off, or somebody interferes.
Fault == faults < MaxFaults /\ faults' = faults + 1

-----------------------------------------------------------------------------
(* The running application.  A formal PDF is written once, before a row    *)
(* refers to it; an image is drawn again when the name of its product      *)
(* changes.  The application stops writing when its container stops.       *)

\* With Residue, a crash between mkstemp and os.replace leaves the bytes of
\* an image under a random name, and the next request draws them again.
AppWrites(f, d) ==
    /\ app
    /\ f \in Pdfs => source[f] = Absent
    /\ source[f] # d
    /\ \A g \in Files : source[g] = d => Residue /\ {f, g} \subseteq Images
    /\ source' = [source EXCEPT ![f] = d]
    /\ UNCHANGED <<rows, host, lease, cas, objects, markers, expired, job,
                   restoring, rotator, faults>>

AppCommits(f) ==
    /\ app
    /\ f \in Pdfs \ rows /\ source[f] # Absent
    /\ rows' = rows \cup {f}
    /\ UNCHANGED <<source, host, lease, cas, objects, markers, expired, job,
                   restoring, rotator, faults>>

\* Somebody starts the application in the middle of a stop window.
AppStartsUnasked ==
    /\ ~app /\ kind = "finalize" /\ Fault
    /\ app' = TRUE
    /\ UNCHANGED <<site, alerted, lease, cas, objects, markers, expired, job,
                   restoring, rotator>>

\* An operator answers the critical alert and starts the application.
OperatorStarts ==
    /\ alerted /\ phase = "idle"
    /\ app' = TRUE /\ alerted' = FALSE
    /\ UNCHANGED <<site, lease, cas, objects, markers, expired, job, restoring,
                   rotator, faults>>

\* Time passes.  A point leaves the daily, weekly and monthly windows for
\* good, and an older monthly point may outlive a newer daily one.
Expire(b) ==
    /\ b \in complete \ expired
    /\ expired' = expired \cup {b}
    /\ UNCHANGED <<site, host, lease, cas, objects, markers, job, restoring,
                   rotator, faults>>

-----------------------------------------------------------------------------
(* backup-run.sh                                                           *)

StartPrecopy ==
    /\ phase = "idle" /\ lease = "none"
    /\ lease' = "job" /\ kind' = "precopy" /\ phase' = "inventory"
    /\ UNCHANGED <<site, host, cas, objects, markers, expired, needs, staged,
                   inv, todo, saw, got, dumped, started, restoring, rotator,
                   faults>>

\* Faulty variant: app_needs_recovery is never set.
StartFinalizeUnmarked ==
    /\ phase = "idle" /\ lease = "none" /\ started < MaxPoints /\ ~alerted
    /\ lease' = "job" /\ kind' = "finalize" /\ phase' = "stop"
    /\ UNCHANGED <<site, host, cas, objects, markers, expired, needs, staged,
                   inv, todo, saw, got, dumped, started, restoring, rotator,
                   faults>>

\* app_needs_recovery=1 precedes the stop command.
StartFinalize ==
    /\ phase = "idle" /\ lease = "none" /\ started < MaxPoints /\ ~alerted
    /\ lease' = "job" /\ kind' = "finalize" /\ phase' = "stop"
    /\ needs' = TRUE
    /\ UNCHANGED <<site, host, cas, objects, markers, expired, staged, inv,
                   todo, saw, got, dumped, started, restoring, rotator, faults>>

\* stop --timeout 60 app can report failure after the container stopped.
StopApp ==
    /\ phase = "stop"
    /\ app' = FALSE
    /\ \/ phase' = "quiesce" /\ faults' = faults
       \/ phase' = "cleanup" /\ Fault
    /\ UNCHANGED <<site, alerted, lease, cas, objects, markers, expired, kind,
                   needs, staged, inv, todo, saw, got, dumped, started,
                   restoring, rotator>>

\* Faulty variant: sessions are not counted.
QuiescenceAssumed == TRUE

\* assert_quiescent: no session of the application.  A running application
\* keeps at least one pooled session open.
Quiescent == ~app

\* wait_for_app_stopped and the first assertions; finalize has its backup_id.
Quiesce ==
    /\ phase = "quiesce"
    /\ IF Quiescent THEN phase' = "inventory" /\ started' = started + 1
                    ELSE phase' = "cleanup" /\ UNCHANGED started
    /\ UNCHANGED <<site, host, lease, cas, objects, markers, expired, kind,
                   needs, staged, inv, todo, saw, got, dumped, restoring,
                   rotator, faults>>

\* The monitor of run_finalizer_with_deadline sees the application running
\* and removes the job.
MonitorKills ==
    /\ phase \notin {"idle", "stop", "restart", "cleanup"} /\ kind = "finalize"
    /\ app
    /\ phase' = "cleanup"
    /\ UNCHANGED <<site, host, lease, cas, objects, markers, expired, kind,
                   needs, staged, inv, todo, saw, got, dumped, started,
                   restoring, rotator, faults>>

\* Every failure ends in the trap: SafetyError, a failing command, the
\* 13-minute budget (docker rm --force) and, for finalize, a signal.
JobFails ==
    /\ phase \notin {"idle", "cleanup"} /\ Fault
    /\ phase' = "cleanup"
    /\ UNCHANGED <<site, host, lease, cas, objects, markers, expired, kind,
                   needs, staged, inv, todo, saw, got, dumped, started,
                   restoring, rotator>>

\* prod-compose.sh start app and the wait for its health: on failure the
\* application is down or unhealthy, and a critical alert is emitted.
RestartsApp(up, healthy) ==
    /\ app' = (app \/ up)
    /\ alerted' = (alerted \/ ~healthy)

RestartApp ==
    /\ phase = "restart"
    /\ \/ RestartsApp(TRUE, TRUE) /\ needs' = FALSE /\ faults' = faults
       \/ \E up \in BOOLEAN : RestartsApp(up, FALSE) /\ needs' = needs /\ Fault
    /\ phase' = "cleanup"
    /\ UNCHANGED <<site, lease, cas, objects, markers, expired, kind, staged,
                   inv, todo, saw, got, dumped, started, restoring, rotator>>

\* Faulty variant: app_needs_recovery outlives the window.
CleanupKeepsFlag ==
    /\ phase = "cleanup"
    /\ lease' = "none" /\ phase' = "idle" /\ kind' = "none"
    /\ UNCHANGED <<site, host, cas, objects, markers, expired, needs, staged,
                   inv, todo, saw, got, dumped, started, restoring, rotator,
                   faults>>

\* cleanup: restore_app unless the main path did it, then the lease.
Cleanup ==
    /\ phase = "cleanup"
    /\ \/ ~needs /\ faults' = faults /\ UNCHANGED host
       \/ needs /\ RestartsApp(TRUE, TRUE) /\ faults' = faults
       \/ needs /\ (\E up \in BOOLEAN : RestartsApp(up, FALSE)) /\ Fault
    /\ needs' = FALSE
    /\ lease' = "none" /\ phase' = "idle" /\ kind' = "none"
    /\ inv' = NoFiles /\ todo' = {} /\ got' = NoObjects /\ dumped' = {}
    /\ saw' = NotSeen
    /\ UNCHANGED <<site, cas, objects, markers, expired, staged, started,
                   restoring, rotator>>

-----------------------------------------------------------------------------
(* BackupBuilder: precopy and finalize.  JobStep is a step of the builder  *)
(* that leaves everything outside its own variables alone.                 *)

JobStep == UNCHANGED <<site, host, lease, markers, expired, kind, needs, started,
                       restoring, rotator, faults>>

Inventory ==
    /\ phase = "inventory"
    /\ inv' = source
    /\ todo' = {f \in Files : source[f] # Absent}
    /\ phase' = "next"
    /\ JobStep /\ UNCHANGED <<cas, objects, staged, saw, got, dumped>>

Item   == Min(todo)
Digest == inv[Item]

\* finalize asserts quiescence before every file.  _publish_file_object asks
\* whether the two objects exist.
Undisturbed == kind = "precopy" \/ Quiescent

Probe ==
    /\ phase = "next" /\ todo # {} /\ Undisturbed
    /\ saw' = [age |-> age[Digest] # Absent, meta |-> meta[Digest] # Absent]
    /\ phase' = IF saw'.age /\ saw'.meta THEN "reuse" ELSE "stage"
    /\ JobStep /\ UNCHANGED <<cas, objects, staged, inv, todo, got, dumped>>

\* The file is recorded with ciphertext c and its checkpoint removed.
Recorded(c) ==
    /\ got' = [got EXCEPT ![Digest] = c]
    /\ staged' = [staged EXCEPT ![Digest] = Absent]
    /\ todo' = todo \ {Item}
    /\ saw' = NotSeen
    /\ phase' = "next"

\* Both objects exist: they must belong to each other.
Reuse ==
    /\ phase = "reuse"
    /\ IF meta[Digest] # Absent /\ age[Digest] = meta[Digest]
       THEN Recorded(meta[Digest])
       ELSE phase' = "cleanup" /\ UNCHANGED <<got, staged, todo, saw>>
    /\ JobStep /\ UNCHANGED <<cas, objects, inv, dumped>>

InUse(c, d) ==
    \/ c \in {age[d], meta[d], staged[d]}
    \/ \E b \in manifests : point[b].cipher[d] = c

Fresh(d) == Min({c \in Cipher : ~InUse(c, d)})

\* The file is encrypted into the local checkpoint unless an earlier run left
\* a ciphertext there, whose metadata can be written again from it.  A source that
\* changed since the inventory raises: JobFails.
Stage ==
    /\ phase = "stage"
    /\ staged' = [staged EXCEPT ![Digest] = IF @ = Absent THEN Fresh(Digest) ELSE @]
    /\ phase' = "age"
    /\ JobStep /\ UNCHANGED <<cas, objects, inv, todo, saw, got, dumped>>

\* rclone --immutable refuses to replace an object by a different one.  The
\* object found there, or read back, must be the staged one.
Uploads(remote, seen, next) ==
    LET c == staged[Digest]
        ok == IF seen THEN remote[Digest] = c ELSE remote[Digest] \in {Absent, c}
    IN  IF ok
        THEN phase' = next /\ remote' = [remote EXCEPT ![Digest] = c]
        ELSE phase' = "cleanup" /\ remote' = remote

UploadAge ==
    /\ phase = "age"
    /\ Uploads(age, saw.age, "meta")
    /\ JobStep /\ UNCHANGED <<meta, objects, staged, inv, todo, saw, got, dumped>>

UploadMeta ==
    /\ phase = "meta"
    /\ Uploads(meta, saw.meta, "record")
    /\ JobStep /\ UNCHANGED <<age, objects, staged, inv, todo, saw, got, dumped>>

RecordFile ==
    /\ phase = "record"
    /\ Recorded(staged[Digest])
    /\ JobStep /\ UNCHANGED <<cas, objects, inv, dumped>>

Disturbed ==
    /\ phase \in {"next", "dumped"} /\ ~Undisturbed
    /\ phase' = "cleanup"
    /\ JobStep /\ UNCHANGED <<cas, objects, staged, inv, todo, saw, got, dumped>>

\* precopy is done when every file is published; finalize goes on.
FilesPublished ==
    /\ phase = "next" /\ todo = {} /\ Undisturbed
    /\ phase' = IF kind = "precopy" THEN "cleanup" ELSE "dump"
    /\ JobStep /\ UNCHANGED <<cas, objects, staged, inv, todo, saw, got, dumped>>

\* pg_dump and the configuration archive, stored under the point.
Dump ==
    /\ phase = "dump"
    /\ dumped' = rows
    /\ payload' = payload \cup {started}
    /\ phase' = "dumped"
    /\ JobStep /\ UNCHANGED <<cas, manifests, point, staged, inv, todo, saw, got>>

\* Quiescence is asserted once more after the dump, before the manifest.
SignManifest ==
    /\ phase = "dumped" /\ Undisturbed
    /\ manifests' = manifests \cup {started}
    /\ point' = [point EXCEPT ![started] =
                   [files |-> inv, cipher |-> got, rows |-> dumped]]
    /\ phase' = "complete"
    /\ JobStep /\ UNCHANGED <<cas, payload, staged, inv, todo, saw, got, dumped>>

\* The completion marker is the last object of the point.
Complete ==
    /\ phase = "complete"
    /\ complete' = complete \cup {started}
    /\ phase' = "restart"
    /\ UNCHANGED <<site, host, lease, cas, objects, verified, deleting, expired,
                   kind, needs, staged, inv, todo, saw, got, dumped, started,
                   restoring, rotator, faults>>

-----------------------------------------------------------------------------
(* Restore: preflight reads everything, external_ready signs the marker.   *)

Keys(b) == {point[b].files[f] : f \in Files} \ {Absent}

\* validate_manifest refuses two objects with one key.
ValidManifest(b) ==
    \A f, g \in Files :
       point[b].files[f] = point[b].files[g] => f = g \/ point[b].files[f] = Absent

\* What preflight demands of a point before it stops or writes anything.
Restorable(b) ==
    /\ b \in complete \cap manifests \cap payload
    /\ ValidManifest(b)
    /\ \A d \in Keys(b) : age[d] = point[b].cipher[d]

Preflight(b) ==
    /\ restoring = 0 /\ lease = "none"
    /\ Restorable(b)
    /\ restoring' = b /\ lease' = "restore"
    /\ UNCHANGED <<site, host, cas, objects, markers, expired, job, rotator, faults>>

ExternalReady ==
    /\ restoring # 0
    /\ verified' = verified \cup {restoring}
    /\ restoring' = 0 /\ lease' = "none"
    /\ UNCHANGED <<site, host, cas, objects, complete, deleting, expired, job,
                   rotator, faults>>

RestoreFails ==
    /\ restoring # 0 /\ Fault
    /\ restoring' = 0 /\ lease' = "none"
    /\ UNCHANGED <<site, host, cas, objects, markers, expired, job, rotator>>

-----------------------------------------------------------------------------
(* rotate.py, in the authorized environment.  It takes no lease; without   *)
(* Overlap the operator runs it only while nobody holds the lease.         *)

\* _validated_completion_records and _validated_journal_records.
RecordsValid ==
    /\ \A b \in complete : b \in manifests /\ ValidManifest(b)
    /\ \A b \in deleting \cap manifests : ValidManifest(b)
    /\ \A b \in deleting \ manifests : b \notin complete \cup verified

RotatorOwns(l) == IF Overlap THEN lease' = lease ELSE lease' = l

RotateReads ==
    /\ rot = "idle" /\ (Overlap \/ lease = "none")
    /\ complete \cup deleting # {}
    /\ RecordsValid
    /\ rot' = "read"
    /\ read' = [complete   |-> complete,
                journaled  |-> deleting \cap manifests,
                finalizing |-> deleting \ manifests]
    /\ RotatorOwns("rotate")
    /\ UNCHANGED <<site, host, cas, objects, markers, expired, job, restoring,
                   plan, faults>>

\* Faulty variant: the newest point is protected, verified or not.
NewestProtected == IF complete = {} THEN 0 ELSE Max(complete)

\* The newest verified point, which is kept whatever its age.
Protected == IF verified = {} THEN 0 ELSE Max(verified)

Decision(b) == IF b \in expired /\ b # Protected THEN "delete" ELSE "keep"

\* _validated_verified_ids and the two refusals that follow it.
VerifiedBound ==
    /\ verified \subseteq read.complete \cup read.journaled
    /\ Protected \notin read.journaled
    /\ \A b \in read.journaled : Decision(b) = "delete"

\* A deletion, or the upload of a journal: round orders the passes over the
\* points, digest is that of a file's object.
Target(round, b, what) ==
    [round |-> round, point |-> b, what |-> what, digest |-> Absent]

Targets == [round : 0..3, point : Points, digest : Digests \cup {Absent},
            what : {"journal", "complete", "age", "meta", "payload", "verified",
                    "manifest", "deleting"}]

\* Faulty variant: the manifest goes before the markers that need it.
ManifestFirst == [journal |-> 0, manifest |-> 1, complete |-> 2, age |-> 3, meta |-> 3,
                  payload |-> 3, verified |-> 4, deleting |-> 5]

\* The order of the targets of one point: the completion marker first, the
\* manifest and the journal last.
Rank == [journal |-> 0, complete |-> 1, age |-> 2, meta |-> 2, payload |-> 2,
         verified |-> 3, manifest |-> 4, deleting |-> 5]

\* May t be handled before u?  One point after the other; the objects of a
\* point in the order of their keys, which is left open.
Precedes(t, u) ==
    \/ t.round < u.round
    \/ /\ t.round = u.round
       /\ t.point < u.point \/ (t.point = u.point /\ Rank[t.what] <= Rank[u.what])

\* The deletion targets of one point.
DeleteTargets(round, b, referenced) ==
    {Target(round, b, what) : what \in {"complete", "payload", "manifest", "deleting"}}
    \cup {Target(round, b, what) :
             what \in IF b \in verified /\ b # Protected THEN {"verified"} ELSE {}}
    \cup [round : {round}, point : {b}, what : {"age", "meta"},
          digest : Keys(b) \ referenced]

\* Faulty variant: only verified points count as referring to their objects.
ReferencedByVerified(kept) == UNION {Keys(b) : b \in kept \cap verified}

\* Keys of the points that stay: no target of a deletion.
Referenced(kept) == UNION {Keys(b) : b \in kept}

\* The completed points without a journal, and those of them that expired.
Live   == read.complete \ read.journaled
Doomed == {b \in Live : Decision(b) = "delete"}

\* Every new journal is published before the first deletion; interrupted
\* deletions go on first, and journals without a manifest are removed last.
Planned ==
    LET referenced == Referenced(Live \ Doomed)
    IN  {Target(0, b, "journal") : b \in Doomed}
        \cup (UNION {DeleteTargets(1, b, referenced) : b \in read.journaled})
        \cup (UNION {DeleteTargets(2, b, referenced) : b \in Doomed})
        \cup {Target(3, b, "deleting") : b \in read.finalizing}

RotateDecides ==
    /\ rot = "read"
    /\ IF VerifiedBound
       THEN rot' = "apply" /\ plan' = Planned /\ UNCHANGED lease
       ELSE rot' = "idle" /\ RotatorOwns("none") /\ UNCHANGED plan
    /\ read' = NotRead
    /\ UNCHANGED <<site, host, cas, objects, markers, expired, job, restoring,
                   faults>>

\* One rclone command: the journal's upload or _delete_if_present.
Without(t, what, S) == IF t.what = what THEN S \ {t.point} ELSE S

Erased(t, what, remote) ==
    IF t.what = what THEN [remote EXCEPT ![t.digest] = Absent] ELSE remote

Journals(t) == IF t.what = "journal" THEN deleting \cup {t.point}
               ELSE Without(t, "deleting", deleting)

Handles(t) ==
    /\ deleting' = Journals(t)
    /\ complete' = Without(t, "complete", complete)
    /\ verified' = Without(t, "verified", verified)
    /\ payload' = Without(t, "payload", payload)
    /\ manifests' = Without(t, "manifest", manifests)
    /\ point' = IF t.what = "manifest" THEN [point EXCEPT ![t.point] = NoPoint]
                ELSE point
    /\ age' = Erased(t, "age", age)
    /\ meta' = Erased(t, "meta", meta)
    /\ plan' = plan \ {t}

RotateApplies ==
    /\ rot = "apply"
    /\ \E t \in plan : (\A u \in plan : Precedes(t, u)) /\ Handles(t)
    /\ UNCHANGED <<site, host, lease, expired, job, restoring, rot, read, faults>>

RotateEnds ==
    /\ rot = "apply"
    /\ \/ plan = {} /\ faults' = faults
       \/ plan # {} /\ Fault
    /\ rot' = "idle" /\ plan' = {}
    /\ RotatorOwns("none")
    /\ UNCHANGED <<site, host, cas, objects, markers, expired, job, restoring,
                   read>>

-----------------------------------------------------------------------------

Orchestrator == StartPrecopy \/ StartFinalize \/ StopApp \/ Quiesce \/ MonitorKills
                \/ JobFails \/ RestartApp \/ Cleanup
Builder == Inventory \/ Probe \/ Reuse \/ Stage \/ UploadAge
           \/ UploadMeta \/ RecordFile \/ Disturbed \/ FilesPublished \/ Dump \/ SignManifest
           \/ Complete
Restorer == (\E b \in Points : Preflight(b)) \/ ExternalReady \/ RestoreFails
Rotator == RotateReads \/ RotateDecides \/ RotateApplies \/ RotateEnds
Environment == (\E f \in Files, d \in Digests : AppWrites(f, d))
               \/ (\E f \in Files : AppCommits(f))
               \/ AppStartsUnasked \/ OperatorStarts \/ (\E b \in Points : Expire(b))

Next == Orchestrator \/ Builder \/ Restorer \/ Rotator \/ Environment

\* A started backup run goes on: every wait of it has a deadline.
Fairness == WF_vars(Builder) /\ WF_vars(StopApp \/ Quiesce \/ RestartApp \/ Cleanup)

Spec == Init /\ [][Next]_vars /\ Fairness

-----------------------------------------------------------------------------

TypeOK ==
    /\ source \in [Files -> Digests \cup {Absent}] /\ rows \subseteq Pdfs
    /\ app \in BOOLEAN /\ alerted \in BOOLEAN
    /\ lease \in {"none", "job", "restore", "rotate"}
    /\ age \in [Digests -> Cipher \cup {Absent}]
    /\ meta \in [Digests -> Cipher \cup {Absent}]
    /\ UNION {payload, manifests, complete, verified, deleting, expired} \subseteq Points
    /\ started \in 0..MaxPoints /\ restoring \in 0..MaxPoints
    /\ staged \in [Digests -> Cipher \cup {Absent}]
    /\ lease = "none" => phase = "idle" /\ restoring = 0
    /\ needs => kind = "finalize"

\* Until its deletion is journaled, a completed point passes the preflight
\* of a restore: what finalize published last stands for objects that are all
\* there, and rotation deletes nothing that a kept point refers to.
CompletedIsRestorable == \A b \in complete \ deleting : Restorable(b)

\* A dump refers only to files of its own point: rows and files are frozen
\* together in the stop window.
DumpWithinPoint ==
    \A b \in complete : \A f \in point[b].rows : point[b].files[f] # Absent

\* Rotation is never locked out by what an interrupted rotation left: every
\* complete marker, deletion journal and verified marker still passes its validation
\* (the three validation functions of rotate.py).  The later refusal of a journaled
\* point that was verified meanwhile is meant to stop rotation and not part of it.
RotationCanResume ==
    /\ RecordsValid
    /\ verified \subseteq complete \cup (deleting \cap manifests)

\* Once a point was verified, every later step leaves a verified point that
\* can be restored.
VerifiedPointKept ==
    [][verified # {} => \E b \in verified' : Restorable(b)']_vars

\* A stop window ends: the application runs again or an alert is open.
WindowCloses == ~app ~> (app \/ alerted)
=============================================================================
