# product-pdf-qr: TLA+ models and proofs

product-pdf-qr hands out one permanent QR code per product. The code leads to a
public token, the token to the product's current PDF. An administrator creates
products one at a time or by Excel import, uploads PDFs (each upload is a new
version), restores old versions and disables products. Beside the application
the repository holds the scripts that back it up, publish a release, roll it
back and rotate its recovery points, and the tools of its own development
process (`scripts/ao`): a publisher of Evidence Snapshots for pull requests, the
workspaces in which Advisors review them, and the gate before a merge.

The application is one asyncio process: handlers interleave at their awaits,
blocking work runs in worker threads, any request task can be cancelled. State
that survives is in PostgreSQL and in a content-addressed file tree. The scripts
are separate processes that share a lease directory and state files; any of them
can fail at a command, be signalled, or be killed. The tools of `scripts/ao` read
GitHub and git with one call after the other while authors, reviewers and CI
change what is read.

## Components

| Component | State | Operations | Interacts through | Module |
|---|---|---|---|---|
| Versions (`domains/version`) | `products.current_version_id`, `pdf_versions`, `pdf_files` | upload, restore | row lock of the product, unique keys, storage | `PdfVersions` |
| Storage (`domains/storage`) | `files/`, `tmp/`, `_publish_locks` | receive, validate, publish, discard, orphan report | lock per hash, worker thread | `PdfVersions` |
| Public scan (`domains/public`) | miss limiter | resolve token, serve file | reads rows, then the file | `PdfVersions` (not the limiter) |
| Products (`domains/product`) | `products` | create, set status, list | unique code and token | `ProductImport`, `PdfVersions` |
| Import (`domains/importer`) | none of its own | validate workbook, insert batch | one transaction, a savepoint per attempt | `ProductImport` |
| Audit (`domains/audit`) | `audit_events` | append in the transaction or on a connection of its own | pool | all three |
| Account (`domains/auth`, `auth_middleware`, `admin`, `cli`) | `admins`, `admin_sessions`, `LoginRateLimiter` | create, reset, login, check session, change password, logout | row lock, advisory lock | `AdminAuth` |
| QR codes (`domains/qrcode`) | cache of PNG files | get or generate | lock per code | - |
| Pool and schema (`database.py`, `migrations`) | connections, constraints | commit or roll back at the end of the block | everyone | in each module |
| Publication and rollback (`scripts/deploy_rollback`) | publication state and marker, RTO clock, fence, audit log, services | publish by stages, inspect, switch app, hand over to restore | lease, state files, `restore-run.sh` | `ReleaseRollback` |
| Restore (`scripts/backup_recovery/restore*`) | restore checkpoints, database, files | preflight, retain, restore, validate, open | lease | `ReleaseRollback`; its preflight and verification in `BackupStore` |
| Backup (`scripts/backup_recovery/backup*`) | remote objects and points, local publication checkpoints, the stop window | precopy, finalize, restart | lease, remote store | `BackupStore` |
| Rotation (`scripts/retention/rotate.py`) | deletion journals, markers | validate, decide, journal, delete, resume | remote store; no lease | `BackupStore` |
| Evidence publisher (`evidence-publish.yml`, `ao/evidence.py`, `trust.py`, `github.py`) | Evidence commits on the branch, commit statuses | verify the CI definition, generate, push, verify, attest | PR branch, CI runs, concurrency group | `EvidencePublish` |
| Advisor workspaces (`ao/workspace.py`) | detached worktrees, lifecycle markers, file locks, records | advisor-run, stale-list, stale-reclaim, advisor-validate | `git worktree`, process groups; Evidence | `AdvisorWorkspace`; the checks of an opinion against Evidence in `EvidencePublish` |
| Review gate (`ao/review_gate.py`) | none of its own | review-gate | GitHub | `ReviewGate` |
| Wiring, upload limit, pages, certificates, rehearsals | settings | - | - | - |

What is hard to test here: a request cancelled while its thread renames a file; a
COMMIT whose answer is lost; the move of the file and the commit of its row,
which no transaction covers; transactions that wait for each other's unique
keys; a password verified while another request replaces it; a rollback that is
retried over the remains of an attempt that failed at any of its commands; a
lease that is released and taken again in the middle of a decision; a wrapper
killed while the process it started lives on; a branch that moves between two
readings of it. `hazards` in
`PROJECT.json` lists each at its line with the properties aimed at it.

What makes each component correct:

- *versions and storage*: a row never names a missing file; numbers are
  contiguous; the pointer names a version of the product itself; a published
  file is never replaced; a file without a row is traceable; the audit and the
  history agree; a request in trouble leaves nothing held;
- *import*: all or nothing, a skipped code exists, the counts are exact;
- *account*: one administrator, sessions only for the password in force,
  parallel logins within the limit;
- *rollback*: no acknowledged write is lost, a half-restored site is never
  public, an incompatible app never meets newer data;
- *backup and rotation*: a completed point can be restored until its deletion is
  journaled, its dump and its files are of one moment, an interrupted rotation
  can be resumed, a verified point is always kept, a stop window ends;
- *Evidence publisher*: only snapshots of tested code are attested, the author's
  commits are never dropped, an opinion is accepted for the code that is there at the
  last look at it;
- *Advisor workspaces*: an Advisor keeps its worktree while it runs and is alone
  with its code commit, nothing disturbed is accepted, nothing is left behind;
- *review gate*: PASS only for code that was approved and tested, and for
  all of it.

## Modules

`VersionLedger` is the abstract specification of version management: a catalog,
a status, an append-only history and the content shown, with one atomic step for
each operation.

`PdfVersions` is the detailed one. A request goes through program counters that
are the awaits of its handler:

    idle -> receiving -> ready -> begin -> publish -> publishing -> file -> version -> commit -> done

with `draining` for a cancelled publication whose thread still runs, and the
`audit...` counters for the rejection event. `error500` is where a scan, a restore or
an upload ends that meets a pointer or a file that it cannot resolve (an upload by way
of `audit500`, as it audits its rejection first); every other failure ends in `done`. `thread` is the worker thread of
`_publish_sync`, which checks for the target and renames in two steps of its own
(`ThreadCheck`, `ThreadRename`), whatever becomes of the request. `rowLock` and `fileLock`
are the database's locks, `shaLock` the publication lock, `conns` the pool.
Reads that a held row lock protects are merged with the statement that takes it.
`Commit` applies the whole effect of a transaction. `CommitLost` applies it as
well and raises in the handler. `DbError` rolls back. `Cancel...` is
`task.cancel()` at each await, `Crash` the death of the process. A content
stands for its SHA-256.

`ProductImport` models `import_products` and `create_product`. The worksheet is
a sequence of spellings with a normalisation to codes. Validation is a function
of the file, with sets of row positions for its results. The transaction takes the
least position left of `todo` (file order), and each attempt waits for the code's key and then the token's, retries on a token collision and skips on a
code collision. A cycle of waits is broken by the deadlock detector.

`AdminAuth` models the two commands and the four kinds of request on the
account. The row of `admins` stays locked from the read to the commit, over the
verification in the worker thread. `epoch` counts password writes; a session
remembers the epoch it rests on. `burst` collects the attempts that the limiter
admitted at one instant. It and `epoch` are history variables: no guard reads
them, except to copy them.

`ReleaseRollback` starts after `prepare-release-backup.sh`: the backup exists,
the proxy is isolated. `pub` is where `publication-run.sh` is, `rb` where
`rollback-run.sh`, the `RollbackEngine` it calls and the `restore-run.sh` it
hands over to are. State file, seal and marker are written in three steps. A
watermark is the number of customer writes since the backup, whether the
candidate made one of them, and whether `pg_restore` was cut off. Each
command can fail (`...Fails`), with the handler the script has for that place.
`ScriptSignalled` is the trap of `lock.sh`, `Kill...` is SIGKILL.

`BackupStore` is `backup-run.sh` with `BackupBuilder`, the verification of a
restore, and `rotate.py`, around one remote store. `phase` is the place of the
backup run; its steps between two remote commands are actions (`Probe`,
`Stage`, `UploadAge`, `UploadMeta`, `Dump`, `SignManifest`, `Complete`). The
remote holds, per digest, the ciphertext (`age`) and the one that its metadata
names (`meta`); per point a payload (dump and configuration, which come and go
together), a manifest and the three kinds of marker. A ciphertext is a number
that nothing holds when it is made, because age never encrypts twice alike:
whether a checkpoint, a remote ciphertext and its metadata belong together is
thus a matter of history. `rotate.py` computes its work once and
then sends one command after the other: `plan` is the set of targets that are left,
`Precedes` the order among them (only the files of one point come in any order), and
`RotateEnds` may drop the rest at any place. Time is the growing set `expired`. A
running application always has a session, as `db_pool_min_size` is at least 1,
so `Quiescent` is `~app`; `AppStartsUnasked` disturbs a window. `Overlap` says
whether rotation runs beside an owner of the lease, `Residue` whether two
images may have the same bytes.

`AdvisorWorkspace` follows an `advisor-run` command from the file lock to its
record:

    start -> locked -> free -> added -> leased -> forked -> bound -> recording
          -> waiting [-> terminating] -> closing [-> pruning] -> removed -> clean -> ended

`leader` is the Advisor process, `member` another process of its group; both
outlive a killed wrapper. `marker` is the lifecycle file, which
`record_advisor_process` truncates and fills in two steps. A signal raises an
exception at the place where the wrapper is (`InterruptAcquire`, `InterruptRun`,
`Abandon`), `level` telling in which clause of `run_advisor` the group is being
terminated. `Detect` and `Reclaim` are one `stale-reclaim` command, whose list may be
out of date when it is used. `git worktree prune` is global: it drops every
registration whose directory is gone. A directory name comes from `mkdtemp` and is
never used twice, so a workspace is identified with its run.

`EvidencePublish` is the publisher job and `advisor-validate` beside it, every call that
reads or changes what GitHub keeps an action of its own: reading the pull request,
fetching its branches, reading the CI run, pushing, reading the attestation, posting each
status. Merged are `record_failure` (it reads the head and posts its statuses in one step)
and calls whose answers the model does not keep (review records, the path of a run's
workflow), which belong to the step before. A push is accepted when it is a fast-forward. A commit is the
sequence of changes since the merge base, its SHA that sequence. The five files of a
snapshot are one Boolean (are they what the generator writes for its parent?), who
made them, and a time. `AuthorPush` adds code, adds Evidence of the author's own,
or resets the branch; `CiCompletes` succeeds, fails or repeats a CI run; `BaseMoves`
changes the CI definition of the default branch under the job. A job that waits in
the concurrency group is replaced by the next one. `everPassed` and `overtaken` (the branch
moved after the validation's last look at it) are history variables.

`ReviewGate` is `evaluate_review_gate` as its seven readings. A commit is its
path of trees from the first one; a tree maps paths to contents, so `Files` is
computed as GitHub lists the files of a commit or a Compare, renames included. The
classification, the final code commit, the introduced paths and the choice of the
review and the CI result that count are translated as operators. `Push` covers an
added, amended, dropped or rebased commit, `BaseMoves` a merge of another pull request
or of the first commits of this one. `Ready` is an independent reading of what the
gate's README asks of a pull request; `QuietVerdictExact` compares the two.

`MCPdfVersions`, `MCProductImport` and `MCAdminAuth` add only the symmetry sets and
the normalisation table, `MCEvidencePublish` and `MCReviewGate` the values of the
constants that a configuration cannot write. The definitions named "Faulty variant" are forms of an
action with one plausible mistake; nothing uses them but the mutation entries of
`PROJECT.json`, which show that each property notices such a mistake.

## Runs

| Run | Bounds | Shows |
|---|---|---|
| `pdf_concurrent` | 3 uploads, restores and scans, 2 products, 2 contents, pool 2, failing renames, 1 cancellation each | `VersionNumbersContiguous`, `PointerResolves`, `NeverUnresolved`, `OrphanTraced`, `NoOverwrite`, `LedgerRefinement` |
| `pdf_faults` | 3 requests of all five kinds, 1 product, 1 content, every fault, 3 cancellations each | `TypeOK`, `NoDanglingFile`, `AuditMatchesLedger`, `NothingHeldOnceAnswered` |
| `pdf_answered` | 3 uploads of 1 content, 2 products, pool 2, 1 cancellation each | `EveryRequestAnswered` under `FairSpec` |
| `product_import` | 2 requests, 2 codes in 3 spellings and an invalid one, files of 2 rows, 2 tokens, 2 tries, failing statements and audits | `TypeOK`, `EveryCodeOfFileExists`, `AuditCountsBatch`, `EveryRequestAnswered` |
| `release_rollback` | 1 customer write, 2 attempts, 2 faults of every kind, both compatibility verdicts | `TypeOK`, `NoCustomerWriteLost`, `PartialNeverPublic`, `OldAppNeverOnForwardData` |
| `rollback_cutover` | 1 attempt, no fault | `RestoreOnlyBeforeCutover` fails |
| `backup_store` | 1 PDF and 1 image path, 2 digests, 2 finalizer runs, any number of precopies, restores and rotations, 1 fault, no overlap, no residue | `TypeOK`, `CompletedIsRestorable`, `DumpWithinPoint`, `RotationCanResume`, `VerifiedPointKept`, `WindowCloses` |
| `backup_overlap` | the same without faults, with overlap | `CompletedIsRestorable` fails |
| `admin_auth` | 4 requests of all kinds, 2 usernames, 2 passwords, 1 address, limit 2, 1 clock tick, failing statements | `TypeOK`, `SingleAdministrator`, `OnlyCurrentCredentials`, `AttemptsBounded` |
| `advisor_workspace` | 2 advisor-runs for 1 binding, any number of stale-reclaims, 3 faults among signals, kills and failing commands | `TypeOK`, `NotedAdvisorKeepsWorkspace`, `OneAdvisorPerBinding`, `AcceptedWasIntact`, and `LeftoverReclaimed` under `FairSpec` |
| `evidence_publish` | 2 code changes with their own CI definitions, branch of 3 commits, 2 pushes of the author, 2 CI runs, 1 move of the definition, 1 fault, 1 opinion | `TypeOK`, `OnlyGenuineAttested`, `PublisherOnlyAddsToTestedCode`, `AcceptedUnlessOvertaken` |
| `review_gate` | 2 paths (one of them Evidence), 4 trees, 1 CI job, 3 opinions, 3 changes, 1 of them during the evaluation, every call may fail | `PassedCodeIsApproved`, `QuietVerdictExact` |

Why these bounds reach the interesting cases. A conflict over a product, a
content or a key needs two requests; a third one sees the outcome, or takes
the lock that the conflict freed. Two products and two contents distinguish the
row lock from the publication lock and a version of one product from that of
another. Two cancellations are what it takes to leave the drained publication;
the third meets the shielded audit. In `pdf_answered` two uploads hold the rows of
two products and both connections and contend for the publication lock and the
`pdf_files` key of their content, while the third waits for a row or a connection; a
cancellation makes any of them leave by an exception, with its thread still at work.
Failing statements and renames are left to `pdf_faults`, whose `NothingHeldOnceAnswered`
covers the same exits. In
`pdf_concurrent` pointers move between versions and back while scans, restores and
uploads follow them (`NeverUnresolved`); that a file is there under every other fault is
`NoDanglingFile`. Two rows and two codes are the smallest
files that deadlock; two tokens with two tries collide, recover and run out. Two
rollback attempts are one that fails and one that inherits its remains; the
second fault lets the retry fail as well. Four requests on the account are a
creation, a login, a forced change and one more that races with them. Two
finalizer runs give a point that is kept and one that goes, with objects of
their own and shared ones; one fault cuts a run or a rotation anywhere, and the
next one, which is free of faults, has to live with the remains.
Two advisor-runs contend for a binding or follow each other over the remains of the
first; three faults are two interrupts that break off the termination of the group and
a kill, or a kill with a reclaim that fails. Runs of different bindings share only
`prune` and a reclaim's list, so one binding suffices. Two pushes are one that
races with the publisher and one that resets the branch or forges Evidence; two CI
runs are a success and a failure of the same commit, or the successes of two. In the
gate, a branch of two commits has a superseded code commit or a METADATA commit on
top of the final one; three changes are an approval, a CI result and a push or a merge
that comes in between. The four trees make a rename between code and Evidence,
in either direction, and a file that goes and comes back. `PassedCodeIsApproved`
speaks of a positive answer, so changes before and during the readings suffice: after
the answer the command is over.
Bounds of the model that the code does not have: `MaxCancels`, `MaxLines`,
`MaxWrites`, `MaxAttempts`, `MaxFaults`, `MaxTime`, `MaxPoints`, `MaxCommits`, `MaxPushes`,
`MaxRuns`, `MaxDefinition`, `MaxLength`, `MaxEvents`, `MaxRaces` and the finite sets.

`advisor_workspace` assumes `SlowStart = FALSE`: no start-up, from `git worktree add` to
the marker that names the Advisor, outlasts `--older-than-hours` (24 by default).
With `SlowStart = TRUE`, that is with a threshold near zero, a reclaim can meet the
truncated marker of a live run, and all three invariants fail. An Advisor whose PID
never reached the marker, because its wrapper was killed before, is not protected;
`noted` is the set of those that are.

`OrphanTraced` and `NoOverwrite` hold with one cancellation per request and
failing renames; what a second one does is among the findings, and a crash or a failing audit
leaves an untraced orphan by design (`docs/architecture-v1.md` accepts orphans as
the harmless direction of failure).

### Fairness

`PdfVersions!FairSpec` and `ProductImport!FairSpec` assume weak fairness of each
request's own steps, and in `PdfVersions` of each worker thread: the event loop
resumes a task whose await can proceed, the executor runs a queued function,
PostgreSQL grants a lock that stays free and aborts one transaction of a
deadlock. Nothing is assumed of arrivals, cancellations, faults or crashes.
A request that waits for a lock is helped because each holder releases it in
finitely many steps and, in the finite instance, contenders are finite.

`BackupStore!Spec` assumes that a backup run goes on: every wait in
`backup-run.sh` has a deadline (60 s for the stop, 13 minutes for the finalizer,
120 tries for the restart). Nothing is assumed of rotations and restores.
SIGKILL of the wrapper is left out of `BackupStore`: it leaves the application
stopped and a stale lease, which `lock.sh` leaves to an operator.

`AdvisorWorkspace!FairSpec` assumes weak fairness of a wrapper's own steps (its waits
have timeouts), that the processes of an Advisor end at some time, and that
`stale-reclaim` is run again and again: strong fairness of a detection that
finds every worktree past the threshold, and weak fairness of the removals that
follow. The code does not schedule `stale-reclaim`; its README leaves that to an
operator, so `LeftoverReclaimed` says that repeating the command is enough. Faults
are finitely many.

### What the violated properties show

Each is quoted with its source in `findings`.

- `rollback_cutover`: the lease is free between `rollback-run.sh` and
  `restore-run.sh`; the cutover can be recorded in between.
- `backup_overlap`: `rotate.py` does not take the lease that the documentation
  says it shares. It deletes a ciphertext that a finalizer has just found and
  reused, and the finalizer completes a point that cannot be restored.

Further findings are stated by a definition of their module and the constants with
which it fails, without a run of their own:

| Definition | Fails with | Shows |
|---|---|---|
| `PdfVersions!NoOverwrite` | 2 uploads of one content, `MaxCancels = 2`, no faults | `publish` absorbs one cancellation. A second one leaves the lock while the thread sits between its existence check and its rename; another upload publishes the same content, and the late rename replaces it. The bytes are the same, the file's identity and times are not. |
| `PdfVersions!RejectedNotCommitted` | fault `commit_lost` | a lost answer of COMMIT is audited as a rejection |
| `ProductImport!ConcurrencyOnlySkips` | 2 imports of 2 rows, no faults | concurrent duplicates are promised to be skipped only; an import chosen as the deadlock victim answers with a server error, without an audit event |
| `ReleaseRollback!CompletedNotFenced` | `MaxWrites = 0`, `MaxAttempts = 2`, 1 failing command | a retry that chooses the app-only path inherits the fence of the failed attempt and reports completion behind it |
| `ReleaseRollback!LeaseExclusive` | fault `signal` | the trap of `lock.sh` releases the lease and the script goes on |
| `BackupStore!CompletedIsRestorable` | `Residue = TRUE`, two images | two files with the same bytes complete a point that `validate_manifest` refuses |
| `AdvisorWorkspace!TimeoutEndsGroup` | `Runs = {r1}`, `MaxFaults = 0` | after SIGTERM only the leader is waited for; a process of its group that ignores SIGTERM survives the clean-up |
| `EvidencePublish!ConcurrentUpdateFailsPush` | `MaxPushes = 2`, `MaxRuns = 1`, no fault | the push is not tied to the head that was read: when the author resets the branch meanwhile it is still a fast-forward, succeeds, and the dropped commits are back. `PublisherOnlyAddsToTestedCode` is what holds in its place |
| `ReviewGate!ReadyNeverHeldBack` | the constants of `review_gate` | a file of the base that is removed and brought back unchanged counts as introduced and is missing from the net diff: REVIEW_GAP for a pull request that is approved and tested |

## Proofs

Every theorem holds for every value of the constants that the `ASSUME`s of the
module allow: any number of requests, products, files, points, runs, faults. The
assumptions say what kinds of fault there are, that bounds are natural numbers, that
null values are outside the sets they stand beside. Where a theorem has a hypothesis
of its own it is named below, and it is one without which TLC refutes the property.
Each invariant below was checked by TLC before it was proved; each listed property is
checked by a run as well.

The proofs share one layout. The inductive invariant `IInv` is a conjunction of named
parts. A lemma per part, or per actor, has one step for every action that can disturb
it. The theorem `Invariance` combines them, and the listed properties follow from
`IInv`, or for action properties from `IInv` and one step.

### `PdfVersions_proofs`: the ledger

`TypeCorrect`, `FilesPresent` (`NoDanglingFile`), `NumbersContiguous`
(`VersionNumbersContiguous`), `PointersResolve` (`PointerResolves`) and `Refinement`:
`PdfVersions` implements `VersionLedger` under the mapping `Ledger`.

None of the invariants is inductive alone. That numbers are contiguous depends
on what an upload read before its awaits still being true when it commits. So
`IInv` adds, for each request `r`:

- `KindInv`: a request at an upload's counter is an upload, and so on;
- `LockInv(r)`: between the lock and the commit, `r` holds its product's row;
- `NumberInv(r)`: under the lock, `nextNo[r]` is the length of the history plus one;
- `NewInv(r)`, `IdInv(r)`: the row inserted and not yet committed has an id
  above all committed ids and unlike that of any other open transaction
  (`DistinctIds`);
- `RestoreInv(r)`: the version a restore checked is still its product's;
- `DiskInv(r)`: after publication the content is in storage.

A step of one request keeps the others' parts because the only committed state
they speak of is that of a product whose row they hold (`AloneOthers`,
`UploadOthers`). Files are never removed, so `DiskInv` is stable. The refinement
takes `IInv`: an upload's effect appends exactly its content, a restore's chosen
row is in the history by `RestoreInv`, everything else stutters.

### `PdfRequests_proofs`: requests, audit and files

On top of that, with no hypothesis: `AlwaysResolved` (`NeverUnresolved`), `AuditExact`
(`AuditMatchesLedger`) and `NothingLeaked` (`NothingHeldOnceAnswered`). `HeldInv` lists
the counters between which a connection, a row, a key, the publication lock and the
temporary file are held; `ReadInv` says that what a reader has read is committed and
stored; `SucceededInv` that only the commit of a request writes its success event.

- `NeverRenamedOver` (`NoOverwrite`) assumes `MaxCancels <= 1`: `PublishInv` says that
  the thread of a publication works under the lock of its content. A second cancellation
  breaks that, which is the first finding.
- `OrphansTraced` (`OrphanTraced`) assumes `Recorded`: audits do not fail, the process
  does not crash, and a request is cancelled at most once, and not at all where
  statements fail. Each of these leaves a moved file with nobody to report it.

### `AdminAuth_proofs`

`TypeCorrect`, `OneAdministrator` (`SingleAdministrator`),
`SessionsRestOnCurrentPassword` (`OnlyCurrentCredentials`) and `LimiterBoundsAttempts`
(`AttemptsBounded`), with no hypothesis. `ReadIsCurrent`: while a transaction holds the
row, the epoch it read is the one stored, so the session it opens rests on the password
in force. `InsertGuarded`: a create-admin past its check holds the advisory lock and
there is no administrator. `AttemptsCounted`: the attempts of one instant are no more
than the failures counted at it, because the reservation precedes the verification.

### `ReleaseRollback_proofs`

`TypeCorrect`, `WritesSurvive` (`NoCustomerWriteLost`), `TornDatabaseFenced`
(`PartialNeverPublic`) and `OldAppKeptAway` (`OldAppNeverOnForwardData`), with no
hypothesis, for any number of attempts over each other's remains, signals and kills
included. The invariant says what a rollback may still rely on at each of its places:
`FrozenStaysClosed` while it owns the lease, `FenceHolds` and `BaselineBehindFence` from
the fence to the publication, when the lease is no longer what protects the data,
`PartialFenced` whatever becomes of the script, `SwitchNeedsVerdict` and
`ForwardNeedsCandidate` for the app-only switch.

### `AdvisorWorkspace_proofs`

`TypeCorrect` with no hypothesis. `AdvisorKeepsWorkspace`
(`NotedAdvisorKeepsWorkspace`), `OneAdvisor` (`OneAdvisorPerBinding`) and
`AcceptedIntact` (`AcceptedWasIntact`) assume `~SlowStart` (see Runs). The core is
`NotedVisible`: a worktree whose Advisor is on record and runs has a marker that
`_marker_pid_active` recognises, so it is on no reclaim's list, and `StartUndisturbed`
for the time before. `CheckHolds` and `OneWorktree` turn the file lock, and after its
death the worktree left behind, into the exclusion of a second run.

### `EvidencePublish_proofs`

`TypeCorrect`, `AttestedIsGenuine` (`OnlyGenuineAttested`), `PublisherOnlyAdds`
(`PublisherOnlyAddsToTestedCode`) and `AcceptedIsCurrent` (`AcceptedUnlessOvertaken`),
with no hypothesis.
The invariant follows what a job has verified (the CI definition, the success of the
run, its own files) through the calls in which the branch can move. The push may be any
fast-forward: what the job made is one snapshot on the commit it read, and that commit is
tested code wherever the branch is. `LastLook`: from the fetch of the verification on, the
head is the opinion's Evidence commit or the branch has moved since. `SeenAttested`: a
validation past its last reading was of a commit that was green then, and green Evidence
is genuine for good. `CodeOf` is defined on positions instead of by
recursion, which lets the provers reason about it.

### `BackupStore_proofs`

With no hypothesis: `TypeCorrect`, which needs the pigeonhole lemma `FreshExists` (there
is always a ciphertext that nothing holds), and `DumpsWithinPoints`
(`DumpWithinPoint`), from `PointsBacked`: from the inventory to the manifest either the
application is stopped and every row has its file, or the run does not get past its next
assertion.

`CompletedRestorable` (`CompletedIsRestorable`), `RotationResumes`
(`RotationCanResume`) and `VerifiedKept` (`VerifiedPointKept`) assume `~Overlap` and
`~Residue`, and the two findings about this module are what happens otherwise.
`RotationCanResume` is about the three validations a rotation begins with. That a point
verified after its deletion was journaled stops rotation (`rotate.py:361`) is intended and
no part of it. The
argument for building a point is `FilesStored` (what the builder recorded is what the
store holds) and `PointSigned` (the manifest precedes the marker). For rotation it is
`PlanSafe`, about what is left of the plan at any moment, hence at any interruption:
whatever it deletes belongs to a point whose journal is published or is still to be
published before the first deletion, no ciphertext among it is referred to by a
completed point without a journal or by the protected one, and the markers of a point
go before its manifest and its journal. `ReadCurrent` is where the lease enters: what
rotation read is still so when it decides.

### `ProductImport_proofs`

`TypeCorrect`, `CodesExist` (`EveryCodeOfFileExists`) and `BatchAuditExact`
(`AuditCountsBatch`), with no hypothesis, for files of any length and any number of
requests, faults and deadlocks. Both properties speak of an answered request, so the
invariant says what a running transaction has preserved. `Covered`: every code of the
file is committed, inserted by the transaction itself or still a candidate. A row is
skipped only after the wait for its key has ended, and committed products stay, so no
other request can take back what a skip relied on. `Counted`: skipped, inserted and
remaining rows add up to the rows of the file; an inserted pair is new because its token
is. `Unseen`: before its answer nothing of a request is in `rows` or `audit`, so the
commit's event is its only one and counts exactly its products (`BatchSize`).
`CandidatesCover` is the fact about validation that they start from: every code of a
file has a first row.

### Only model-checked

- Liveness under fairness: `EveryRequestAnswered` (of both modules), `WindowCloses`,
  `LeftoverReclaimed`. The prover has no rule for it.
- `ReviewGate`: which review and which CI result count is chosen with `SelectSeq`, and
  both properties compare computed answers.
- The two properties that fail.

Induction over data goes as far as least elements: `MinIsLeast` and `MaxIsGreatest` come
from the well-foundedness of the natural numbers. The induction theorems of the library,
which take a predicate as parameter, are out of reach.

## Not modelled

- *File formats*: the PDF and workbook parsers are one choice, accept or reject.
- *Power failure*: `publish` does not sync the directory after the rename. `Crash`
  is the death of the process and keeps completed renames.
- *QR labels, upload size limit, public miss limiter*: planned.
- *The authorized lossy path, validation of release records, the log and clock
  files' own crash states*: planned; here they are commands that can fail.
- *Calendar of the retention generations*: planned.
- *git and GitHub*: each command or call is atomic and answers from one state. A
  wrapper killed inside `git worktree add`, the reuse of a PID, truncated or
  malformed answers (the code refuses them, like a failing call), merge commits in a
  branch (always an error of the gate) and check runs that change from a result back
  to running are left out. A SHA is its content, so equal commits coincide.
- *Texts*: what the five files of a snapshot say, the headings of a review's body (a
  review has one of three verdicts, none among them; the instance leaves that one
  out), review and CI URLs, event logs, `STALLED`.
- *Liveness of the publisher*: a job lost between its push and its status leaves a
  head that the skip path refuses until the author pushes again, and a job of a
  dropped commit turns the current head red. No text promises otherwise.
- *Cryptography, signatures, object versions at the remote*: external. A manifest
  is what the finalizer signed; a deleted object is gone.
- *Settings, templates, certificates, compose wrappers, rehearsals*: no state of
  their own, or tests of what is modelled.

## Plan

Done: `VersionLedger`, `PdfVersions`, `ProductImport`, `AdminAuth`, `ReleaseRollback`,
`BackupStore`, `AdvisorWorkspace`, `EvidencePublish`, `ReviewGate`, and the proofs about
all of them but `ReviewGate`.

Next, in this order:

1. `RestoreRun`: the stages of a standalone restore with their checkpoints,
   site retention, resumption and rollback; an abstract specification of the
   store: a point is invisible, restorable or on its way out.
2. `AuditLog` and `RollbackClock` at the level of their files: line, anchor and
   seal with a crash at each point.
3. `Generations`: `generation_tags` and `retention_decisions` on a small calendar,
   against a reference definition; a point never becomes kept again.
4. `PublicScan`: miss limiter and its single audit per crossing, `QRCache` and
   `UploadLimit`.
5. Questions to settle before they can be properties: whether
   `login_backoff_max_seconds` may exceed `login_failure_window_seconds`, and whether
   a request admitted before a logout or reset may still run.
6. Proofs: `PassedCodeIsApproved` of `ReviewGate`, with the latest review as a greatest
   position instead of the end of a `SelectSeq`.
