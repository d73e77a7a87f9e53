----------------------------- MODULE PdfVersions -----------------------------
(***************************************************************************)
(* PDF upload, history restore, product status, the public scan and the    *)
(* orphan report: requests of one application process that interleave at   *)
(* their await points over one PostgreSQL database, one file tree and the  *)
(* process-local publication locks.                                        *)
(*                                                                         *)
(* A request is a one-shot process.  Everything it does between two await  *)
(* points that other requests can observe is one action.  Reads that a     *)
(* held row lock protects are merged with the statement that takes the     *)
(* lock.  PostgreSQL is external: row locks and uncommitted unique keys    *)
(* are modelled from how the code relies on them.                          *)
(***************************************************************************)
EXTENDS Naturals, Sequences, FiniteSetsExt

CONSTANTS
    Requests,      \* one-shot HTTP requests
    Products,      \* rows that may come to exist in "products"
    Contents,      \* distinct PDF contents; a content stands for its SHA-256
    Kinds,         \* the endpoints in use, a subset of RequestKinds
    Faults,        \* the environment's faults in play, a subset of FaultKinds
    PoolSize,      \* Settings.db_pool_max_size
    MaxCancels,    \* bound: how often one request's task is cancelled
    NoRequest,     \* a lock that nobody holds
    NoContent      \* a product without a current version

RequestKinds == {"upload", "restore", "status", "scan", "orphans"}
FaultKinds   == {"db", "commit_lost", "rename", "audit", "crash"}

ASSUME KindsAssumption   == Kinds \subseteq RequestKinds
ASSUME FaultsAssumption  == Faults \subseteq FaultKinds
ASSUME PoolAssumption    == PoolSize \in Nat \ {0}
ASSUME CancelsAssumption == MaxCancels \in Nat
ASSUME NullsAssumption   == NoRequest \notin Requests /\ NoContent \notin Contents

VARIABLES
    \* committed rows
    products,      \* rows of "products" that exist
    status,        \* products.status
    current,       \* products.current_version_id, 0 for NULL
    versions,      \* rows of "pdf_versions" per product in insertion order
    files,         \* rows of "pdf_files", by sha256
    audit,         \* rows of "audit_events" about uploads and restores
    nextId,        \* the serial behind pdf_versions.id; never rolled back
    \* locks
    rowLock,       \* SELECT ... FOR UPDATE on a product row
    fileLock,      \* the uncommitted INSERT of a pdf_files.sha256 key
    conns,         \* requests that hold a pooled connection
    shaLock,       \* StorageService._publish_locks
    \* storage
    disk,          \* contents present below files/
    temp,          \* requests whose temporary upload file exists
    thread,        \* the worker thread running _publish_sync for a request
    \* requests
    pc, op,
    nextNo,        \* next_version_no read under the row lock
    newId,         \* id of the version row inserted by the open transaction
    published,     \* PublishedFile.moved as upload_pdf knows it
    seen,          \* contents a reader has read from the database or reports
    cancels

dbVars      == <<products, status, current, versions, files, audit>>
lockVars    == <<rowLock, fileLock, conns>>
storageVars == <<disk, temp, thread, shaLock>>
localVars   == <<op, nextNo, newId, published, seen, cancels>>
vars == <<dbVars, nextId, lockVars, storageVars, pc, localVars>>

Statuses   == {"active", "disabled"}
VersionRow == [id : Nat \ {0}, no : Nat \ {0}, content : Contents]
NoOp       == [kind |-> "none"]
Operation  == [kind : {"upload"}, product : Products, content : Contents]
              \cup [kind : {"restore"}, product : Products, version : Nat \ {0}]
              \cup [kind : {"status"}, product : Products, status : Statuses]
              \cup [kind : {"scan", "orphans"}, product : Products]

\* Where a request can be.  The last three mean that it has been answered: with a
\* response, with the 500 of a pointer or a file that does not resolve, or by the
\* death of the process.  A failing statement or rename is a response like others.
Answered == {"done", "error500", "crashed"}
PCs == {"idle", "receiving", "ready", "begin", "publish", "publishing",
        "draining", "file", "version", "commit", "write", "serve", "list",
        "audit", "audit500", "auditShielded", "auditAwaited"} \cup Answered
ThreadStates == {"none", "queued", "absent", "moved", "kept", "failed"}

Event == [action : {"pdf_upload", "version_restore"}, req : Requests,
          product : Products, version : Nat]
         \cup
         [action : {"pdf_upload_rejected"}, req : Requests,
          product : Products, moved : {{}} \cup {{c} : c \in Contents}]

TypeOK ==
    /\ products \subseteq Products
    /\ status   \in [Products -> Statuses]
    /\ current  \in [Products -> Nat]
    /\ versions \in [Products -> Seq(VersionRow)]
    /\ files    \subseteq Contents
    /\ audit    \subseteq Event
    /\ nextId   \in Nat \ {0}
    /\ rowLock  \in [Products -> Requests \cup {NoRequest}]
    /\ fileLock \in [Contents -> Requests \cup {NoRequest}]
    /\ shaLock  \in [Contents -> Requests \cup {NoRequest}]
    /\ conns    \subseteq Requests
    /\ disk     \subseteq Contents
    /\ temp     \subseteq Requests
    /\ thread   \in [Requests -> ThreadStates]
    /\ pc       \in [Requests -> PCs]
    /\ op       \in [Requests -> Operation \cup {NoOp}]
    /\ nextNo   \in [Requests -> Nat]
    /\ newId    \in [Requests -> Nat]
    /\ published \in [Requests -> {"none", "moved", "kept"}]
    /\ seen     \in [Requests -> SUBSET Contents]
    /\ cancels  \in [Requests -> Nat]

Init ==
    /\ products = {}
    /\ status   = [p \in Products |-> "active"]
    /\ current  = [p \in Products |-> 0]
    /\ versions = [p \in Products |-> << >>]
    /\ files = {} /\ audit = {} /\ nextId = 1
    /\ rowLock  = [p \in Products |-> NoRequest]
    /\ fileLock = [c \in Contents |-> NoRequest]
    /\ shaLock  = [c \in Contents |-> NoRequest]
    /\ conns = {} /\ disk = {} /\ temp = {}
    /\ thread    = [r \in Requests |-> "none"]
    /\ pc        = [r \in Requests |-> "idle"]
    /\ op        = [r \in Requests |-> NoOp]
    /\ nextNo    = [r \in Requests |-> 0]
    /\ newId     = [r \in Requests |-> 0]
    /\ published = [r \in Requests |-> "none"]
    /\ seen      = [r \in Requests |-> {}]
    /\ cancels   = [r \in Requests |-> 0]

-----------------------------------------------------------------------------
(* Queries and the parts that several handlers share. *)

Content(r) == op[r].content
Target(r)  == op[r].product
Rows(p)    == {versions[p][i] : i \in DOMAIN versions[p]}

\* SELECT COALESCE(MAX(version_no), 0) + 1
NextVersionNo(p) == Max({v.no : v \in Rows(p)} \cup {0}) + 1

\* Does version row id belong to product p?
Owns(p, id) == \E v \in Rows(p) : v.id = id

\* The content that the pointer of p joins to.
CurrentContent(p) ==
    IF Owns(p, current[p])
    THEN (CHOOSE v \in Rows(p) : v.id = current[p]).content
    ELSE NoContent

\* The pointer of p is set, and the join finds no version row.
PointerUnresolved(p) == current[p] # 0 /\ ~Owns(p, current[p])

Goto(r, s) == pc' = [pc EXCEPT ![r] = s]

Unlocked(lock, r) == [k \in DOMAIN lock |-> IF lock[k] = r THEN NoRequest ELSE lock[k]]

\* Commit or rollback: the row and key locks go, the connection returns to the pool.
EndTransaction(r) ==
    /\ rowLock'  = Unlocked(rowLock, r)
    /\ fileLock' = Unlocked(fileLock, r)
    /\ conns'    = conns \ {r}

\* An exception leaves the transaction: uploads go on to the rejection audit,
\* the other endpoints answer with the error.
Abort(r) ==
    /\ EndTransaction(r)
    /\ Goto(r, IF op[r].kind = "upload" THEN "audit" ELSE "done")

-----------------------------------------------------------------------------
(* Arrival, validation, connection. *)

\* create_product; the details of creation are not this module's subject.
CreateProduct(p) ==
    /\ p \notin products
    /\ products' = products \cup {p}
    /\ UNCHANGED <<status, current, versions, files, audit, nextId, lockVars,
                   storageVars, pc, localVars>>

\* upload_pdf_endpoint enters receive_and_validate: the temporary file exists.
ReceiveUpload(r) ==
    /\ pc[r] = "idle"
    /\ "upload" \in Kinds
    /\ \E p \in Products, c \in Contents :
           op' = [op EXCEPT ![r] = [kind |-> "upload", product |-> p, content |-> c]]
    /\ temp' = temp \cup {r}
    /\ Goto(r, "receiving")
    /\ UNCHANGED <<dbVars, nextId, lockVars, disk, thread, shaLock, nextNo, newId,
                   published, seen, cancels>>

\* The other endpoints.  A restore may name any version id, of this product,
\* of another one or of none.
ReceiveRequest(r) ==
    /\ pc[r] = "idle"
    /\ \E p \in Products :
           \/ /\ "restore" \in Kinds
              /\ \E v \in 1..nextId :
                     op' = [op EXCEPT ![r] = [kind |-> "restore", product |-> p, version |-> v]]
           \/ /\ "status" \in Kinds
              /\ \E s \in Statuses :
                     op' = [op EXCEPT ![r] = [kind |-> "status", product |-> p, status |-> s]]
           \/ \E k \in Kinds \cap {"scan", "orphans"} :
                     op' = [op EXCEPT ![r] = [kind |-> k, product |-> p]]
    /\ Goto(r, "ready")
    /\ UNCHANGED <<dbVars, nextId, lockVars, storageVars, nextNo, newId, published,
                   seen, cancels>>

Validate(r) ==
    /\ pc[r] = "receiving"
    /\ Goto(r, "ready")
    /\ UNCHANGED <<dbVars, nextId, lockVars, storageVars, localVars>>

\* receive_and_validate raises UploadRejected and removes the temporary file;
\* the endpoint records the rejection.
RejectUpload(r) ==
    /\ pc[r] = "receiving"
    /\ temp' = temp \ {r}
    /\ Goto(r, "audit")
    /\ UNCHANGED <<dbVars, nextId, lockVars, disk, thread, shaLock, localVars>>

PoolHasRoom == Cardinality(conns) < PoolSize

Connect(r) ==
    /\ pc[r] = "ready"
    /\ PoolHasRoom
    /\ conns' = conns \cup {r}
    /\ Goto(r, "begin")
    /\ UNCHANGED <<dbVars, nextId, rowLock, fileLock, storageVars, localVars>>

-----------------------------------------------------------------------------
(* SELECT ... FOR UPDATE and the checks that follow it under the lock. *)

ProductMissing(r) ==
    /\ pc[r] = "begin"
    /\ op[r].kind \in {"upload", "restore", "status"}
    /\ Target(r) \notin products
    /\ Abort(r)
    /\ UNCHANGED <<dbVars, nextId, storageVars, localVars>>

\* Faulty variant: SELECT without FOR UPDATE.
RowUnguarded(r) == Target(r) \in products

RowFree(r) == Target(r) \in products /\ rowLock[Target(r)] = NoRequest

TakeRow(r) == rowLock' = [rowLock EXCEPT ![Target(r)] = r]

\* Faulty variant: no comparison with the current version under the lock.
UploadRefusedWithoutComparison(r) == PointerUnresolved(Target(r))

\* The upload is byte-identical to the current version, or the pointer does
\* not resolve: either way the transaction is left by an exception.
UploadRefused(r) ==
    \/ CurrentContent(Target(r)) = Content(r)
    \/ PointerUnresolved(Target(r))

LockForUpload(r) ==
    /\ pc[r] = "begin" /\ op[r].kind = "upload"
    /\ RowFree(r)
    /\ IF UploadRefused(r)
       THEN /\ EndTransaction(r)
            /\ Goto(r, IF PointerUnresolved(Target(r)) THEN "audit500" ELSE "audit")
            /\ UNCHANGED nextNo
       ELSE /\ TakeRow(r)
            /\ nextNo' = [nextNo EXCEPT ![r] = NextVersionNo(Target(r))]
            /\ Goto(r, "publish")
            /\ UNCHANGED <<fileLock, conns>>
    /\ UNCHANGED <<dbVars, nextId, storageVars, op, newId, published, seen, cancels>>

\* Faulty variant: the target version is looked up without its product.
VersionOfAnyProduct(r) == \E p \in Products : Owns(p, op[r].version)

\* The target version exists and is the product's own.
VersionOfProduct(r) == Owns(Target(r), op[r].version)

\* A version of another product is refused; a pointer that does not resolve
\* is an unexpected error.
LockForRestore(r) ==
    /\ pc[r] = "begin" /\ op[r].kind = "restore"
    /\ RowFree(r)
    /\ IF VersionOfProduct(r) /\ Owns(Target(r), current[Target(r)])
       THEN TakeRow(r) /\ Goto(r, "write") /\ UNCHANGED <<fileLock, conns>>
       ELSE /\ EndTransaction(r)
            /\ Goto(r, IF VersionOfProduct(r) THEN "error500" ELSE "done")
    /\ UNCHANGED <<dbVars, nextId, storageVars, localVars>>

\* Setting the status that the product already has is answered without a write.
LockForStatus(r) ==
    /\ pc[r] = "begin" /\ op[r].kind = "status"
    /\ RowFree(r)
    /\ IF status[Target(r)] = op[r].status
       THEN Abort(r)
       ELSE TakeRow(r) /\ Goto(r, "write") /\ UNCHANGED <<fileLock, conns>>
    /\ UNCHANGED <<dbVars, nextId, storageVars, localVars>>

-----------------------------------------------------------------------------
(* StorageService.publish and the worker thread that runs _publish_sync. *)

\* Faulty variant: publication without the per-content lock.
PublishWithoutLock(r) ==
    /\ pc[r] = "publish"
    /\ thread' = [thread EXCEPT ![r] = "queued"]
    /\ Goto(r, "publishing")
    /\ UNCHANGED <<dbVars, nextId, lockVars, disk, temp, shaLock, localVars>>

TakePublishLock(r) ==
    /\ pc[r] = "publish"
    /\ shaLock[Content(r)] = NoRequest
    /\ shaLock' = [shaLock EXCEPT ![Content(r)] = r]
    /\ thread'  = [thread EXCEPT ![r] = "queued"]
    /\ Goto(r, "publishing")
    /\ UNCHANGED <<dbVars, nextId, lockVars, disk, temp, localVars>>

\* target.exists(): the temporary file of a known content is discarded.
ThreadCheck(r) ==
    /\ thread[r] = "queued"
    /\ IF Content(r) \in disk
       THEN thread' = [thread EXCEPT ![r] = "kept"] /\ temp' = temp \ {r}
       ELSE thread' = [thread EXCEPT ![r] = "absent"] /\ UNCHANGED temp
    /\ UNCHANGED <<dbVars, nextId, lockVars, disk, shaLock, pc, localVars>>

\* os.open, os.fchmod and os.rename, which replaces an existing target.  The
\* temporary file may be gone when the request stopped waiting for the thread.
ThreadRename(r) ==
    /\ thread[r] = "absent"
    /\ IF r \in temp
       THEN /\ thread' = [thread EXCEPT ![r] = "moved"]
            /\ disk' = disk \cup {Content(r)}
            /\ temp' = temp \ {r}
       ELSE thread' = [thread EXCEPT ![r] = "failed"] /\ UNCHANGED <<disk, temp>>
    /\ UNCHANGED <<dbVars, nextId, lockVars, shaLock, pc, localVars>>

ThreadFails(r) ==
    /\ "rename" \in Faults
    /\ thread[r] \in {"queued", "absent"}
    /\ thread' = [thread EXCEPT ![r] = "failed"]
    /\ UNCHANGED <<dbVars, nextId, lockVars, disk, temp, shaLock, pc, localVars>>

\* Faulty variant: publish takes whatever the thread ended with for success.
PublishedWhateverHappened(r) ==
    /\ pc[r] = "publishing"
    /\ thread[r] \in {"moved", "kept", "failed"}
    /\ published' = [published EXCEPT ![r] = thread[r]]
    /\ shaLock'   = Unlocked(shaLock, r)
    /\ thread'    = [thread EXCEPT ![r] = "none"]
    /\ Goto(r, "file")
    /\ UNCHANGED <<dbVars, nextId, lockVars, disk, temp, op, nextNo, newId, seen, cancels>>

Published(r) ==
    /\ pc[r] = "publishing"
    /\ thread[r] \in {"moved", "kept"}
    /\ published' = [published EXCEPT ![r] = thread[r]]
    /\ shaLock'   = Unlocked(shaLock, r)
    /\ thread'    = [thread EXCEPT ![r] = "none"]
    /\ Goto(r, "file")
    /\ UNCHANGED <<dbVars, nextId, lockVars, disk, temp, op, nextNo, newId, seen, cancels>>

PublishFailed(r) ==
    /\ pc[r] = "publishing"
    /\ thread[r] = "failed"
    /\ shaLock' = Unlocked(shaLock, r)
    /\ thread'  = [thread EXCEPT ![r] = "none"]
    /\ Abort(r)
    /\ UNCHANGED <<dbVars, nextId, disk, temp, localVars>>

\* Faulty variant: the outcome of a cancelled publication is dropped.
DrainedWithoutOutcome(r) ==
    /\ pc[r] = "draining"
    /\ thread[r] \in {"moved", "kept", "failed"}
    /\ shaLock' = Unlocked(shaLock, r)
    /\ thread'  = [thread EXCEPT ![r] = "none"]
    /\ EndTransaction(r)
    /\ Goto(r, "auditShielded")
    /\ UNCHANGED <<dbVars, nextId, disk, temp, localVars>>

\* Faulty variant: a cancelled publication never releases its content's lock.
DrainedKeepsLock(r) ==
    /\ pc[r] = "draining"
    /\ thread[r] \in {"moved", "kept", "failed"}
    /\ published' = [published EXCEPT ![r] = IF thread[r] = "failed" THEN "none" ELSE thread[r]]
    /\ thread'    = [thread EXCEPT ![r] = "none"]
    /\ EndTransaction(r)
    /\ Goto(r, "auditShielded")
    /\ UNCHANGED <<dbVars, nextId, disk, temp, shaLock, op, nextNo, newId, seen, cancels>>

\* A cancelled publish has waited for its thread: PublishCancelled carries the
\* outcome, a failure of the thread carries none.
Drained(r) ==
    /\ pc[r] = "draining"
    /\ thread[r] \in {"moved", "kept", "failed"}
    /\ published' = [published EXCEPT ![r] = IF thread[r] = "failed" THEN "none" ELSE thread[r]]
    /\ shaLock'   = Unlocked(shaLock, r)
    /\ thread'    = [thread EXCEPT ![r] = "none"]
    /\ EndTransaction(r)
    /\ Goto(r, "auditShielded")
    /\ UNCHANGED <<dbVars, nextId, disk, temp, op, nextNo, newId, seen, cancels>>

-----------------------------------------------------------------------------
(* The rest of the upload transaction, restore and status. *)

\* INSERT INTO pdf_files ... ON CONFLICT DO NOTHING waits for an uncommitted
\* insert of the same key, then either takes the key or reads the existing row.
InsertFile(r) ==
    /\ pc[r] = "file"
    /\ fileLock[Content(r)] = NoRequest
    /\ fileLock' = IF Content(r) \in files THEN fileLock
                   ELSE [fileLock EXCEPT ![Content(r)] = r]
    /\ Goto(r, "version")
    /\ UNCHANGED <<dbVars, nextId, rowLock, conns, storageVars, localVars>>

\* Faulty variant: the success event is committed before the version is.
InsertVersionAuditsEarly(r) ==
    /\ pc[r] = "version"
    /\ newId'  = [newId EXCEPT ![r] = nextId]
    /\ nextId' = nextId + 1
    /\ audit'  = audit \cup {[action |-> "pdf_upload", req |-> r,
                              product |-> Target(r), version |-> nextId]}
    /\ Goto(r, "commit")
    /\ UNCHANGED <<products, status, current, versions, files, lockVars, storageVars,
                   op, nextNo, published, seen, cancels>>

InsertVersion(r) ==
    /\ pc[r] = "version"
    /\ newId'  = [newId EXCEPT ![r] = nextId]
    /\ nextId' = nextId + 1
    /\ Goto(r, "commit")
    /\ UNCHANGED <<dbVars, lockVars, storageVars, op, nextNo, published, seen, cancels>>

\* What the three transactions make visible when they commit.
\* Faulty variant: the pointer is set to the number of the version, not its id.
UploadEffectPointsToNumber(r) ==
    /\ files'    = files \cup {Content(r)}
    /\ versions' = [versions EXCEPT ![Target(r)] =
                       Append(@, [id |-> newId[r], no |-> nextNo[r], content |-> Content(r)])]
    /\ current'  = [current EXCEPT ![Target(r)] = nextNo[r]]
    /\ audit'    = audit \cup {[action |-> "pdf_upload", req |-> r,
                                product |-> Target(r), version |-> newId[r]]}
    /\ UNCHANGED <<products, status>>

UploadEffect(r) ==
    /\ files'    = files \cup {Content(r)}
    /\ versions' = [versions EXCEPT ![Target(r)] =
                       Append(@, [id |-> newId[r], no |-> nextNo[r], content |-> Content(r)])]
    /\ current'  = [current EXCEPT ![Target(r)] = newId[r]]
    /\ audit'    = audit \cup {[action |-> "pdf_upload", req |-> r,
                                product |-> Target(r), version |-> newId[r]]}
    /\ UNCHANGED <<products, status>>

RestoreEffect(r) ==
    /\ current' = [current EXCEPT ![Target(r)] = op[r].version]
    /\ audit'   = audit \cup {[action |-> "version_restore", req |-> r,
                               product |-> Target(r), version |-> op[r].version]}
    /\ UNCHANGED <<products, status, versions, files>>

StatusEffect(r) ==
    /\ status' = [status EXCEPT ![Target(r)] = op[r].status]
    /\ UNCHANGED <<products, current, versions, files, audit>>

Effect(r) ==
    \/ pc[r] = "commit" /\ UploadEffect(r)
    \/ pc[r] = "write" /\ op[r].kind = "restore" /\ RestoreEffect(r)
    \/ pc[r] = "write" /\ op[r].kind = "status" /\ StatusEffect(r)

\* The commit is acknowledged; upload_pdf's finally discards the temporary file.
Commit(r) ==
    /\ Effect(r)
    /\ EndTransaction(r)
    /\ temp' = temp \ {r}
    /\ Goto(r, "done")
    /\ UNCHANGED <<nextId, disk, thread, shaLock, localVars>>

\* The server commits and the acknowledgement is lost with the connection.
CommitLost(r) ==
    /\ "commit_lost" \in Faults
    /\ Effect(r)
    /\ EndTransaction(r)
    /\ Goto(r, IF op[r].kind = "upload" THEN "audit" ELSE "done")
    /\ UNCHANGED <<nextId, storageVars, localVars>>

\* A statement, the commit or the wait for a connection fails.
DbError(r) ==
    /\ "db" \in Faults
    /\ pc[r] \in {"ready", "begin", "file", "version", "commit", "write"}
    /\ Abort(r)
    /\ UNCHANGED <<dbVars, nextId, storageVars, localVars>>

-----------------------------------------------------------------------------
(* The rejection audit on a connection of its own, then upload.discard(). *)

Auditing == {"audit", "audit500", "auditShielded", "auditAwaited"}

\* The exception that the audit was about is raised again.
Reraise(r) == Goto(r, IF pc[r] = "audit500" THEN "error500" ELSE "done")

Rejection(r) == [action |-> "pdf_upload_rejected", req |-> r, product |-> Target(r),
                 moved |-> IF published[r] = "moved" THEN {Content(r)} ELSE {}]

AuditWrite(r) ==
    /\ pc[r] \in Auditing
    /\ PoolHasRoom
    /\ audit' = audit \cup {Rejection(r)}
    /\ temp'  = temp \ {r}
    /\ Reraise(r)
    /\ UNCHANGED <<products, status, current, versions, files, nextId, lockVars,
                   disk, thread, shaLock, localVars>>

\* append_independent_event logs and swallows the failure of its own write.
AuditFails(r) ==
    /\ "audit" \in Faults
    /\ pc[r] \in Auditing
    /\ temp' = temp \ {r}
    /\ Reraise(r)
    /\ UNCHANGED <<dbVars, nextId, lockVars, disk, thread, shaLock, localVars>>

-----------------------------------------------------------------------------
(* The public scan and the orphan report: one query, then the file system. *)

ReadForScan(r) ==
    /\ pc[r] = "begin" /\ op[r].kind = "scan"
    /\ seen' = [seen EXCEPT ![r] =
                   IF Target(r) \in products /\ status[Target(r)] = "active"
                   THEN {CurrentContent(Target(r))} \ {NoContent} ELSE {}]
    /\ conns' = conns \ {r}
    /\ Goto(r, IF Target(r) \in products /\ status[Target(r)] = "active"
                  /\ PointerUnresolved(Target(r))
               THEN "error500" ELSE "serve")
    /\ UNCHANGED <<dbVars, nextId, rowLock, fileLock, storageVars, op, nextNo, newId,
                   published, cancels>>

\* path.is_file() and the streamed response.
Serve(r) ==
    /\ pc[r] = "serve"
    /\ Goto(r, IF seen[r] \subseteq disk THEN "done" ELSE "error500")
    /\ UNCHANGED <<dbVars, nextId, lockVars, storageVars, localVars>>

ReadReferences(r) ==
    /\ pc[r] = "begin" /\ op[r].kind = "orphans"
    /\ seen'  = [seen EXCEPT ![r] = files]
    /\ conns' = conns \ {r}
    /\ Goto(r, "list")
    /\ UNCHANGED <<dbVars, nextId, rowLock, fileLock, storageVars, op, nextNo, newId,
                   published, cancels>>

ListOrphans(r) ==
    /\ pc[r] = "list"
    /\ seen' = [seen EXCEPT ![r] = disk \ @]
    /\ Goto(r, "done")
    /\ UNCHANGED <<dbVars, nextId, lockVars, storageVars, op, nextNo, newId, published, cancels>>

-----------------------------------------------------------------------------
(* Cancellation of the request's task, and death of the process. *)

CancelOnce(r) ==
    /\ cancels[r] < MaxCancels
    /\ cancels' = [cancels EXCEPT ![r] = @ + 1]

\* receive_and_validate removes the temporary file; upload_pdf was not entered.
CancelReceiving(r) ==
    /\ pc[r] = "receiving"
    /\ CancelOnce(r)
    /\ temp' = temp \ {r}
    /\ Goto(r, "done")
    /\ UNCHANGED <<dbVars, nextId, lockVars, disk, thread, shaLock, op, nextNo, newId,
                   published, seen>>

AfterCancel(r) == IF op[r].kind = "upload" THEN "auditShielded" ELSE "done"

\* The transaction is rolled back while CancelledError propagates.
CancelTransaction(r) ==
    /\ pc[r] \in {"ready", "begin", "publish", "file", "version", "commit", "write"}
    /\ CancelOnce(r)
    /\ EndTransaction(r)
    /\ Goto(r, AfterCancel(r))
    /\ UNCHANGED <<dbVars, nextId, storageVars, op, nextNo, newId, published, seen>>

\* The cancellation arrives while COMMIT is on its way: the server commits.
CancelCommitted(r) ==
    /\ CancelOnce(r)
    /\ Effect(r)
    /\ EndTransaction(r)
    /\ Goto(r, AfterCancel(r))
    /\ UNCHANGED <<nextId, storageVars, op, nextNo, newId, published, seen>>

\* The shielded publication goes on and publish waits for it.
CancelPublishing(r) ==
    /\ pc[r] = "publishing"
    /\ CancelOnce(r)
    /\ Goto(r, "draining")
    /\ UNCHANGED <<dbVars, nextId, lockVars, storageVars, op, nextNo, newId, published, seen>>

\* A second cancellation reaches the unshielded wait: the lock is released and
\* the outcome unknown.  The thread goes on, unless it had not been started.
CancelDraining(r) ==
    /\ pc[r] = "draining"
    /\ CancelOnce(r)
    /\ shaLock' = Unlocked(shaLock, r)
    /\ \/ UNCHANGED thread
       \/ thread[r] = "queued" /\ thread' = [thread EXCEPT ![r] = "none"]
    /\ EndTransaction(r)
    /\ Goto(r, "auditShielded")
    /\ UNCHANGED <<dbVars, nextId, disk, temp, op, nextNo, newId, published, seen>>

CancelShieldedAudit(r) ==
    /\ pc[r] = "auditShielded"
    /\ CancelOnce(r)
    /\ Goto(r, "auditAwaited")
    /\ UNCHANGED <<dbVars, nextId, lockVars, storageVars, op, nextNo, newId, published, seen>>

\* Faulty variant: the temporary file is not discarded in a finally block.
CancelAuditKeepsFile(r) ==
    /\ pc[r] \in {"audit", "audit500", "auditAwaited"}
    /\ CancelOnce(r)
    /\ Goto(r, "done")
    /\ UNCHANGED <<dbVars, nextId, lockVars, storageVars, op, nextNo, newId, published, seen>>

\* The audit of an ordinary failure is not shielded, and a shielded one is
\* shielded once.
CancelAudit(r) ==
    /\ pc[r] \in {"audit", "audit500", "auditAwaited"}
    /\ CancelOnce(r)
    /\ temp' = temp \ {r}
    /\ Goto(r, "done")
    /\ UNCHANGED <<dbVars, nextId, lockVars, disk, thread, shaLock, op, nextNo, newId,
                   published, seen>>

\* The process dies and restarts: open transactions roll back, files stay.
Crash ==
    /\ "crash" \in Faults
    /\ \E r \in Requests : pc[r] \notin {"idle"} \cup Answered
    /\ rowLock'  = [p \in Products |-> NoRequest]
    /\ fileLock' = [c \in Contents |-> NoRequest]
    /\ shaLock'  = [c \in Contents |-> NoRequest]
    /\ conns'    = {}
    /\ thread'   = [r \in Requests |-> "none"]
    /\ pc' = [r \in Requests |-> IF pc[r] \in {"idle"} \cup Answered THEN pc[r] ELSE "crashed"]
    /\ UNCHANGED <<dbVars, nextId, disk, temp, localVars>>

-----------------------------------------------------------------------------
\* The steps that the event loop, the pool and PostgreSQL keep taking.
Step(r) ==
    \/ Validate(r) \/ RejectUpload(r) \/ Connect(r)
    \/ ProductMissing(r) \/ LockForUpload(r) \/ LockForRestore(r) \/ LockForStatus(r)
    \/ TakePublishLock(r) \/ Published(r) \/ PublishFailed(r) \/ Drained(r)
    \/ InsertFile(r) \/ InsertVersion(r) \/ Commit(r) \/ AuditWrite(r)
    \/ ReadForScan(r) \/ Serve(r) \/ ReadReferences(r) \/ ListOrphans(r)

Thread(r) == ThreadCheck(r) \/ ThreadRename(r)

Cancel(r) ==
    \/ CancelReceiving(r) \/ CancelTransaction(r) \/ CancelCommitted(r)
    \/ CancelPublishing(r) \/ CancelDraining(r)
    \/ CancelShieldedAudit(r) \/ CancelAudit(r)

Fault(r) == CommitLost(r) \/ DbError(r) \/ ThreadFails(r) \/ AuditFails(r)

\* Every request has been answered and no thread is left.
Quiet ==
    /\ \A r \in Requests : pc[r] \in Answered /\ thread[r] \notin {"queued", "absent"}
    /\ UNCHANGED vars

Next ==
    \/ \E p \in Products : CreateProduct(p)
    \/ \E r \in Requests : ReceiveUpload(r) \/ ReceiveRequest(r)
    \/ \E r \in Requests : Step(r) \/ Thread(r) \/ Cancel(r) \/ Fault(r)
    \/ Crash
    \/ Quiet

Spec == Init /\ [][Next]_vars

\* asyncio resumes every task whose await can proceed, the executor runs every
\* queued thread, and PostgreSQL grants a lock that stays free.
FairSpec ==
    /\ Spec
    /\ \A r \in Requests : WF_vars(Step(r)) /\ WF_vars(Thread(r))

-----------------------------------------------------------------------------
(* Safety. *)

\* Every version names a pdf_files row, and every such row names a file that is
\* present: the move precedes the commit (upload_pdf, publish).
NoDanglingFile ==
    /\ \A p \in Products : \A v \in Rows(p) : v.content \in files
    /\ files \subseteq disk

\* Versions of a product are numbered 1, 2, ... without gap or repetition in the
\* order of their ids, whatever uploads are cancelled, fail or interleave.
VersionNumbersContiguous ==
    \A p \in Products : \A i \in DOMAIN versions[p] :
        /\ versions[p][i].no = i
        /\ versions[p][i].id < nextId
        /\ \A j \in 1..(i - 1) : versions[p][j].id < versions[p][i].id

\* Two products never share a version id, and the current pointer is NULL exactly
\* as long as the product has no version and otherwise names one of its own
\* (restore_pdf_version, the composite foreign key).
PointerResolves ==
    \A p \in Products :
        /\ (current[p] = 0) <=> (versions[p] = << >>)
        /\ current[p] # 0 => Owns(p, current[p])
        /\ \A q \in Products \ {p} : \A v \in Rows(p) : ~Owns(q, v.id)

\* No scan, restore or upload meets a pointer that does not resolve, and no scan a
\* file that is not there (the RuntimeErrors of resolve_public_document,
\* restore_pdf_version and upload_pdf, which audits before it raises).
NeverUnresolved == \A r \in Requests : pc[r] \notin {"error500", "audit500"}

\* The success audits are exactly the version rows, one request each: no version
\* without its event, no event without its version, no request that adds two.
AuditMatchesLedger ==
    LET uploads == {e \in audit : e.action = "pdf_upload"} IN
    /\ \A p \in Products :
           {v.id : v \in Rows(p)} = {e.version : e \in {u \in uploads : u.product = p}}
    /\ \A e, f \in uploads : e.req = f.req => e = f
    /\ \A e \in audit : e.action = "version_restore" => Owns(e.product, e.version)

\* An answered request holds no connection, no row, key or publication lock, and
\* its temporary file is gone (upload.discard in the finally of upload_pdf).
NothingHeldOnceAnswered ==
    \A r \in Requests : pc[r] = "done" =>
        /\ r \notin conns \cup temp
        /\ \A p \in Products : rowLock[p] # r
        /\ \A c \in Contents : fileLock[c] # r /\ shaLock[c] # r

\* An upload that is still able to commit or to audit its rejection.
Unfinished(r) == pc[r] \notin {"idle"} \cup Answered

\* A file that no row references belongs to an upload in progress, or a rejection
\* audit names it as moved (_upload_rejection_event, moved_file_sha256).
OrphanTraced ==
    \A c \in disk \ files :
        \/ \E r \in Requests : op[r].kind = "upload" /\ Content(r) = c /\ Unfinished(r)
        \/ \E e \in audit : e.action = "pdf_upload_rejected" /\ e.moved = {c}

\* A request whose upload is committed is not also recorded as rejected.
RejectedNotCommitted ==
    \A e, f \in audit :
        e.action = "pdf_upload" /\ f.action = "pdf_upload_rejected" => e.req # f.req

(* Action properties. *)

\* A published file is never renamed over (_publish_sync under the publication lock).
NoOverwrite ==
    [][\A r \in Requests : thread[r] = "absent" /\ thread'[r] = "moved"
           => Content(r) \notin disk]_vars

(* Refinement: what the database shows implements the abstract ledger. *)

Ledger == INSTANCE VersionLedger WITH
    catalog <- products,
    history <- [p \in Products |-> [i \in DOMAIN versions[p] |-> versions[p][i].content]],
    shown   <- [p \in Products |-> CurrentContent(p)]

\* Committed state changes only by one whole ledger operation at a time.
LedgerRefinement == Ledger!LedgerSpec

(* Liveness. *)

\* Every request that arrived is answered: no wait for a connection, a row, a
\* key or the publication lock lasts forever.
EveryRequestAnswered ==
    \A r \in Requests : (pc[r] # "idle") ~> (pc[r] \in Answered)
=============================================================================
