-------------------------- MODULE PdfVersions_proofs --------------------------
(***************************************************************************)
(* Proofs about PdfVersions for any number of requests, products, contents,*)
(* connections and cancellations and under every fault of FaultKinds.      *)
(***************************************************************************)
EXTENDS PdfVersions, SequenceTheorems, TLAPS

-----------------------------------------------------------------------------
(* The inductive invariant, as named parts. *)

Uploading == {"publish", "publishing", "draining", "file", "version", "commit"}
Holding   == Uploading \cup {"write"}

\* Which endpoint a request can be of, given where it is.
KindInv ==
    \A r \in Requests :
        /\ pc[r] = "idle" => thread[r] = "none"
        /\ pc[r] # "idle" => op[r] \in Operation
        /\ pc[r] \in {"receiving"} \cup Uploading \cup Auditing => op[r].kind = "upload"
        /\ pc[r] = "write" => op[r].kind \in {"restore", "status"}
        /\ thread[r] # "none" => op[r].kind = "upload"

\* Between its SELECT ... FOR UPDATE and the end of its transaction a request
\* holds the row of an existing product.
LockInv(r) ==
    pc[r] \in Holding => Target(r) \in products /\ rowLock[Target(r)] = r

\* The version number read under the lock stays the next free one.
NumberInv(r) ==
    pc[r] \in Uploading => nextNo[r] = Len(versions[Target(r)]) + 1

\* The content differs from the current one, also after the comparison.
NewInv(r) ==
    pc[r] \in Uploading =>
        \A v \in Rows(Target(r)) : v.id = current[Target(r)] => v.content # Content(r)

\* The id of an uncommitted version row is new, and greater than every id of
\* the product.
IdInv(r) ==
    pc[r] = "commit" =>
        /\ newId[r] \in 1..(nextId - 1)
        /\ \A p \in Products : ~Owns(p, newId[r])
        /\ \A v \in Rows(Target(r)) : v.id < newId[r]

\* A restore that is about to write has found its version.
RestoreInv(r) ==
    pc[r] = "write" /\ op[r].kind = "restore" => VersionOfProduct(r)

\* Once publication is known to have succeeded the file is there.
DiskInv(r) ==
    thread[r] \in {"moved", "kept"} \/ pc[r] \in {"file", "version", "commit"}
        => Content(r) \in disk

RequestInv(r) ==
    LockInv(r) /\ NumberInv(r) /\ NewInv(r) /\ IdInv(r) /\ RestoreInv(r) /\ DiskInv(r)

\* No two open transactions have drawn the same id.
DistinctIds ==
    \A r, s \in Requests : r # s /\ pc[r] = "commit" /\ pc[s] = "commit" => newId[r] # newId[s]

Safe == NoDanglingFile /\ VersionNumbersContiguous /\ PointerResolves

IInv == TypeOK /\ KindInv /\ (\A r \in Requests : RequestInv(r)) /\ DistinctIds /\ Safe

-----------------------------------------------------------------------------
(* Types. *)

USE DEF Goto

Typed == TypeOK /\ KindInv

LEMMA TypedInit == Init => Typed
  BY NullsAssumption DEF Init, Typed, TypeOK, KindInv, Statuses, PCs, Answered, ThreadStates,
     Uploading, Auditing

LEMMA MaxOfInterval == ASSUME NEW n \in Nat PROVE Max(0..n) = n
  BY DEF Max

\* Under contiguous numbering, MAX(version_no) + 1 is one more than the count.
LEMMA NextVersionNoIsLen ==
    ASSUME TypeOK, VersionNumbersContiguous, NEW p \in Products
    PROVE  NextVersionNo(p) = Len(versions[p]) + 1
<1> DEFINE nos == {v.no : v \in Rows(p)} \cup {0}
           n == Len(versions[p])
<1>1. versions[p] \in Seq(VersionRow) /\ n \in Nat /\ DOMAIN versions[p] = 1..n
  BY DEF TypeOK
<1>2. \A i \in 1..n : versions[p][i].no = i
  BY <1>1 DEF VersionNumbersContiguous
<1>3. nos = 0..n
  BY <1>1, <1>2 DEF Rows
<1> QED  BY <1>1, <1>3, MaxOfInterval DEF NextVersionNo

LEMMA RowType ==
    ASSUME TypeOK, NEW p \in Products, NEW i \in DOMAIN versions[p]
    PROVE  versions[p][i] \in VersionRow
<1>1. versions[p] \in Seq(VersionRow)  BY DEF TypeOK
<1> QED  BY <1>1

\* Ids grow along the history, so they tell the rows of a product apart.
LEMMA IdsTellApart ==
    ASSUME TypeOK, VersionNumbersContiguous, NEW p \in Products,
           NEW u \in Rows(p), NEW v \in Rows(p), u.id = v.id
    PROVE  u = v
<1>1. PICK i \in DOMAIN versions[p], j \in DOMAIN versions[p] : u = versions[p][i] /\ v = versions[p][j]
  BY DEF Rows
<1>2. i \in Nat /\ j \in Nat /\ i >= 1 /\ j >= 1
  <2>1. versions[p] \in Seq(VersionRow)  BY DEF TypeOK
  <2> QED  BY <2>1
<1>3. u.id \in Nat /\ v.id \in Nat  BY <1>1, RowType DEF VersionRow
<1>4. CASE i < j
  BY <1>1, <1>2, <1>3, <1>4 DEF VersionNumbersContiguous
<1>5. CASE j < i
  BY <1>1, <1>2, <1>3, <1>5 DEF VersionNumbersContiguous
<1> QED  BY <1>1, <1>2, <1>4, <1>5

LEMMA CurrentIs ==
    ASSUME TypeOK, VersionNumbersContiguous, NEW p \in Products,
           NEW v \in Rows(p), v.id = current[p]
    PROVE  CurrentContent(p) = v.content
<1> DEFINE u == CHOOSE w \in Rows(p) : w.id = current[p]
<1>1. u \in Rows(p) /\ u.id = current[p]  OBVIOUS
<1> HIDE DEF u
<1>2. u = v  BY <1>1, IdsTellApart
<1>3. CurrentContent(p) = u.content  BY DEF CurrentContent, Owns, u
<1> QED  BY <1>2, <1>3

LEMMA CurrentContentType ==
    ASSUME TypeOK, NEW p \in Products
    PROVE  CurrentContent(p) \in Contents \cup {NoContent}
<1>1. \A v \in Rows(p) : v \in VersionRow
  BY DEF TypeOK, Rows
<1> QED  BY <1>1 DEF CurrentContent, Owns, VersionRow

\* Where a transaction that ends may go on.
LEMMA EndsTyped ==
    ASSUME Typed, NEW r \in Requests, pc[r] # "idle", EndTransaction(r),
           NEW s \in {"done", "error500"} \cup Auditing, Goto(r, s),
           s \in Auditing => op[r].kind = "upload",
           UNCHANGED <<dbVars, nextId, storageVars, localVars>>
    PROVE  Typed'
  BY DEF Typed, TypeOK, KindInv, dbVars, lockVars, storageVars, localVars, PCs, Answered,
         Uploading, Auditing, EndTransaction, Unlocked

\* A request that takes the row of its product goes on to publish or to write.
LEMMA TakeRowTyped ==
    ASSUME Typed, NEW r \in Requests, pc[r] # "idle", Target(r) \in Products, TakeRow(r),
           NEW s \in {"publish", "write"}, Goto(r, s),
           s = "publish" <=> op[r].kind = "upload",
           op[r].kind \in {"upload", "restore", "status"},
           NEW n \in Nat, nextNo' = [nextNo EXCEPT ![r] = n],
           UNCHANGED <<dbVars, nextId, storageVars, fileLock, conns, op, newId, published,
                       seen, cancels>>
    PROVE  Typed'
<1> USE DEF Typed, TypeOK, dbVars, lockVars, storageVars, localVars, TakeRow, PCs, Answered
<1>1. TypeOK'  OBVIOUS
<1>2. KindInv'  BY DEF KindInv, Uploading, Auditing
<1> QED  BY <1>1, <1>2

\* What a committing transaction writes has the types of the tables.
LEMMA EffectTyped ==
    ASSUME IInv, NEW r \in Requests, Effect(r)
    PROVE  /\ pc[r] # "idle"
           /\ (products \subseteq Products)'
           /\ (status \in [Products -> Statuses])'
           /\ (current \in [Products -> Nat])'
           /\ (versions \in [Products -> Seq(VersionRow)])'
           /\ (files \subseteq Contents)'
           /\ (audit \subseteq Event)'
<1>0. Typed  BY DEF IInv, Typed
<1> USE <1>0 DEF Typed, TypeOK
<1>1. CASE pc[r] = "commit" /\ UploadEffect(r)
  <2>1. Target(r) \in Products /\ Content(r) \in Contents
    BY <1>1 DEF KindInv, Uploading, Operation, Target, Content
  <2>2. newId[r] \in Nat \ {0} /\ nextNo[r] \in Nat \ {0}
    BY <1>1, <2>1 DEF IInv, RequestInv, IdInv, NumberInv, Uploading
  <2> DEFINE row == [id |-> newId[r], no |-> nextNo[r], content |-> Content(r)]
             event == [action |-> "pdf_upload", req |-> r, product |-> Target(r),
                       version |-> newId[r]]
  <2>3. row \in VersionRow  BY <2>1, <2>2 DEF VersionRow
  <2>4. event \in Event  BY <2>1, <2>2 DEF Event
  <2>5. (versions \in [Products -> Seq(VersionRow)])'
    BY <1>1, <2>1, <2>3 DEF UploadEffect
  <2> HIDE DEF row, event
  <2>6. current' \in [Products -> Nat] /\ files' \subseteq Contents
    BY <1>1, <2>1, <2>2 DEF UploadEffect
  <2>7. (audit \subseteq Event)'  BY <1>1, <2>4 DEF UploadEffect, event
  <2> QED  BY <1>1, <2>5, <2>6, <2>7 DEF UploadEffect
<1>2. CASE pc[r] = "write" /\ op[r].kind = "restore" /\ RestoreEffect(r)
  <2>1. Target(r) \in Products /\ op[r].version \in Nat
    BY <1>2 DEF KindInv, Operation, Target
  <2> DEFINE event == [action |-> "version_restore", req |-> r, product |-> Target(r),
                       version |-> op[r].version]
  <2>2. event \in Event  BY <2>1 DEF Event
  <2>3. (audit \subseteq Event)'  BY <1>2, <2>2 DEF RestoreEffect
  <2> QED  BY <1>2, <2>1, <2>3 DEF RestoreEffect
<1>3. CASE pc[r] = "write" /\ op[r].kind = "status" /\ StatusEffect(r)
  <2>1. Target(r) \in Products /\ op[r].status \in Statuses
    BY <1>3 DEF KindInv, Operation, Target
  <2> QED  BY <1>3, <2>1 DEF StatusEffect
<1> QED  BY <1>1, <1>2, <1>3 DEF Effect

\* A commit, whether or not the application learns of it.
LEMMA CommitsTyped ==
    ASSUME IInv, NEW r \in Requests, Effect(r), EndTransaction(r),
           NEW s \in {"done"} \cup Auditing, Goto(r, s),
           s \in Auditing => op[r].kind = "upload",
           temp' \subseteq temp, NEW n \in Nat, cancels' = [cancels EXCEPT ![r] = n],
           UNCHANGED <<nextId, disk, thread, shaLock, op, nextNo, newId, published, seen>>
    PROVE  Typed'
<1>0. Typed  BY DEF IInv, Typed
<1>1. pc[r] # "idle"  BY EffectTyped
<1>2. TypeOK'
  BY <1>0, EffectTyped DEF Typed, TypeOK, EndTransaction, Unlocked, PCs, Answered, Auditing
<1>3. KindInv'  BY <1>0, <1>1 DEF Typed, TypeOK, KindInv, Uploading, Auditing
<1> QED  BY <1>2, <1>3 DEF Typed

LEMMA StepTyped ==
    ASSUME IInv, NEW r \in Requests, Step(r)
    PROVE  Typed'
<1>0. Typed /\ VersionNumbersContiguous  BY DEF IInv, Typed, Safe
<1>a. /\ nextNo[r] \in Nat /\ nextNo = [nextNo EXCEPT ![r] = nextNo[r]]
      /\ cancels[r] \in Nat /\ cancels = [cancels EXCEPT ![r] = cancels[r]]
  BY <1>0 DEF Typed, TypeOK
<1>b. RowFree(r) => Target(r) \in Products
  BY <1>0 DEF Typed, TypeOK, RowFree
<1>5. CASE LockForUpload(r)
  <2>1. Target(r) \in Products /\ NextVersionNo(Target(r)) \in Nat
    BY <1>0, <1>5, <1>b, NextVersionNoIsLen DEF LockForUpload, Typed, TypeOK
  <2>2. CASE UploadRefused(r)
    BY <1>0, <1>5, <2>2, EndsTyped DEF LockForUpload, Auditing, localVars
  <2>3. CASE ~UploadRefused(r)
    BY <1>0, <1>5, <2>1, <2>3, TakeRowTyped DEF LockForUpload
  <2> QED  BY <2>2, <2>3
<1>6. CASE LockForRestore(r)
  <2>1. CASE VersionOfProduct(r) /\ Owns(Target(r), current[Target(r)])
    BY <1>0, <1>a, <1>b, <1>6, <2>1, TakeRowTyped DEF LockForRestore, localVars
  <2>2. CASE ~(VersionOfProduct(r) /\ Owns(Target(r), current[Target(r)]))
    BY <1>0, <1>6, <2>2, EndsTyped DEF LockForRestore, Auditing
  <2> QED  BY <2>1, <2>2
<1>7. CASE LockForStatus(r)
  <2>1. CASE status[Target(r)] = op[r].status
    BY <1>0, <1>7, <2>1, EndsTyped DEF LockForStatus, Abort, Auditing
  <2>2. CASE status[Target(r)] # op[r].status
    BY <1>0, <1>a, <1>b, <1>7, <2>2, TakeRowTyped DEF LockForStatus, localVars
  <2> QED  BY <2>1, <2>2
<1>14. CASE Commit(r)
  <2>1. temp' \subseteq temp /\ cancels' = [cancels EXCEPT ![r] = cancels[r]]
    BY <1>a, <1>14 DEF Commit, localVars
  <2> QED  BY <1>a, <1>14, <2>1, CommitsTyped DEF Commit, localVars, Auditing
<1> USE <1>0 DEF Typed, TypeOK, KindInv, vars, dbVars, lockVars, storageVars, localVars,
            PCs, Answered, Uploading, Auditing, ThreadStates, Target, Content,
            EndTransaction, Unlocked, Abort
<1>1. CASE Validate(r)  BY <1>1 DEF Validate
<1>2. CASE RejectUpload(r)  BY <1>2 DEF RejectUpload
<1>3. CASE Connect(r)  BY <1>3 DEF Connect
<1>4. CASE ProductMissing(r)  BY <1>4 DEF ProductMissing
<1>8. CASE TakePublishLock(r)
  <2>1. TypeOK'  BY <1>8 DEF TakePublishLock, Operation
  <2>2. KindInv'  BY <1>8 DEF TakePublishLock
  <2> QED  BY <2>1, <2>2
<1>9. CASE Published(r)  BY <1>9 DEF Published
<1>10. CASE PublishFailed(r)  BY <1>10 DEF PublishFailed
<1>11. CASE Drained(r)  BY <1>11 DEF Drained
<1>12. CASE InsertFile(r)  BY <1>12 DEF InsertFile
<1>13. CASE InsertVersion(r)  BY <1>13 DEF InsertVersion
<1>15. CASE AuditWrite(r)
  <2>1. Target(r) \in Products /\ Content(r) \in Contents
    BY <1>15 DEF AuditWrite, Operation
  <2>2. Rejection(r) \in Event
    BY <2>1 DEF Rejection, Event
  <2> QED  BY <1>15, <2>2 DEF AuditWrite, Reraise, Goto
<1>16. CASE ReadForScan(r)
  <2>1. Target(r) \in Products => CurrentContent(Target(r)) \in Contents \cup {NoContent}
    BY CurrentContentType
  <2> QED  BY <1>16, <2>1 DEF ReadForScan
<1>17. CASE Serve(r)  BY <1>17 DEF Serve
<1>18. CASE ReadReferences(r)  BY <1>18 DEF ReadReferences
<1>19. CASE ListOrphans(r)  BY <1>19 DEF ListOrphans
<1> HIDE <1>0 DEF Typed
<1> QED
  BY <1>1, <1>2, <1>3, <1>4, <1>5, <1>6, <1>7, <1>8, <1>9, <1>10, <1>11, <1>12, <1>13,
     <1>14, <1>15, <1>16, <1>17, <1>18, <1>19 DEF Step

LEMMA OtherTyped ==
    ASSUME IInv, NEW r \in Requests,
           ReceiveUpload(r) \/ ReceiveRequest(r) \/ Thread(r) \/ Cancel(r) \/ Fault(r)
    PROVE  Typed'
<1>0. Typed  BY DEF IInv, Typed
<1>a. cancels[r] \in Nat /\ cancels = [cancels EXCEPT ![r] = cancels[r]]
  BY <1>0 DEF Typed, TypeOK
<1>1. CASE CommitLost(r)
  BY <1>a, <1>1, CommitsTyped DEF CommitLost, localVars, storageVars, Auditing
<1>2. CASE CancelCommitted(r)
  <2>1. cancels[r] + 1 \in Nat  BY <1>a
  <2> QED
    BY <1>2, <2>1, CommitsTyped DEF CancelCommitted, CancelOnce, AfterCancel, storageVars, Auditing
<1>3. CASE DbError(r)
  BY <1>0, <1>3, EndsTyped DEF DbError, Abort, Auditing
<1>4. CASE ReceiveUpload(r)
  <2>1. PICK p \in Products, c \in Contents :
          op' = [op EXCEPT ![r] = [kind |-> "upload", product |-> p, content |-> c]]
    BY <1>4 DEF ReceiveUpload
  <2>2. [kind |-> "upload", product |-> p, content |-> c] \in Operation
    BY DEF Operation
  <2> QED
    BY <1>0, <1>4, <2>1, <2>2
    DEF ReceiveUpload, Typed, TypeOK, KindInv, dbVars, lockVars, PCs, Uploading, Auditing
<1>5. CASE ReceiveRequest(r)
  <2>1. PICK o \in Operation : op' = [op EXCEPT ![r] = o]
    BY <1>0, <1>5 DEF ReceiveRequest, Operation, Typed, TypeOK
  <2> QED
    BY <1>0, <1>5, <2>1
    DEF ReceiveRequest, Typed, TypeOK, KindInv, dbVars, lockVars, storageVars, PCs,
        Uploading, Auditing
<1> USE <1>0 DEF Typed, TypeOK, KindInv, vars, dbVars, lockVars, storageVars, localVars,
            PCs, Answered, Uploading, Auditing, ThreadStates,
            EndTransaction, Unlocked, CancelOnce
<1>6. Thread(r) /\ thread[r] # "none" => Content(r) \in Contents
  BY DEF Operation, Content
<1>7. CASE ThreadCheck(r)  BY <1>7 DEF ThreadCheck
<1>8. CASE ThreadRename(r)
  <2>1. disk' \subseteq Contents /\ temp' \subseteq Requests
    BY <1>6, <1>8 DEF ThreadRename, Thread
  <2>2. thread' \in [Requests -> ThreadStates]  BY <1>8 DEF ThreadRename
  <2>3. TypeOK'  BY <1>8, <2>1, <2>2 DEF ThreadRename
  <2>4. KindInv'  BY <1>8 DEF ThreadRename
  <2> QED  BY <2>3, <2>4
<1>9. CASE ThreadFails(r)  BY <1>9 DEF ThreadFails
<1>10. CASE AuditFails(r)  BY <1>10 DEF AuditFails, Reraise, Goto
<1>11. CASE CancelReceiving(r)  BY <1>11 DEF CancelReceiving
<1>12. CASE CancelTransaction(r)  BY <1>12 DEF CancelTransaction, AfterCancel
<1>13. CASE CancelPublishing(r)  BY <1>13 DEF CancelPublishing
<1>14. CASE CancelDraining(r)
  <2>1. CASE UNCHANGED thread  BY <1>14, <2>1 DEF CancelDraining
  <2>2. CASE thread' = [thread EXCEPT ![r] = "none"]  BY <1>14, <2>2 DEF CancelDraining
  <2> QED  BY <1>14, <2>1, <2>2 DEF CancelDraining
<1>15. CASE CancelShieldedAudit(r)  BY <1>15 DEF CancelShieldedAudit
<1>16. CASE CancelAudit(r)  BY <1>16 DEF CancelAudit
<1> HIDE <1>0 DEF Typed
<1> QED
  BY <1>1, <1>2, <1>3, <1>4, <1>5, <1>7, <1>8, <1>9, <1>10, <1>11, <1>12, <1>13, <1>14,
     <1>15, <1>16 DEF Thread, Cancel, Fault

LEMMA NextTyped ==
    ASSUME IInv, [Next]_vars
    PROVE  Typed'
<1>0. Typed  BY DEF IInv, Typed
<1>1. CASE \E p \in Products : CreateProduct(p)
  BY <1>0, <1>1 DEF CreateProduct, Typed, TypeOK, KindInv, lockVars, storageVars, localVars
<1>2. CASE Crash
  BY <1>0, <1>2 DEF Crash, Typed, TypeOK, KindInv, dbVars, localVars, PCs, Answered,
     Uploading, Auditing, ThreadStates
<1>3. CASE UNCHANGED vars
  BY <1>0, <1>3 DEF vars, Typed, TypeOK, KindInv, dbVars, lockVars, storageVars, localVars
<1> QED
  BY <1>1, <1>2, <1>3, StepTyped, OtherTyped DEF Next, Quiet

-----------------------------------------------------------------------------
(* Steps that commit nothing: the ledger stays and so does IInv. *)

\* Request r commits nothing, and touches no other request's state or row.
Alone(r) ==
    /\ UNCHANGED <<versions, current, files>>
    /\ products \subseteq products' /\ disk \subseteq disk' /\ nextId' \in {nextId, nextId + 1}
    /\ \A s \in Requests \ {r} :
           /\ pc'[s] = pc[s] /\ op'[s] = op[s] /\ thread'[s] = thread[s]
           /\ nextNo'[s] = nextNo[s] /\ newId'[s] = newId[s]
           /\ \A p \in Products : rowLock[p] = s => rowLock'[p] = s

LEMMA AloneOthers ==
    ASSUME IInv, NEW r \in Requests, Alone(r), NEW s \in Requests \ {r}
    PROVE  RequestInv(s)'
<1>1. RequestInv(s) /\ TypeOK /\ KindInv  BY DEF IInv
<1>2. pc[s] \in Holding => Target(s) \in Products
  BY <1>1 DEF TypeOK, RequestInv, LockInv
<1> USE <1>1, <1>2 DEF RequestInv, Alone, Target
<1>3. LockInv(s)'  BY DEF LockInv
<1>4. NumberInv(s)'  BY DEF NumberInv
<1>5. IdInv(s)'
  <2>1. nextId \in Nat /\ nextId' \in Nat /\ nextId <= nextId'  BY DEF TypeOK
  <2>2. \A p : Rows(p)' = Rows(p)  BY DEF Rows
  <2>3. \A p, id : Owns(p, id)' <=> Owns(p, id)  BY <2>2 DEF Owns
  <2>4. pc[s] = "commit" => newId[s] \in 1..(nextId' - 1)
    BY <2>1 DEF IdInv
  <2> QED  BY <2>2, <2>3, <2>4 DEF IdInv
<1>6. RestoreInv(s)'  BY DEF RestoreInv, VersionOfProduct, Owns, Rows
<1>7. DiskInv(s)'  BY DEF DiskInv, Content
<1>8. NewInv(s)'  BY DEF NewInv, Rows, Content
<1> QED  BY <1>3, <1>4, <1>5, <1>6, <1>7, <1>8

LEMMA AloneSafe ==
    ASSUME IInv, NEW r \in Requests, Alone(r)
    PROVE  Safe'
<1>1. NoDanglingFile'  BY DEF IInv, Safe, NoDanglingFile, Alone, Rows
<1>2. VersionNumbersContiguous'
  <2>1. \A p \in Products : \A i \in DOMAIN versions[p] : versions[p][i].id \in Nat
    BY RowType DEF IInv, VersionRow
  <2> QED  BY <2>1 DEF IInv, TypeOK, Safe, VersionNumbersContiguous, Alone
<1>3. PointerResolves'  BY DEF IInv, Safe, PointerResolves, Alone, Rows, Owns
<1> QED  BY <1>1, <1>2, <1>3 DEF Safe

\* It remains to look at the request that takes the step.
LEMMA AloneInv ==
    ASSUME IInv, Typed', NEW r \in Requests, Alone(r), RequestInv(r)',
           pc'[r] = "commit" => (pc[r] = "commit" /\ newId'[r] = newId[r]) \/ newId'[r] = nextId
    PROVE  IInv'
<1>1. \A s \in Requests : RequestInv(s)'  BY AloneOthers
<1>2. DistinctIds'
  <2>1. \A s \in Requests : pc[s] = "commit" => newId[s] # nextId
    BY DEF IInv, TypeOK, RequestInv, IdInv
  <2> QED  BY <2>1 DEF IInv, DistinctIds, Alone
<1> QED  BY <1>1, <1>2, AloneSafe DEF IInv, Typed

\* The request is, from now on, outside its transaction.
LEMMA OutsideInv ==
    ASSUME IInv, Typed', NEW r \in Requests, Alone(r), pc'[r] \notin Holding,
           \/ op'[r] = op[r] /\ thread'[r] \in {thread[r], "none"}
           \/ thread'[r] = "none"
    PROVE  IInv'
<1>1. RequestInv(r)'
  BY DEF IInv, RequestInv, LockInv, NumberInv, NewInv, IdInv, RestoreInv, DiskInv, Holding,
     Uploading, Alone, Content
<1> QED  BY <1>1, AloneInv DEF Holding, Uploading

\* The request stays inside a transaction that has the row already.
LEMMA InsideInv ==
    ASSUME IInv, Typed', NEW r \in Requests, Alone(r), pc[r] \in Holding, pc'[r] \in Holding,
           pc[r] \in Uploading <=> pc'[r] \in Uploading,
           UNCHANGED <<op, nextNo, rowLock, products>>,
           pc'[r] = "commit" =>
               \/ pc[r] = "commit" /\ newId' = newId
               \/ newId'[r] = nextId /\ nextId' = nextId + 1,
           DiskInv(r)'
    PROVE  IInv'
<1>0. RequestInv(r) /\ TypeOK /\ Safe  BY DEF IInv
<1>1. Target(r) \in Products  BY <1>0 DEF RequestInv, LockInv, TypeOK
<1>2. LockInv(r)' /\ NumberInv(r)'
  BY <1>0 DEF RequestInv, LockInv, NumberInv, Alone, Target
<1>3. IdInv(r)'
  <2>1. \A p : Rows(p)' = Rows(p)  BY DEF Rows, Alone
  <2>2. \A p, id : Owns(p, id)' <=> Owns(p, id)  BY <2>1 DEF Owns
  <2>3. CASE pc[r] = "commit" /\ newId' = newId
    <3>1. newId[r] \in 1..(nextId - 1) => newId[r] \in 1..(nextId' - 1)
      BY <1>0 DEF TypeOK, Alone
    <3> QED  BY <1>0, <2>1, <2>2, <2>3, <3>1 DEF RequestInv, IdInv, Target
  <2>4. CASE newId'[r] = nextId /\ nextId' = nextId + 1
    <3>1. newId'[r] \in 1..(nextId' - 1)  BY <1>0, <2>4 DEF TypeOK
    <3>2. \A p \in Products : \A v \in Rows(p) : v.id < nextId
      BY <1>0 DEF Safe, VersionNumbersContiguous, Rows
    <3>3. \A p \in Products : ~Owns(p, nextId)
      BY <1>0, <3>2 DEF TypeOK, Owns
    <3> QED  BY <1>1, <2>1, <2>2, <2>4, <3>1, <3>2, <3>3 DEF IdInv, Target
  <2>5. CASE pc'[r] # "commit"  BY <2>5 DEF IdInv
  <2> QED  BY <2>3, <2>4, <2>5
<1>4. RestoreInv(r)'
  <2>1. pc'[r] = "write" => pc[r] = "write"  BY DEF Holding, Uploading
  <2> QED  BY <1>0, <2>1 DEF RequestInv, RestoreInv, VersionOfProduct, Owns, Rows, Alone, Target
<1>5. NewInv(r)'
  BY <1>0 DEF RequestInv, NewInv, Rows, Alone, Target, Content
<1> QED  BY <1>2, <1>3, <1>4, <1>5, AloneInv DEF RequestInv

\* The request takes the row, having read the next number or found its version.
LEMMA TakeRowInv ==
    ASSUME IInv, Typed', NEW r \in Requests, Alone(r), RowFree(r), TakeRow(r),
           pc'[r] \in {"publish", "write"}, UNCHANGED <<op, thread, products>>,
           pc'[r] = "publish" => /\ nextNo'[r] = NextVersionNo(Target(r))
                                 /\ ~UploadRefused(r),
           pc'[r] = "write" /\ op[r].kind = "restore" => VersionOfProduct(r)
    PROVE  IInv'
<1>0. RequestInv(r) /\ TypeOK /\ Safe  BY DEF IInv
<1>1. Target(r) \in Products  BY <1>0 DEF RowFree, TypeOK
<1>2. LockInv(r)'  BY <1>0, <1>1 DEF LockInv, TakeRow, Target, RowFree, TypeOK
<1>3. NumberInv(r)'
  <2>1. NextVersionNo(Target(r)) = Len(versions[Target(r)]) + 1
    BY <1>0, <1>1, NextVersionNoIsLen DEF Safe
  <2> QED  BY <2>1 DEF NumberInv, Uploading, Alone, Target
<1>4. IdInv(r)'  BY DEF IdInv
<1>5. RestoreInv(r)'  BY DEF RestoreInv, VersionOfProduct, Owns, Rows, Alone, Target
<1>6. DiskInv(r)'  BY <1>0 DEF RequestInv, DiskInv, Alone, Content
<1>7. NewInv(r)'
  <2>1. \A v \in Rows(Target(r)) :
          v.id = current[Target(r)] => CurrentContent(Target(r)) = v.content
    BY <1>0, <1>1, CurrentIs DEF Safe
  <2> QED  BY <2>1 DEF NewInv, UploadRefused, Rows, Alone, Target, Content, Uploading
<1> QED  BY <1>2, <1>3, <1>4, <1>5, <1>6, <1>7, AloneInv DEF RequestInv

LEMMA EndsAlone ==
    ASSUME TypeOK, NEW r \in Requests, EndTransaction(r), NEW s, Goto(r, s), s \notin Holding,
           UNCHANGED <<products, versions, current, files, nextId, disk, op, nextNo, newId>>,
           thread' = thread \/ thread' = [thread EXCEPT ![r] = "none"]
    PROVE  Alone(r) /\ pc'[r] \notin Holding /\ thread'[r] \in {thread[r], "none"}
  BY NullsAssumption DEF TypeOK, EndTransaction, Unlocked, Alone

LEMMA StepInv ==
    ASSUME IInv, NEW r \in Requests, Step(r), ~Commit(r)
    PROVE  IInv'
<1>0. TypeOK /\ KindInv /\ RequestInv(r) /\ Typed'  BY StepTyped DEF IInv
<1> USE <1>0 DEF dbVars, lockVars, storageVars, localVars, Holding, Uploading
<1>1. CASE Validate(r) \/ RejectUpload(r) \/ AuditWrite(r) \/ Serve(r) \/ ListOrphans(r)
  <2>1. CASE Validate(r)  BY <2>1, OutsideInv DEF TypeOK, Alone, Validate
  <2>2. CASE RejectUpload(r)  BY <2>2, OutsideInv DEF TypeOK, Alone, RejectUpload
  <2>3. CASE AuditWrite(r)  BY <2>3, OutsideInv DEF TypeOK, Alone, AuditWrite, Reraise
  <2>4. CASE Serve(r)  BY <2>4, OutsideInv DEF TypeOK, Alone, Serve
  <2>5. CASE ListOrphans(r)  BY <2>5, OutsideInv DEF TypeOK, Alone, ListOrphans
  <2> QED  BY <1>1, <2>1, <2>2, <2>3, <2>4, <2>5
<1>2. CASE Connect(r) \/ ReadForScan(r) \/ ReadReferences(r)
  <2>1. CASE Connect(r)  BY <2>1, OutsideInv DEF TypeOK, Alone, Connect
  <2>2. CASE ReadForScan(r)  BY <2>2, OutsideInv DEF TypeOK, Alone, ReadForScan
  <2>3. CASE ReadReferences(r)  BY <2>3, OutsideInv DEF TypeOK, Alone, ReadReferences
  <2> QED  BY <1>2, <2>1, <2>2, <2>3
<1>3. CASE ProductMissing(r)
  BY <1>3, EndsAlone, OutsideInv DEF ProductMissing, Abort
<1>4. CASE PublishFailed(r)
  BY <1>4, EndsAlone, OutsideInv DEF PublishFailed, Abort
<1>5. CASE Drained(r)
  BY <1>5, EndsAlone, OutsideInv DEF Drained
<1>6. CASE LockForUpload(r)
  <2>1. CASE UploadRefused(r)
    BY <1>6, <2>1, EndsAlone, OutsideInv DEF LockForUpload
  <2>2. CASE ~UploadRefused(r)
    <3>1. Alone(r)
      BY <1>6, <2>2, NullsAssumption DEF LockForUpload, Alone, TypeOK, TakeRow, RowFree
    <3>2. pc'[r] = "publish" /\ nextNo'[r] = NextVersionNo(Target(r))
      BY <1>6, <2>2 DEF LockForUpload, TypeOK
    <3> QED  BY <1>6, <2>2, <3>1, <3>2, TakeRowInv DEF LockForUpload
  <2> QED  BY <2>1, <2>2
<1>7. CASE LockForRestore(r)
  <2>1. CASE VersionOfProduct(r) /\ Owns(Target(r), current[Target(r)])
    <3>1. Alone(r) /\ pc'[r] = "write"
      BY <1>7, <2>1, NullsAssumption DEF LockForRestore, Alone, TypeOK, TakeRow, RowFree
    <3> QED  BY <1>7, <2>1, <3>1, TakeRowInv DEF LockForRestore
  <2>2. CASE ~(VersionOfProduct(r) /\ Owns(Target(r), current[Target(r)]))
    BY <1>7, <2>2, EndsAlone, OutsideInv DEF LockForRestore
  <2> QED  BY <2>1, <2>2
<1>8. CASE LockForStatus(r)
  <2>1. CASE status[Target(r)] = op[r].status
    BY <1>8, <2>1, EndsAlone, OutsideInv DEF LockForStatus, Abort
  <2>2. CASE status[Target(r)] # op[r].status
    <3>1. Alone(r) /\ pc'[r] = "write"
      BY <1>8, <2>2, NullsAssumption DEF LockForStatus, Alone, TypeOK, TakeRow, RowFree
    <3> QED  BY <1>8, <2>2, <3>1, TakeRowInv DEF LockForStatus
  <2> QED  BY <2>1, <2>2
<1>9. CASE TakePublishLock(r)
  <2>1. Alone(r) /\ pc'[r] = "publishing" /\ DiskInv(r)'
    BY <1>9 DEF TakePublishLock, Alone, TypeOK, DiskInv
  <2> QED  BY <1>9, <2>1, InsideInv DEF TakePublishLock
<1>10. CASE Published(r)
  <2>1. Alone(r) /\ pc'[r] = "file" /\ DiskInv(r)'
    BY <1>10 DEF Published, Alone, TypeOK, RequestInv, DiskInv, Content
  <2> QED  BY <1>10, <2>1, InsideInv DEF Published
<1>11. CASE InsertFile(r)
  <2>1. Alone(r) /\ pc'[r] = "version" /\ DiskInv(r)'
    BY <1>11 DEF InsertFile, Alone, TypeOK, RequestInv, DiskInv, Content
  <2> QED  BY <1>11, <2>1, InsideInv DEF InsertFile
<1>12. CASE InsertVersion(r)
  <2>1. Alone(r) /\ pc'[r] = "commit" /\ newId'[r] = nextId /\ DiskInv(r)'
    BY <1>12 DEF InsertVersion, Alone, TypeOK, RequestInv, DiskInv, Content
  <2> QED  BY <1>12, <2>1, InsideInv DEF InsertVersion
<1> QED
  BY <1>1, <1>2, <1>3, <1>4, <1>5, <1>6, <1>7, <1>8, <1>9, <1>10, <1>11, <1>12
  DEF Step

LEMMA OtherInv ==
    ASSUME IInv, NEW r \in Requests, ~CommitLost(r), ~CancelCommitted(r),
           ReceiveUpload(r) \/ ReceiveRequest(r) \/ Thread(r) \/ Cancel(r) \/ Fault(r)
    PROVE  IInv'
<1>0. TypeOK /\ KindInv /\ RequestInv(r) /\ Typed'  BY OtherTyped DEF IInv
<1> USE <1>0 DEF dbVars, lockVars, storageVars, localVars, Holding, Uploading
<1>1. CASE ReceiveUpload(r) \/ ReceiveRequest(r)
  <2>1. thread'[r] = "none" /\ pc'[r] \in {"receiving", "ready"}
    BY <1>1 DEF TypeOK, KindInv, ReceiveUpload, ReceiveRequest
  <2>2. \A s \in Requests \ {r} : op'[s] = op[s]
    BY <1>1 DEF TypeOK, ReceiveUpload, ReceiveRequest
  <2>3. Alone(r)
    BY <1>1, <2>2 DEF TypeOK, Alone, ReceiveUpload, ReceiveRequest
  <2> QED  BY <2>1, <2>3, OutsideInv
<1>2. CASE CancelReceiving(r) \/ CancelAudit(r)
  BY <1>2, OutsideInv DEF TypeOK, Alone, CancelReceiving, CancelAudit
<1>8. CASE CancelShieldedAudit(r)
  BY <1>8, OutsideInv DEF TypeOK, Alone, CancelShieldedAudit
<1>9. CASE AuditFails(r)
  BY <1>9, OutsideInv DEF TypeOK, Alone, AuditFails, Reraise
<1>3. CASE CancelTransaction(r)
  <2>1. AfterCancel(r) \notin Holding  BY DEF AfterCancel
  <2>2. Alone(r) /\ pc'[r] \notin Holding /\ thread' = thread /\ op' = op
    BY <1>3, <2>1, EndsAlone DEF CancelTransaction
  <2> QED  BY <2>2, OutsideInv
<1>4. CASE CancelDraining(r)
  BY <1>4, EndsAlone, OutsideInv DEF CancelDraining
<1>5. CASE DbError(r)
  <2>1. Alone(r) /\ pc'[r] \notin Holding /\ thread' = thread /\ op' = op
    <3> DEFINE s == IF op[r].kind = "upload" THEN "audit" ELSE "done"
    <3>1. s \notin Holding  OBVIOUS
    <3>2. EndTransaction(r) /\ Goto(r, s)  BY <1>5 DEF DbError, Abort
    <3> HIDE DEF s
    <3> QED  BY <1>5, <3>1, <3>2, EndsAlone DEF DbError
  <2> QED  BY <2>1, OutsideInv
<1>6. CASE CancelPublishing(r)
  <2>1. Alone(r) /\ pc'[r] = "draining" /\ DiskInv(r)'
    BY <1>6 DEF CancelPublishing, Alone, TypeOK, RequestInv, DiskInv, Content
  <2> QED  BY <1>6, <2>1, InsideInv DEF CancelPublishing
<1>7. CASE Thread(r) \/ ThreadFails(r)
  <2>1. Alone(r) /\ UNCHANGED <<op, nextNo, newId, rowLock, products, pc>>
    BY <1>7 DEF Thread, ThreadCheck, ThreadRename, ThreadFails, Alone, TypeOK
  <2>2. DiskInv(r)'
    BY <1>7 DEF Thread, ThreadCheck, ThreadRename, ThreadFails, TypeOK, RequestInv, DiskInv, Content
  <2>3. CASE pc[r] \in Holding
    BY <2>1, <2>2, <2>3, InsideInv
  <2>4. CASE pc[r] \notin Holding
    <3>1. RequestInv(r)'
      BY <2>1, <2>2, <2>4 DEF RequestInv, LockInv, NumberInv, NewInv, IdInv,
         RestoreInv
    <3> QED  BY <2>1, <2>4, <3>1, AloneInv
  <2> QED  BY <2>3, <2>4
<1> QED
  BY <1>1, <1>2, <1>3, <1>4, <1>5, <1>6, <1>7, <1>8, <1>9 DEF Cancel, Fault

-----------------------------------------------------------------------------
(* Steps that commit. *)

Row(r) == [id |-> newId[r], no |-> nextNo[r], content |-> Content(r)]

\* What the commit of an upload to p adds to the tables.
LEMMA UploadRows ==
    ASSUME IInv, NEW r \in Requests, pc[r] = "commit", UploadEffect(r),
           NEW p \in Products, p = Target(r)
    PROVE  /\ Rows(p)' = Rows(p) \cup {Row(r)}
           /\ \A q \in Products \ {p} :
                  versions'[q] = versions[q] /\ Rows(q)' = Rows(q) /\ current'[q] = current[q]
           /\ Len(versions[p]) \in Nat /\ DOMAIN versions[p] = 1..Len(versions[p])
           /\ \A i \in 1..Len(versions[p]) : versions'[p][i] = versions[p][i]
           /\ DOMAIN versions'[p] = 1..(Len(versions[p]) + 1)
           /\ versions'[p][Len(versions[p]) + 1] = Row(r)
           /\ current'[p] = newId[r]
<1> DEFINE n == Len(versions[p])
<1>1. TypeOK  BY DEF IInv
<1>2. versions[p] \in Seq(VersionRow) /\ n \in Nat  BY <1>1 DEF TypeOK
<1>3. versions'[p] = Append(versions[p], Row(r))
  BY <1>1 DEF UploadEffect, TypeOK, Row
<1>4. /\ \A i \in 1..n : versions'[p][i] = versions[p][i]
      /\ versions'[p][n + 1] = Row(r)
      /\ DOMAIN versions'[p] = 1..(n + 1)
      /\ DOMAIN versions[p] = 1..n
  BY <1>2, <1>3
<1>5. Rows(p)' = Rows(p) \cup {Row(r)}
  <2>1. DOMAIN versions'[p] = (1..n) \cup {n + 1}  BY <1>2, <1>4
  <2> QED  BY <1>4, <2>1 DEF Rows
<1>6. \A q \in Products \ {p} : versions'[q] = versions[q] /\ current'[q] = current[q]
  BY <1>1 DEF UploadEffect, TypeOK
<1>7. \A q \in Products \ {p} : Rows(q)' = Rows(q)  BY <1>6 DEF Rows
<1>8. current'[p] = newId[r]  BY <1>1 DEF UploadEffect, TypeOK
<1> QED  BY <1>2, <1>4, <1>5, <1>6, <1>7, <1>8

LEMMA UploadSafe ==
    ASSUME IInv, NEW r \in Requests, pc[r] = "commit", UploadEffect(r), UNCHANGED <<disk, nextId>>
    PROVE  Safe'
<1>1. TypeOK /\ RequestInv(r) /\ Safe  BY DEF IInv
<1>5. PICK p \in Products : p = Target(r)
  BY <1>1 DEF TypeOK, RequestInv, LockInv, Holding, Uploading
<1>2. p \in Products /\ newId[r] \in 1..(nextId - 1) /\ Content(r) \in disk
      /\ nextNo[r] = Len(versions[p]) + 1
  BY <1>1, <1>5 DEF RequestInv, IdInv, NumberInv, DiskInv, Uploading
<1>3. (\A q \in Products : ~Owns(q, newId[r])) /\ (\A v \in Rows(p) : v.id < newId[r])
  BY <1>1, <1>5 DEF RequestInv, IdInv
<1>4. Row(r).id = newId[r] /\ Row(r).no = nextNo[r] /\ Row(r).content = Content(r)
  BY DEF Row
<1> DEFINE n == Len(versions[p])
<1>6. /\ Rows(p)' = Rows(p) \cup {Row(r)}
      /\ \A q \in Products \ {p} :
             versions'[q] = versions[q] /\ Rows(q)' = Rows(q) /\ current'[q] = current[q]
      /\ n \in Nat /\ DOMAIN versions[p] = 1..n /\ DOMAIN versions'[p] = 1..(n + 1)
      /\ \A i \in 1..n : versions'[p][i] = versions[p][i]
      /\ versions'[p][n + 1] = Row(r)
      /\ current'[p] = newId[r]
  BY <1>2, <1>5, UploadRows
<1>7. NoDanglingFile'
  <2>1. \A q \in Products : \A v \in Rows(q)' : v.content \in files'
    BY <1>1, <1>4, <1>6 DEF Safe, NoDanglingFile, UploadEffect
  <2>2. files' \subseteq disk'
    BY <1>1, <1>2 DEF Safe, NoDanglingFile, UploadEffect
  <2> QED  BY <2>1, <2>2 DEF NoDanglingFile
<1>8. VersionNumbersContiguous'
  <2>1. SUFFICES ASSUME NEW q \in Products, NEW i \in DOMAIN versions'[q]
                 PROVE  /\ versions'[q][i].no = i
                        /\ versions'[q][i].id < nextId
                        /\ \A j \in 1..(i - 1) : versions'[q][j].id < versions'[q][i].id
    BY DEF VersionNumbersContiguous
  <2>2. CASE q # p
    BY <1>1, <1>6, <2>2 DEF Safe, VersionNumbersContiguous
  <2>3. CASE q = p /\ i \in 1..n
    <3>1. \A j \in 1..(i - 1) : j \in 1..n  BY <1>6, <2>3
    <3>2. /\ versions[p][i].no = i
          /\ versions[p][i].id < nextId
          /\ \A j \in 1..(i - 1) : versions[p][j].id < versions[p][i].id
      BY <1>1, <1>6, <2>3 DEF Safe, VersionNumbersContiguous
    <3>3. versions'[p][i] = versions[p][i] /\ \A j \in 1..(i - 1) : versions'[p][j] = versions[p][j]
      BY <1>6, <2>3, <3>1
    <3> QED  BY <2>3, <3>2, <3>3
  <2>4. CASE q = p /\ i = n + 1
    <3>1. \A j \in 1..n : versions[p][j] \in Rows(p)  BY <1>6 DEF Rows
    <3> QED  BY <1>1, <1>2, <1>3, <1>4, <1>6, <2>4, <3>1 DEF TypeOK
  <2> QED  BY <1>6, <2>2, <2>3, <2>4
<1>9. PointerResolves'
  <2>1. \A q \in Products : \A id : Owns(q, id)' <=> Owns(q, id) \/ (q = p /\ id = newId[r])
    BY <1>4, <1>6 DEF Owns
  <2>2. /\ current'[p] # 0 /\ versions'[p] # << >>
        /\ \E v \in Rows(p)' : v.id = current'[p]
    BY <1>1, <1>2, <1>4, <1>6 DEF TypeOK
  <2>3. \A q \in Products \ {p} :
           /\ (current'[q] = 0) <=> (versions'[q] = << >>)
           /\ current'[q] # 0 => \E v \in Rows(q)' : v.id = current'[q]
    BY <1>1, <1>6 DEF Safe, PointerResolves, Owns
  <2>4. \A q, t \in Products : q # t => \A v \in Rows(q)' : ~Owns(t, v.id)'
    BY <1>1, <1>2, <1>3, <1>4, <1>6, <2>1 DEF Safe, PointerResolves, Owns
  <2> QED  BY <2>2, <2>3, <2>4 DEF PointerResolves, Owns
<1> QED  BY <1>7, <1>8, <1>9 DEF Safe

\* The transaction of r ends; the rows that others hold stay theirs.
OthersKept(r) ==
    \A s \in Requests \ {r} :
        /\ pc'[s] = pc[s]
        /\ \A p \in Products : rowLock[p] = s => rowLock'[p] = s

LEMMA EndsOthersKept ==
    ASSUME TypeOK, NEW r \in Requests, EndTransaction(r), NEW s, Goto(r, s)
    PROVE  OthersKept(r)
  BY NullsAssumption DEF TypeOK, EndTransaction, Unlocked, OthersKept

LEMMA UploadOthers ==
    ASSUME IInv, NEW r \in Requests, pc[r] = "commit", UploadEffect(r), OthersKept(r),
           UNCHANGED <<nextId, disk, thread, op, nextNo, newId>>,
           NEW s \in Requests \ {r}
    PROVE  RequestInv(s)'
<1>1. TypeOK /\ RequestInv(r) /\ RequestInv(s) /\ DistinctIds  BY DEF IInv
<1>2. PICK p \in Products : p = Target(r)
  BY <1>1 DEF TypeOK, RequestInv, LockInv, Holding, Uploading
<1>3. pc[s] \in Holding => Target(s) \in Products \ {p}
  BY <1>1, <1>2 DEF TypeOK, RequestInv, LockInv, Holding, Uploading
<1>4. /\ Rows(p)' = Rows(p) \cup {Row(r)}
      /\ \A q \in Products \ {p} :
             versions'[q] = versions[q] /\ Rows(q)' = Rows(q) /\ current'[q] = current[q]
  BY <1>2, UploadRows
<1>5. \A q \in Products : \A id : Owns(q, id)' <=> Owns(q, id) \/ (q = p /\ id = newId[r])
  <2>1. Row(r).id = newId[r]  BY DEF Row
  <2> QED  BY <1>4, <2>1 DEF Owns
<1> USE <1>1, <1>3 DEF RequestInv, OthersKept, Target
<1>6. LockInv(s)'  BY DEF LockInv, UploadEffect
<1>7. NumberInv(s)'  BY <1>4 DEF NumberInv, Holding
<1>8. IdInv(s)'
  <2>1. SUFFICES ASSUME pc[s] = "commit"
                 PROVE  /\ newId[s] \in 1..(nextId - 1)
                        /\ \A q \in Products : ~Owns(q, newId[s])'
                        /\ \A v \in Rows(Target(s))' : v.id < newId[s]
    BY DEF IdInv
  <2>2. newId[s] # newId[r]  BY <2>1 DEF DistinctIds
  <2>3. Rows(Target(s))' = Rows(Target(s))
    <3>1. PICK t \in Products \ {p} : t = Target(s)  BY <2>1 DEF Holding, Uploading
    <3> QED  BY <1>4, <3>1 DEF Rows
  <2> QED  BY <1>5, <2>1, <2>2, <2>3 DEF IdInv
<1>9. RestoreInv(s)'
  BY <1>5 DEF RestoreInv, VersionOfProduct, Holding
<1>10. DiskInv(s)'  BY DEF DiskInv, Content
<1>11. NewInv(s)'
  <2>1. CASE pc[s] \in Uploading
    <3>1. PICK t \in Products \ {p} : t = Target(s)  BY <2>1 DEF Holding
    <3>2. Rows(t)' = Rows(t) /\ current'[t] = current[t]  BY <1>4
    <3> QED  BY <2>1, <3>1, <3>2 DEF NewInv, Content, Rows
  <2> QED  BY <2>1 DEF NewInv
<1> QED  BY <1>6, <1>7, <1>8, <1>9, <1>10, <1>11

LEMMA CommitsInv ==
    ASSUME IInv, Typed', NEW r \in Requests, Effect(r), EndTransaction(r),
           NEW s \in {"done"} \cup Auditing, Goto(r, s),
           UNCHANGED <<nextId, disk, thread, op, nextNo, newId>>
    PROVE  IInv'
<1>1. TypeOK /\ KindInv /\ RequestInv(r) /\ Safe  BY DEF IInv
<1>2. OthersKept(r) /\ pc'[r] = s /\ s \notin Holding /\ s # "commit"
  BY <1>1, EndsOthersKept DEF TypeOK, Holding, Uploading, Auditing
<1>3. DistinctIds'  BY <1>2 DEF IInv, DistinctIds, OthersKept
<1>4. RequestInv(r)'
  BY <1>1, <1>2 DEF RequestInv, LockInv, NumberInv, NewInv, IdInv, RestoreInv, DiskInv, Content, Holding,
     Uploading
<1>5. CASE pc[r] = "commit" /\ UploadEffect(r)
  <2>1. \A t \in Requests \ {r} : RequestInv(t)'  BY <1>2, <1>5, UploadOthers
  <2>2. Safe'  BY <1>5, UploadSafe
  <2> QED  BY <1>3, <1>4, <2>1, <2>2 DEF IInv, Typed
<1>6. CASE pc[r] = "write" /\ op[r].kind = "restore" /\ RestoreEffect(r)
  <2>1. PICK p \in Products : p = Target(r)
    BY <1>1, <1>6 DEF TypeOK, RequestInv, LockInv, Holding
  <2>2. Owns(p, op[r].version) /\ op[r].version # 0 /\ versions[p] # << >>
    <3>1. Owns(p, op[r].version)  BY <1>1, <1>6, <2>1 DEF RequestInv, RestoreInv, VersionOfProduct
    <3>2. versions[p] # << >>  BY <3>1 DEF Owns, Rows
    <3>3. op[r].version # 0  BY <1>1, <1>6 DEF KindInv, Operation
    <3> QED  BY <3>1, <3>2, <3>3
  <2>3. \A t : Rows(t)' = Rows(t)  BY <1>6 DEF RestoreEffect, Rows
  <2>4. \A t, id : Owns(t, id)' <=> Owns(t, id)  BY <2>3 DEF Owns
  <2>5. current'[p] = op[r].version /\ \A q \in Products \ {p} : current'[q] = current[q]
    BY <1>1, <1>6, <2>1 DEF RestoreEffect, TypeOK
  <2>6. NoDanglingFile' /\ VersionNumbersContiguous'
    BY <1>1, <1>6, <2>3 DEF Safe, NoDanglingFile, VersionNumbersContiguous, RestoreEffect
  <2>7. PointerResolves'
    <3>1. \A q \in Products : /\ (current'[q] = 0) <=> (versions[q] = << >>)
                              /\ current'[q] # 0 => \E v \in Rows(q) : v.id = current'[q]
      BY <1>1, <2>2, <2>5 DEF Safe, PointerResolves, Owns
    <3> QED  BY <1>1, <1>6, <2>3, <3>1 DEF Safe, PointerResolves, Owns, RestoreEffect
  <2>8. ASSUME NEW t \in Requests \ {r} PROVE RequestInv(t)'
    <3>1. RequestInv(t)  BY DEF IInv
    <3>2. pc[t] \in Holding => Target(t) \in Products
      BY <1>1, <3>1 DEF TypeOK, RequestInv, LockInv
    <3> USE <3>1 DEF RequestInv, Target, OthersKept
    <3>3. LockInv(t)' /\ NumberInv(t)'
      BY <1>2, <1>6, <3>2 DEF LockInv, NumberInv, RestoreEffect
    <3>4. IdInv(t)' /\ RestoreInv(t)'
      BY <1>2, <2>3, <2>4 DEF IdInv, RestoreInv, VersionOfProduct
    <3>5. DiskInv(t)'  BY <1>2 DEF DiskInv, Content
    <3>6. NewInv(t)'
      <4>1. CASE pc[t] \in Uploading
        <5>1. Target(t) \in Products \ {p}
          BY <1>1, <1>6, <2>1, <3>2, <4>1 DEF TypeOK, LockInv, Holding
        <5> QED  BY <1>2, <2>3, <2>5, <4>1, <5>1 DEF NewInv, Content
      <4> QED  BY <1>2, <4>1 DEF NewInv
    <3> QED  BY <3>3, <3>4, <3>5, <3>6
  <2> QED  BY <1>3, <1>4, <2>6, <2>7, <2>8 DEF IInv, Typed, Safe
<1>7. CASE pc[r] = "write" /\ op[r].kind = "status" /\ StatusEffect(r)
  <2>1. Alone(r)  BY <1>2, <1>7 DEF Alone, OthersKept, StatusEffect
  <2> QED  BY <1>2, <2>1, OutsideInv
<1> QED  BY <1>5, <1>6, <1>7 DEF Effect

-----------------------------------------------------------------------------
(* The theorems. *)

LEMMA InitInv == Init => IInv
<1> SUFFICES ASSUME Init PROVE IInv  OBVIOUS
<1>1. Typed  BY TypedInit
<1>2. \A r \in Requests : RequestInv(r)
  BY DEF Init, RequestInv, LockInv, NumberInv, NewInv, IdInv, RestoreInv, DiskInv, Holding, Uploading
<1>3. DistinctIds  BY DEF Init, DistinctIds
<1>4. \A p \in Products : Rows(p) = {}  BY DEF Init, Rows
<1>5. Safe
  BY <1>4 DEF Init, Safe, NoDanglingFile, VersionNumbersContiguous, PointerResolves, Owns
<1> QED  BY <1>1, <1>2, <1>3, <1>5 DEF IInv, Typed

LEMMA NextInv ==
    ASSUME IInv, [Next]_vars
    PROVE  IInv'
<1>0. Typed'  BY NextTyped
<1>1. ASSUME NEW r \in Requests, Commit(r) PROVE IInv'
  BY <1>0, <1>1, CommitsInv DEF Commit, localVars
<1>2. ASSUME NEW r \in Requests, CommitLost(r) PROVE IInv'
  <2>1. PICK s \in {"done"} \cup Auditing : Goto(r, s)
    BY <1>2 DEF CommitLost, Auditing
  <2> QED  BY <1>0, <1>2, <2>1, CommitsInv DEF CommitLost, localVars, storageVars
<1>3. ASSUME NEW r \in Requests, CancelCommitted(r) PROVE IInv'
  <2>1. PICK s \in {"done"} \cup Auditing : Goto(r, s)
    BY <1>3 DEF CancelCommitted, AfterCancel, Auditing
  <2> QED  BY <1>0, <1>3, <2>1, CommitsInv DEF CancelCommitted, storageVars
<1>4. CASE \E p \in Products : CreateProduct(p)
  <2>1. UNCHANGED <<versions, current, files, disk, nextId, pc, op, thread, nextNo, newId, rowLock>>
        /\ products \subseteq products'
    BY <1>4 DEF CreateProduct, storageVars, lockVars, localVars
  <2>2. ASSUME NEW r \in Requests PROVE RequestInv(r)'
    <3> USE <2>1 DEF IInv, RequestInv, Target
    <3>1. LockInv(r)' /\ NumberInv(r)'  BY DEF LockInv, NumberInv
    <3>2. NewInv(r)' /\ DiskInv(r)'  BY DEF NewInv, DiskInv, Content, Rows
    <3>3. IdInv(r)' /\ RestoreInv(r)'  BY DEF IdInv, RestoreInv, VersionOfProduct, Owns, Rows
    <3> QED  BY <3>1, <3>2, <3>3
  <2>3. DistinctIds' /\ Safe'
    BY <2>1 DEF IInv, DistinctIds, Safe, NoDanglingFile, VersionNumbersContiguous,
       PointerResolves, Owns, Rows
  <2> QED  BY <1>0, <2>2, <2>3 DEF IInv, Typed
<1>5. CASE Crash
  <2>1. \A r \in Requests : pc'[r] \notin Holding /\ thread'[r] = "none"
    BY <1>5 DEF Crash, Holding, Uploading, Answered
  <2>2. (\A r \in Requests : RequestInv(r)') /\ DistinctIds'
    BY <2>1 DEF RequestInv, LockInv, NumberInv, NewInv, IdInv, RestoreInv, DiskInv, Holding, Uploading,
       DistinctIds
  <2>3. Safe'
    BY <1>5 DEF Crash, dbVars, IInv, Safe, NoDanglingFile, VersionNumbersContiguous,
       PointerResolves, Owns, Rows
  <2> QED  BY <1>0, <2>2, <2>3 DEF IInv, Typed
<1>6. CASE UNCHANGED vars
  <2>1. (\A r \in Requests : RequestInv(r)') /\ DistinctIds'
    BY <1>6 DEF vars, dbVars, lockVars, storageVars, localVars, IInv, DistinctIds, RequestInv,
       LockInv, NumberInv, NewInv, IdInv, RestoreInv, DiskInv, VersionOfProduct, Target, Content, Owns,
       Rows
  <2>2. Safe'
    BY <1>6 DEF vars, dbVars, storageVars, IInv, Safe, NoDanglingFile, VersionNumbersContiguous,
       PointerResolves, Owns, Rows
  <2> QED  BY <1>0, <2>1, <2>2 DEF IInv, Typed
<1> QED
  BY <1>1, <1>2, <1>3, <1>4, <1>5, <1>6, StepInv, OtherInv DEF Next, Quiet

\* IInv holds in every reachable state of every instance.
THEOREM Invariance == Spec => []IInv
<1>1. Init => IInv  BY InitInv
<1>2. IInv /\ [Next]_vars => IInv'  BY NextInv
<1> QED  BY <1>1, <1>2, PTL DEF Spec

\* Every variable keeps its type.
THEOREM TypeCorrect == Spec => []TypeOK
<1>1. IInv => TypeOK  BY DEF IInv
<1> QED  BY <1>1, Invariance, PTL

\* The database never names a file that storage does not hold.
THEOREM FilesPresent == Spec => []NoDanglingFile
<1>1. IInv => NoDanglingFile  BY DEF IInv, Safe
<1> QED  BY <1>1, Invariance, PTL

\* Version numbers have no gap and no repetition, and ids grow with them.
THEOREM NumbersContiguous == Spec => []VersionNumbersContiguous
<1>1. IInv => VersionNumbersContiguous  BY DEF IInv, Safe
<1> QED  BY <1>1, Invariance, PTL

\* The current pointer of a product always resolves to a version of its own.
THEOREM PointersResolve == Spec => []PointerResolves
<1>1. IInv => PointerResolves  BY DEF IInv, Safe
<1> QED  BY <1>1, Invariance, PTL

-----------------------------------------------------------------------------
(* Refinement of the abstract ledger. *)

History(p) == [i \in DOMAIN versions[p] |-> versions[p][i].content]

\* A step that leaves the tables alone leaves the ledger alone.
LEMMA LedgerStutters ==
    ASSUME UNCHANGED <<products, status, versions, current>>
    PROVE  UNCHANGED Ledger!ledgerVars
<1>1. \A p \in Products : CurrentContent(p)' = CurrentContent(p)
  BY DEF CurrentContent, Owns, Rows
<1> QED  BY <1>1 DEF Ledger!ledgerVars

LEMMA HistoryAppends ==
    ASSUME IInv, NEW r \in Requests, pc[r] = "commit", UploadEffect(r),
           NEW p \in Products, p = Target(r)
    PROVE  /\ History(p)' = Append(History(p), Content(r))
           /\ \A q \in Products \ {p} : History(q)' = History(q)
<1> DEFINE n == Len(versions[p])
<1>1. /\ \A q \in Products \ {p} : versions'[q] = versions[q]
      /\ n \in Nat /\ DOMAIN versions[p] = 1..n /\ DOMAIN versions'[p] = 1..(n + 1)
      /\ \A i \in 1..n : versions'[p][i] = versions[p][i]
      /\ versions'[p][n + 1] = Row(r)
  BY UploadRows
<1> DEFINE X == {versions[p][i].content : i \in 1..n} \cup {Content(r)}
<1>2. History(p) \in Seq(X) /\ Len(History(p)) = n /\ Content(r) \in X
  BY <1>1 DEF History
<1>3. /\ DOMAIN Append(History(p), Content(r)) = 1..(n + 1)
      /\ \A i \in 1..n : Append(History(p), Content(r))[i] = versions[p][i].content
      /\ Append(History(p), Content(r))[n + 1] = Content(r)
  BY <1>1, <1>2 DEF History
<1>4. Row(r).content = Content(r)  BY DEF Row
<1>5. History(p)' = [i \in 1..(n + 1) |-> versions'[p][i].content]  BY <1>1 DEF History
<1>6. Append(History(p), Content(r)) =
        [i \in 1..(n + 1) |-> Append(History(p), Content(r))[i]]
  <2> HIDE DEF X
  <2>1. Append(History(p), Content(r)) \in Seq(X)  BY <1>2
  <2>2. Len(Append(History(p), Content(r))) = n + 1  BY <1>1, <1>2
  <2>3. PICK s \in Seq(X) : s = Append(History(p), Content(r)) /\ Len(s) = n + 1
    BY <2>1, <2>2
  <2>4. s \in [1..(n + 1) -> X]  BY <2>3, LenProperties
  <2> QED  BY <2>3, <2>4
<1>7. \A i \in 1..(n + 1) : versions'[p][i].content = Append(History(p), Content(r))[i]
  BY <1>1, <1>3, <1>4
<1>8. History(p)' = Append(History(p), Content(r))
  BY <1>5, <1>6, <1>7
<1> QED  BY <1>1, <1>8 DEF History

\* A choice among rows that the id tells apart.
LEMMA ChosenRow ==
    ASSUME NEW S, NEW id, NEW v \in S, v.id = id, \A u \in S : u.id = id => u = v
    PROVE  (CHOOSE w \in S : w.id = id) = v
  OBVIOUS

\* What p shows after a step that leaves v as its one current row.
LEMMA ShownNext ==
    ASSUME NEW p, NEW v \in Rows(p)', v.id = current'[p],
           \A u \in Rows(p)' : u.id = current'[p] => u = v
    PROVE  CurrentContent(p)' = v.content
<1>1. (CHOOSE w \in Rows(p)' : w.id = current'[p]) = v  BY ChosenRow
<1>2. Owns(p, current[p])'  BY DEF Owns
<1> QED  BY <1>1, <1>2 DEF CurrentContent

LEMMA ShownSame ==
    ASSUME NEW p, versions'[p] = versions[p], current'[p] = current[p]
    PROVE  CurrentContent(p)' = CurrentContent(p)
<1>1. Rows(p)' = Rows(p)  BY DEF Rows
<1> QED  BY <1>1 DEF CurrentContent, Owns

LEMMA UploadShown ==
    ASSUME IInv, NEW r \in Requests, pc[r] = "commit", UploadEffect(r),
           NEW p \in Products, p = Target(r)
    PROVE  /\ CurrentContent(p)' = Content(r)
           /\ CurrentContent(p) # Content(r)
           /\ \A q \in Products \ {p} : CurrentContent(q)' = CurrentContent(q)
<1>1. /\ Rows(p)' = Rows(p) \cup {Row(r)} /\ current'[p] = newId[r]
      /\ \A q \in Products \ {p} : versions'[q] = versions[q] /\ current'[q] = current[q]
  BY UploadRows
<1>2. Row(r).id = newId[r] /\ Row(r).content = Content(r)  BY DEF Row
<1>3. CurrentContent(p)' = Content(r)
  <2>1. PICK v : v = Row(r)  OBVIOUS
  <2>2. v \in Rows(p)' /\ v.id = current'[p] /\ v.content = Content(r)  BY <1>1, <1>2, <2>1
  <2>3. \A u \in Rows(p) : u.id # newId[r]
    BY DEF IInv, RequestInv, IdInv, Owns
  <2> QED  BY <1>1, <2>1, <2>2, <2>3, ShownNext
<1>4. CurrentContent(p) # Content(r)
  <2>1. TypeOK /\ VersionNumbersContiguous /\ RequestInv(r) /\ KindInv  BY DEF IInv, Safe
  <2>2. \A v \in Rows(p) : v.id = current[p] => v.content # Content(r)
    BY <2>1 DEF RequestInv, NewInv, Uploading
  <2>3. CASE Owns(p, current[p])
    BY <2>1, <2>2, <2>3, CurrentIs DEF Owns
  <2>4. CASE ~Owns(p, current[p])
    <3>1. Content(r) \in Contents  BY <2>1 DEF KindInv, Operation, Uploading, Content
    <3> QED  BY <2>4, <3>1, NullsAssumption DEF CurrentContent
  <2> QED  BY <2>3, <2>4
<1>5. \A q \in Products \ {p} : CurrentContent(q)' = CurrentContent(q)
  BY <1>1, ShownSame
<1> QED  BY <1>3, <1>4, <1>5

LEMMA EffectRefines ==
    ASSUME IInv, NEW r \in Requests, Effect(r)
    PROVE  Ledger!LedgerNext
<1>1. TypeOK /\ KindInv /\ RequestInv(r)  BY DEF IInv
<1>2. pc[r] \in Holding  BY DEF Effect, Holding, Uploading
<1>3. PICK p \in Products : p = Target(r)
  BY <1>1, <1>2 DEF TypeOK, RequestInv, LockInv
<1>4. p \in products  BY <1>1, <1>2, <1>3 DEF RequestInv, LockInv
<1>5. CASE pc[r] = "commit" /\ UploadEffect(r)
  <2>1. Content(r) \in Contents  BY <1>1, <1>5 DEF KindInv, Operation, Uploading, Content
  <2>2. History(p)' = Append(History(p), Content(r))
        /\ \A q \in Products \ {p} : History(q)' = History(q)
    BY <1>3, <1>5, HistoryAppends
  <2>3. /\ CurrentContent(p)' = Content(r) /\ CurrentContent(p) # Content(r)
        /\ \A q \in Products \ {p} : CurrentContent(q)' = CurrentContent(q)
    BY <1>3, <1>5, UploadShown
  <2>4. [q \in Products |-> History(q)]' =
          [[q \in Products |-> History(q)] EXCEPT ![p] = Append(@, Content(r))]
    BY <2>2
  <2>5. [q \in Products |-> CurrentContent(q)]' =
          [[q \in Products |-> CurrentContent(q)] EXCEPT ![p] = Content(r)]
    BY <2>3
  <2>6. Ledger!Upload(p, Content(r))
    BY <1>4, <1>5, <2>3, <2>4, <2>5 DEF Ledger!Upload, UploadEffect, History
  <2>7. PICK c \in Contents : c = Content(r)  BY <2>1
  <2>8. Ledger!Upload(p, c)  BY <2>6, <2>7 DEF Ledger!Upload
  <2> QED  BY <2>8 DEF Ledger!LedgerNext
<1>6. CASE pc[r] = "write" /\ op[r].kind = "restore" /\ RestoreEffect(r)
  <2>1. VersionOfProduct(r)  BY <1>1, <1>6 DEF RequestInv, RestoreInv
  <2>2. PICK i \in DOMAIN versions[p] : versions[p][i].id = op[r].version
    BY <1>3, <2>1 DEF VersionOfProduct, Owns, Rows
  <2>3. current'[p] = op[r].version /\ \A q \in Products \ {p} : current'[q] = current[q]
    BY <1>1, <1>3, <1>6 DEF RestoreEffect, TypeOK
  <2>4. PICK v : v = versions[p][i]  OBVIOUS
  <2>5. CurrentContent(p)' = v.content
    <3>1. v \in Rows(p)' /\ v.id = current'[p]
      BY <1>6, <2>2, <2>3, <2>4 DEF Rows, RestoreEffect
    <3>2. Rows(p)' = Rows(p)  BY <1>6 DEF Rows, RestoreEffect
    <3>3. \A u \in Rows(p) : u.id = v.id => u = v
      BY <3>1, <3>2, IdsTellApart DEF IInv, Safe
    <3> QED  BY <3>1, <3>2, <3>3, ShownNext
  <2>6. \A q \in Products \ {p} : CurrentContent(q)' = CurrentContent(q)
    BY <1>6, <2>3, ShownSame DEF RestoreEffect
  <2>7. [q \in Products |-> CurrentContent(q)]' =
          [[q \in Products |-> CurrentContent(q)] EXCEPT ![p] = v.content]
    BY <2>5, <2>6
  <2>8. Ledger!Restore(p, i)
    BY <1>4, <1>6, <2>2, <2>4, <2>7 DEF Ledger!Restore, RestoreEffect
  <2> QED  BY <2>2, <2>8 DEF Ledger!LedgerNext
<1>7. CASE pc[r] = "write" /\ op[r].kind = "status" /\ StatusEffect(r)
  <2>1. op[r].status \in {"active", "disabled"}
    BY <1>1, <1>7 DEF KindInv, Operation, Statuses
  <2>2. \A q \in Products : CurrentContent(q)' = CurrentContent(q)
    BY <1>7, ShownSame DEF StatusEffect
  <2>3. Ledger!SetStatus(p, op[r].status)
    BY <1>3, <1>4, <1>7, <2>2 DEF Ledger!SetStatus, StatusEffect
  <2> QED  BY <2>1, <2>3 DEF Ledger!LedgerNext
<1> QED  BY <1>5, <1>6, <1>7 DEF Effect

LEMMA NextRefines ==
    ASSUME IInv, [Next]_vars
    PROVE  [Ledger!LedgerNext]_(Ledger!ledgerVars)
<1>1. ASSUME NEW r \in Requests, Commit(r) \/ CommitLost(r) \/ CancelCommitted(r)
      PROVE  Ledger!LedgerNext
  BY <1>1, EffectRefines DEF Commit, CommitLost, CancelCommitted
<1>2. ASSUME NEW p \in Products, CreateProduct(p) PROVE Ledger!LedgerNext
  <2>1. \A q \in Products : CurrentContent(q)' = CurrentContent(q)
    BY <1>2, ShownSame DEF CreateProduct
  <2>2. Ledger!Create(p)  BY <1>2, <2>1 DEF CreateProduct, Ledger!Create
  <2> QED  BY <2>2 DEF Ledger!LedgerNext
<1> USE DEF dbVars
<1>3. ASSUME NEW r \in Requests, Step(r), ~Commit(r)
      PROVE  UNCHANGED <<products, status, versions, current>>
  BY <1>3 DEF Step, Validate, RejectUpload, Connect, ProductMissing, LockForUpload, LockForRestore,
     LockForStatus, TakePublishLock, Published, PublishFailed, Drained, InsertFile, InsertVersion,
     AuditWrite, ReadForScan, Serve, ReadReferences, ListOrphans
<1>4. ASSUME NEW r \in Requests, ~CommitLost(r), ~CancelCommitted(r),
             ReceiveUpload(r) \/ ReceiveRequest(r) \/ Thread(r) \/ Cancel(r) \/ Fault(r)
      PROVE  UNCHANGED <<products, status, versions, current>>
  BY <1>4 DEF ReceiveUpload, ReceiveRequest, Thread, ThreadCheck, ThreadRename, Cancel, Fault,
     CancelReceiving, CancelTransaction, CancelPublishing, CancelDraining, CancelShieldedAudit,
     CancelAudit, DbError, ThreadFails, AuditFails
<1>5. ASSUME Crash \/ UNCHANGED vars PROVE UNCHANGED <<products, status, versions, current>>
  BY <1>5 DEF Crash, vars
<1> QED
  BY <1>1, <1>2, <1>3, <1>4, <1>5, LedgerStutters DEF Next, Quiet

\* The committed state of every instance behaves as the abstract ledger: a
\* history only grows, and the content shown changes only by an upload of
\* something new or by a restore from the product's own history.
THEOREM Refinement == Spec => LedgerRefinement
<1>1. Init => Ledger!LedgerInit
  <2>1. ASSUME Init, NEW p \in Products PROVE History(p) = << >> /\ CurrentContent(p) = NoContent
    BY <2>1 DEF Init, History, CurrentContent, Owns, Rows
  <2> QED  BY <2>1 DEF Init, Ledger!LedgerInit, History
<1>2. IInv /\ [Next]_vars => [Ledger!LedgerNext]_(Ledger!ledgerVars)
  BY NextRefines
<1> QED  BY <1>1, <1>2, Invariance, PTL DEF Spec, LedgerRefinement, Ledger!LedgerSpec
=============================================================================
