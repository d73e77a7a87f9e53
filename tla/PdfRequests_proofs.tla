-------------------------- MODULE PdfRequests_proofs --------------------------
(***************************************************************************)
(* Proofs about the requests of PdfVersions: what a request holds, what it *)
(* leaves behind when it is answered, what the audit trail says about it   *)
(* and who accounts for a file that it moved.  They build on the inductive *)
(* invariant IInv of PdfVersions_proofs.                                   *)
(***************************************************************************)
EXTENDS PdfVersions_proofs

-----------------------------------------------------------------------------
(* What a request holds, and what a reader has read. *)

\* A connection, a row, a key and the publication lock are held only in the
\* states between taking them and giving them back; a temporary file only by
\* an upload that is not answered yet.
HeldInv ==
    \A r \in Requests :
        /\ r \in conns => pc[r] \in Holding \cup {"begin"}
        /\ r \in temp => op[r].kind = "upload" /\ pc[r] \notin {"idle", "done"}
        /\ \A p \in Products : rowLock[p] = r => pc[r] \in Holding
        /\ \A c \in Contents : fileLock[c] = r => pc[r] \in {"version", "commit"}
        /\ \A c \in Contents : shaLock[c] = r => pc[r] \in {"publishing", "draining"}

\* What a scan has read stays on the disk until it is served.
ReadInv ==
    \A r \in Requests :
        /\ pc[r] = "serve" => op[r].kind = "scan" /\ seen[r] \subseteq disk
        /\ pc[r] = "list" => op[r].kind = "orphans"

USE DEF Goto

\* The content that a pointer joins to is present below files/.
LEMMA CurrentOnDisk ==
    ASSUME IInv, NEW p \in Products
    PROVE  {CurrentContent(p)} \ {NoContent} \subseteq disk
<1>1. CASE Owns(p, current[p])
  <2>1. PICK v \in Rows(p) : v.id = current[p]  BY <1>1 DEF Owns
  <2>2. CurrentContent(p) = v.content  BY <2>1, CurrentIs DEF IInv, Safe
  <2> QED  BY <2>1, <2>2 DEF IInv, Safe, NoDanglingFile
<1>2. CASE ~Owns(p, current[p])  BY <1>2 DEF CurrentContent
<1> QED  BY <1>1, <1>2

\* The transaction of r ends: r keeps nothing, the others keep what they hold.
LEMMA HeldEnds ==
    ASSUME TypeOK, KindInv, HeldInv, NEW r \in Requests, EndTransaction(r), NEW s, Goto(r, s),
           UNCHANGED op, temp' \in {temp, temp \ {r}}, s # "idle",
           s = "done" => op[r].kind # "upload" \/ temp' = temp \ {r},
           \/ shaLock' = Unlocked(shaLock, r)
           \/ shaLock' = shaLock /\ pc[r] \notin {"publishing", "draining"}
    PROVE  HeldInv'
  BY NullsAssumption DEF TypeOK, KindInv, HeldInv, EndTransaction, Unlocked, Holding, Uploading

\* Every step keeps HeldInv.
LEMMA HeldNext ==
    ASSUME IInv, HeldInv, ReadInv, [Next]_vars
    PROVE  HeldInv'
<1> USE DEF dbVars, lockVars, storageVars, localVars
<1>0. TypeOK /\ KindInv /\ ReadInv  BY DEF IInv
<1>1. ASSUME NEW r \in Requests, ReceiveUpload(r) PROVE HeldInv'
  BY <1>0, <1>1, NullsAssumption
  DEF TypeOK, KindInv, HeldInv, ReadInv, Holding, Uploading, Answered, Auditing, ReceiveUpload
<1>2. ASSUME NEW r \in Requests, ReceiveRequest(r) PROVE HeldInv'
  BY <1>0, <1>2, NullsAssumption
  DEF TypeOK, KindInv, HeldInv, ReadInv, Holding, Uploading, Answered, Auditing, ReceiveRequest
<1>3. ASSUME NEW r \in Requests, Validate(r) \/ RejectUpload(r) \/ Connect(r) PROVE HeldInv'
  BY <1>0, <1>3, NullsAssumption
  DEF TypeOK, KindInv, HeldInv, ReadInv, Holding, Uploading, Answered, Auditing, Validate,
     RejectUpload, Connect
<1>4. ASSUME NEW r \in Requests, ProductMissing(r) \/ LockForRestore(r) \/ LockForStatus(r)
      PROVE  HeldInv'
  BY <1>0, <1>4, NullsAssumption
  DEF TypeOK, KindInv, HeldInv, ReadInv, Holding, Uploading, Answered, Auditing, ProductMissing,
     Abort, EndTransaction, Unlocked, LockForRestore, RowFree, TakeRow, LockForStatus
<1>5. ASSUME NEW r \in Requests, LockForUpload(r) PROVE HeldInv'
  <2>1. CASE UploadRefused(r)
    BY <1>0, <1>5, <2>1, HeldEnds DEF LockForUpload
  <2>2. CASE ~UploadRefused(r)
    BY <1>0, <1>5, <2>2, NullsAssumption
    DEF TypeOK, KindInv, HeldInv, Holding, Uploading, LockForUpload, RowFree, TakeRow
  <2> QED  BY <2>1, <2>2
<1>6. ASSUME NEW r \in Requests, TakePublishLock(r) \/ Published(r) PROVE HeldInv'
  BY <1>0, <1>6, NullsAssumption
  DEF TypeOK, KindInv, HeldInv, ReadInv, Holding, Uploading, Answered, Auditing,
     TakePublishLock, Published, Unlocked
<1>7. ASSUME NEW r \in Requests, PublishFailed(r) PROVE HeldInv'
  BY <1>0, <1>7, HeldEnds DEF PublishFailed, Abort
<1>8. ASSUME NEW r \in Requests, Drained(r) PROVE HeldInv'
  BY <1>0, <1>8, HeldEnds DEF Drained
<1>9. ASSUME NEW r \in Requests, ThreadCheck(r) \/ ThreadRename(r) \/ ThreadFails(r)
      PROVE  HeldInv'
  BY <1>0, <1>9, NullsAssumption
  DEF TypeOK, KindInv, HeldInv, ReadInv, Holding, Uploading, Answered, Auditing, ThreadCheck,
     ThreadRename, ThreadFails
<1>10. ASSUME NEW r \in Requests, InsertFile(r) \/ InsertVersion(r) PROVE HeldInv'
  BY <1>0, <1>10, NullsAssumption
  DEF TypeOK, KindInv, HeldInv, ReadInv, Holding, Uploading, Answered, Auditing, InsertFile,
     InsertVersion
<1>11. ASSUME NEW r \in Requests, Commit(r) PROVE HeldInv'
  <2>1. pc[r] \notin {"publishing", "draining"}  BY <1>11 DEF Commit, Effect
  <2> QED  BY <1>0, <1>11, <2>1, HeldEnds DEF Commit
<1>12. ASSUME NEW r \in Requests, CommitLost(r) PROVE HeldInv'
  <2>1. pc[r] \notin {"publishing", "draining"}  BY <1>12 DEF CommitLost, Effect
  <2> QED  BY <1>0, <1>12, <2>1, HeldEnds DEF CommitLost
<1>13. ASSUME NEW r \in Requests, CancelCommitted(r) PROVE HeldInv'
  <2>1. pc[r] \notin {"publishing", "draining"}  BY <1>13 DEF CancelCommitted, Effect
  <2> QED  BY <1>0, <1>13, <2>1, HeldEnds DEF CancelCommitted, AfterCancel
<1>14. ASSUME NEW r \in Requests, DbError(r) PROVE HeldInv'
  BY <1>0, <1>14, NullsAssumption
  DEF TypeOK, KindInv, HeldInv, ReadInv, Holding, Uploading, Answered, Auditing, DbError, Abort,
     EndTransaction, Unlocked
<1>15. ASSUME NEW r \in Requests, AuditWrite(r) \/ AuditFails(r) PROVE HeldInv'
  BY <1>0, <1>15, NullsAssumption
  DEF TypeOK, KindInv, HeldInv, ReadInv, Holding, Uploading, Answered, Auditing, AuditWrite, Reraise,
     AuditFails
<1>16. ASSUME NEW r \in Requests, ReadForScan(r) \/ Serve(r) \/ ReadReferences(r)
              \/ ListOrphans(r)
       PROVE  HeldInv'
  BY <1>0, <1>16, NullsAssumption
  DEF TypeOK, KindInv, HeldInv, ReadInv, Holding, Uploading, Answered, Auditing, ReadForScan,
     Serve, ReadReferences, ListOrphans
<1>17. ASSUME NEW r \in Requests, CancelReceiving(r) \/ CancelShieldedAudit(r) \/ CancelAudit(r)
       PROVE  HeldInv'
  BY <1>0, <1>17, NullsAssumption
  DEF TypeOK, KindInv, HeldInv, ReadInv, Holding, Uploading, Answered, Auditing,
     CancelReceiving, CancelShieldedAudit, CancelAudit
<1>18. ASSUME NEW r \in Requests, CancelTransaction(r) PROVE HeldInv'
  BY <1>0, <1>18, NullsAssumption
  DEF TypeOK, KindInv, HeldInv, ReadInv, Holding, Uploading, Answered, Auditing,
     CancelTransaction, EndTransaction, Unlocked, AfterCancel
<1>19. ASSUME NEW r \in Requests, CancelPublishing(r) \/ CancelDraining(r) PROVE HeldInv'
  BY <1>0, <1>19, NullsAssumption
  DEF TypeOK, KindInv, HeldInv, ReadInv, Holding, Uploading, Answered, Auditing,
     CancelPublishing, CancelDraining, EndTransaction, Unlocked
<1>20. ASSUME NEW p \in Products, CreateProduct(p) PROVE HeldInv'
  BY <1>0, <1>20, NullsAssumption
  DEF TypeOK, KindInv, HeldInv, ReadInv, Holding, Uploading, Answered, Auditing, CreateProduct
<1>21. CASE Crash
  BY <1>0, <1>21, NullsAssumption
  DEF TypeOK, KindInv, HeldInv, ReadInv, Holding, Uploading, Answered, Auditing, Crash
<1>22. CASE UNCHANGED vars
  BY <1>0, <1>22, NullsAssumption
  DEF TypeOK, KindInv, HeldInv, ReadInv, Holding, Uploading, Answered, Auditing, vars
<1> QED
  BY <1>1, <1>2, <1>3, <1>4, <1>5, <1>6, <1>7, <1>8, <1>9, <1>10, <1>11, <1>12, <1>13, <1>14,
     <1>15, <1>16, <1>17, <1>18, <1>19, <1>20, <1>21, <1>22
  DEF Next, Step, Thread, Cancel, Fault, Quiet

\* Every step keeps ReadInv.
LEMMA ReadNext ==
    ASSUME IInv, ReadInv, [Next]_vars
    PROVE  ReadInv'
<1> USE DEF dbVars, lockVars, storageVars, localVars
<1>0. TypeOK /\ KindInv  BY DEF IInv
<1>1. ASSUME NEW r \in Requests, ReceiveUpload(r) PROVE ReadInv'
  BY <1>0, <1>1, NullsAssumption
  DEF TypeOK, KindInv, ReadInv, Answered, Auditing, ReceiveUpload
<1>2. ASSUME NEW r \in Requests, ReceiveRequest(r) PROVE ReadInv'
  BY <1>0, <1>2, NullsAssumption
  DEF TypeOK, KindInv, ReadInv, Answered, Auditing, ReceiveRequest
<1>3. ASSUME NEW r \in Requests, Validate(r) \/ RejectUpload(r) \/ Connect(r) PROVE ReadInv'
  BY <1>0, <1>3, NullsAssumption
  DEF TypeOK, KindInv, ReadInv, Answered, Auditing, Validate, RejectUpload, Connect
<1>4. ASSUME NEW r \in Requests, ProductMissing(r) \/ LockForRestore(r) \/ LockForStatus(r)
      PROVE  ReadInv'
  BY <1>0, <1>4, NullsAssumption
  DEF TypeOK, KindInv, ReadInv, Answered, Auditing, ProductMissing, Abort, EndTransaction,
     Unlocked, LockForRestore, RowFree, TakeRow, LockForStatus
<1>5. ASSUME NEW r \in Requests, LockForUpload(r) PROVE ReadInv'
  BY <1>0, <1>5, NullsAssumption
  DEF TypeOK, KindInv, ReadInv, Answered, Auditing, LockForUpload, Abort, EndTransaction,
     RowFree, TakeRow, Unlocked
<1>6. ASSUME NEW r \in Requests, TakePublishLock(r) \/ Published(r) PROVE ReadInv'
  BY <1>0, <1>6, NullsAssumption
  DEF TypeOK, KindInv, ReadInv, Answered, Auditing, TakePublishLock, Published, Unlocked
<1>7. ASSUME NEW r \in Requests, PublishFailed(r) PROVE ReadInv'
  BY <1>0, <1>7, NullsAssumption
  DEF TypeOK, KindInv, ReadInv, Answered, Auditing, PublishFailed, Abort, EndTransaction,
     Unlocked
<1>8. ASSUME NEW r \in Requests, Drained(r) PROVE ReadInv'
  BY <1>0, <1>8, NullsAssumption
  DEF TypeOK, KindInv, ReadInv, Answered, Auditing, Drained, EndTransaction, Unlocked
<1>9. ASSUME NEW r \in Requests, ThreadCheck(r) \/ ThreadRename(r) \/ ThreadFails(r)
      PROVE  ReadInv'
  BY <1>0, <1>9, NullsAssumption
  DEF TypeOK, KindInv, ReadInv, Answered, Auditing, ThreadCheck, ThreadRename, ThreadFails
<1>10. ASSUME NEW r \in Requests, InsertFile(r) \/ InsertVersion(r) PROVE ReadInv'
  BY <1>0, <1>10, NullsAssumption
  DEF TypeOK, KindInv, ReadInv, Answered, Auditing, InsertFile, InsertVersion
<1>11. ASSUME NEW r \in Requests, Commit(r) PROVE ReadInv'
  BY <1>0, <1>11, NullsAssumption
  DEF TypeOK, KindInv, ReadInv, Answered, Auditing, Commit, EndTransaction, Unlocked, Effect,
     UploadEffect, RestoreEffect, StatusEffect
<1>12. ASSUME NEW r \in Requests, CommitLost(r) PROVE ReadInv'
  BY <1>0, <1>12, NullsAssumption
  DEF TypeOK, KindInv, ReadInv, Answered, Auditing, CommitLost, EndTransaction, Unlocked,
     Effect, UploadEffect, RestoreEffect, StatusEffect
<1>13. ASSUME NEW r \in Requests, CancelCommitted(r) PROVE ReadInv'
  BY <1>0, <1>13, NullsAssumption
  DEF TypeOK, KindInv, ReadInv, Answered, Auditing, CancelCommitted, EndTransaction, Unlocked,
     Effect, UploadEffect, RestoreEffect, StatusEffect, AfterCancel
<1>14. ASSUME NEW r \in Requests, DbError(r) PROVE ReadInv'
  BY <1>0, <1>14, NullsAssumption
  DEF TypeOK, KindInv, ReadInv, Answered, Auditing, DbError, Abort, EndTransaction, Unlocked
<1>15. ASSUME NEW r \in Requests, AuditWrite(r) \/ AuditFails(r) PROVE ReadInv'
  BY <1>0, <1>15, NullsAssumption
  DEF TypeOK, KindInv, ReadInv, Answered, Auditing, AuditWrite, AuditFails, Reraise
<1>16. ASSUME NEW r \in Requests, ReadForScan(r) \/ Serve(r) \/ ReadReferences(r)
              \/ ListOrphans(r)
       PROVE  ReadInv'
  <2>1. CASE ReadForScan(r)
    <3>1. seen'[r] \subseteq disk  BY <1>0, <1>16, <2>1, CurrentOnDisk DEF ReadForScan, TypeOK
    <3> QED  BY <1>0, <2>1, <3>1 DEF TypeOK, ReadInv, ReadForScan
  <2>2. CASE Serve(r) \/ ReadReferences(r) \/ ListOrphans(r)
    BY <1>0, <2>2 DEF TypeOK, ReadInv, Serve, ReadReferences, ListOrphans
  <2> QED  BY <1>16, <2>1, <2>2
<1>17. ASSUME NEW r \in Requests, CancelReceiving(r) \/ CancelShieldedAudit(r) \/ CancelAudit(r)
       PROVE  ReadInv'
  BY <1>0, <1>17, NullsAssumption
  DEF TypeOK, KindInv, ReadInv, Answered, Auditing, CancelReceiving, CancelShieldedAudit,
     CancelAudit
<1>18. ASSUME NEW r \in Requests, CancelTransaction(r) PROVE ReadInv'
  BY <1>0, <1>18, NullsAssumption
  DEF TypeOK, KindInv, ReadInv, Answered, Auditing, CancelTransaction, EndTransaction, Unlocked,
     AfterCancel
<1>19. ASSUME NEW r \in Requests, CancelPublishing(r) \/ CancelDraining(r) PROVE ReadInv'
  BY <1>0, <1>19, NullsAssumption
  DEF TypeOK, KindInv, ReadInv, Answered, Auditing, CancelPublishing, CancelDraining,
     EndTransaction, Unlocked
<1>20. ASSUME NEW p \in Products, CreateProduct(p) PROVE ReadInv'
  BY <1>0, <1>20, NullsAssumption
  DEF TypeOK, KindInv, ReadInv, Answered, Auditing, CreateProduct
<1>21. CASE Crash
  BY <1>0, <1>21, NullsAssumption
  DEF TypeOK, KindInv, ReadInv, Answered, Auditing, Crash
<1>22. CASE UNCHANGED vars
  BY <1>0, <1>22, NullsAssumption
  DEF TypeOK, KindInv, ReadInv, Answered, Auditing, vars
<1> QED
  BY <1>1, <1>2, <1>3, <1>4, <1>5, <1>6, <1>7, <1>8, <1>9, <1>10, <1>11, <1>12, <1>13, <1>14,
     <1>15, <1>16, <1>17, <1>18, <1>19, <1>20, <1>21, <1>22
  DEF Next, Step, Thread, Cancel, Fault, Quiet

\* A request whose success is recorded has left its transaction for good.
SucceededInv == \A e \in audit : e.action = "pdf_upload" => pc[e.req] \in Auditing \cup Answered

AuditInv == AuditMatchesLedger /\ SucceededInv

\* What no step takes back.
Later == \A r \in Requests : pc[r] \in Auditing \cup Answered => pc'[r] \in Auditing \cup Answered

\* Events other than a success leave the correspondence alone; a restore event
\* names a version of its product.
LEMMA AuditKept ==
    ASSUME TypeOK, AuditInv, Later, UNCHANGED versions, audit \subseteq audit',
           \A e \in audit' \ audit :
               /\ e.action # "pdf_upload"
               /\ e.action = "version_restore" => Owns(e.product, e.version)
    PROVE  AuditInv'
<1>1. \A p, id : (Rows(p)' = Rows(p)) /\ (Owns(p, id)' <=> Owns(p, id))  BY DEF Rows, Owns
<1>2. {e \in audit' : e.action = "pdf_upload"} = {e \in audit : e.action = "pdf_upload"}
  OBVIOUS
<1>3. AuditMatchesLedger'
  <2>1. \A e \in audit' : e.action = "version_restore" => Owns(e.product, e.version)'
    BY <1>1 DEF AuditInv, AuditMatchesLedger
  <2> QED  BY <1>1, <1>2, <2>1 DEF AuditInv, AuditMatchesLedger
<1>4. SucceededInv'
  <2>1. \A e \in audit : e.req \in Requests  BY DEF TypeOK, Event
  <2> QED  BY <1>2, <2>1 DEF AuditInv, SucceededInv, Later
<1> QED  BY <1>3, <1>4 DEF AuditInv

\* An upload commits its version row and its event together.
LEMMA UploadAudited ==
    ASSUME IInv, AuditInv, Later, NEW r \in Requests, pc[r] = "commit", UploadEffect(r),
           pc'[r] \in Auditing \cup Answered
    PROVE  AuditInv'
<1>0. PICK p \in Products : p = Target(r)
  BY DEF IInv, TypeOK, RequestInv, LockInv, Holding, Uploading
<1> DEFINE new == [action |-> "pdf_upload", req |-> r, product |-> p, version |-> newId[r]]
           uploads == {e \in audit : e.action = "pdf_upload"}
<1>1. /\ Rows(p)' = Rows(p) \cup {Row(r)}
      /\ \A q \in Products \ {p} : Rows(q)' = Rows(q)
  BY <1>0, UploadRows
<1>2. /\ audit' = audit \cup {new}
      /\ new.action = "pdf_upload" /\ new.req = r /\ new.product = p /\ new.version = newId[r]
  BY <1>0 DEF UploadEffect
<1> HIDE DEF new
<1>3. {e \in audit' : e.action = "pdf_upload"} = uploads \cup {new}
  BY <1>2
<1>4. \A e \in uploads : e.req # r
  BY DEF AuditInv, SucceededInv, Auditing, Answered
<1>5. ASSUME NEW q \in Products
      PROVE  {v.id : v \in Rows(q)'}
                 = {e.version : e \in {u \in uploads \cup {new} : u.product = q}}
  <2>1. {v.id : v \in Rows(q)} = {e.version : e \in {u \in uploads : u.product = q}}
    BY DEF AuditInv, AuditMatchesLedger
  <2>2. CASE q = p
    <3>1. {v.id : v \in Rows(q)'} = {v.id : v \in Rows(q)} \cup {newId[r]}
      <4>1. Row(r).id = newId[r]  BY DEF Row
      <4> QED  BY <1>1, <2>2, <4>1
    <3>2. {e.version : e \in {u \in uploads \cup {new} : u.product = q}}
            = {e.version : e \in {u \in uploads : u.product = q}} \cup {newId[r]}
      BY <1>2, <2>2
    <3> QED  BY <2>1, <3>1, <3>2
  <2>3. CASE q # p
    <3>1. {u \in uploads \cup {new} : u.product = q} = {u \in uploads : u.product = q}
      BY <1>2, <2>3
    <3> QED  BY <1>1, <2>1, <2>3, <3>1
  <2> QED  BY <2>2, <2>3
<1>6. \A e, f \in uploads \cup {new} : e.req = f.req => e = f
  BY <1>2, <1>4 DEF AuditInv, AuditMatchesLedger
<1>7. \A e \in audit' : e.action = "version_restore" => Owns(e.product, e.version)'
  <2>1. \A e \in audit : e.action = "version_restore" => e.product \in Products
    BY DEF IInv, TypeOK, Event
  <2>2. \A q \in Products : \A id : Owns(q, id) => Owns(q, id)'  BY <1>1 DEF Owns
  <2> QED  BY <1>2, <2>1, <2>2 DEF AuditInv, AuditMatchesLedger
<1>8. AuditMatchesLedger'  BY <1>3, <1>5, <1>6, <1>7 DEF AuditMatchesLedger
<1>9. SucceededInv'
  <2>1. \A e \in audit : e.req \in Requests  BY DEF IInv, TypeOK, Event
  <2> QED  BY <1>2, <2>1 DEF AuditInv, SucceededInv, Later
<1> QED  BY <1>8, <1>9 DEF AuditInv

\* A commit, acknowledged or not.
LEMMA CommitsAudited ==
    ASSUME IInv, AuditInv, Later, NEW r \in Requests, Effect(r), pc'[r] \in Auditing \cup Answered,
           UNCHANGED op
    PROVE  AuditInv'
<1>1. CASE pc[r] = "commit" /\ UploadEffect(r)  BY <1>1, UploadAudited
<1>2. CASE pc[r] = "write" /\ op[r].kind = "restore" /\ RestoreEffect(r)
  <2> DEFINE new == [action |-> "version_restore", req |-> r,
                     product |-> Target(r), version |-> op[r].version]
  <2>1. Owns(Target(r), op[r].version)
    BY <1>2 DEF IInv, RequestInv, RestoreInv, VersionOfProduct
  <2>2. audit' = audit \cup {new} /\ UNCHANGED versions  BY <1>2 DEF RestoreEffect
  <2>3. /\ new.action = "version_restore"
        /\ Owns(new.product, new.version)
    BY <2>1
  <2> HIDE DEF new
  <2> QED  BY <2>2, <2>3, AuditKept DEF IInv
<1>3. CASE pc[r] = "write" /\ op[r].kind = "status" /\ StatusEffect(r)
  <2>1. UNCHANGED <<audit, versions>>  BY <1>3 DEF StatusEffect
  <2> QED  BY <2>1, AuditKept DEF IInv
<1> QED  BY <1>1, <1>2, <1>3 DEF Effect

\* No step takes a request back into a transaction.
LEMMA NextLater ==
    ASSUME IInv, [Next]_vars
    PROVE  Later
<1> USE DEF dbVars, lockVars, storageVars, localVars
<1>0. TypeOK /\ KindInv  BY DEF IInv
<1>1. ASSUME NEW r \in Requests, ReceiveUpload(r) PROVE Later
  BY <1>0, <1>1, NullsAssumption
  DEF TypeOK, KindInv, Later, Answered, Auditing, Uploading, ReceiveUpload
<1>2. ASSUME NEW r \in Requests, ReceiveRequest(r) PROVE Later
  BY <1>0, <1>2, NullsAssumption
  DEF TypeOK, KindInv, Later, Answered, Auditing, Uploading, ReceiveRequest
<1>3. ASSUME NEW r \in Requests, Validate(r) \/ RejectUpload(r) \/ Connect(r) PROVE Later
  BY <1>0, <1>3, NullsAssumption
  DEF TypeOK, KindInv, Later, Answered, Auditing, Uploading, Validate, RejectUpload, Connect
<1>4. ASSUME NEW r \in Requests, ProductMissing(r) \/ LockForRestore(r) \/ LockForStatus(r)
      PROVE  Later
  BY <1>0, <1>4, NullsAssumption
  DEF TypeOK, KindInv, Later, Answered, Auditing, Uploading, ProductMissing, Abort,
     EndTransaction, Unlocked, LockForRestore, RowFree, TakeRow, LockForStatus
<1>5. ASSUME NEW r \in Requests, LockForUpload(r) PROVE Later
  BY <1>0, <1>5, NullsAssumption
  DEF TypeOK, KindInv, Later, Answered, Auditing, Uploading, LockForUpload, Abort,
     EndTransaction, RowFree, TakeRow, Unlocked
<1>6. ASSUME NEW r \in Requests, TakePublishLock(r) \/ Published(r) PROVE Later
  BY <1>0, <1>6, NullsAssumption
  DEF TypeOK, KindInv, Later, Answered, Auditing, Uploading, TakePublishLock, Published,
     Unlocked
<1>7. ASSUME NEW r \in Requests, PublishFailed(r) PROVE Later
  BY <1>0, <1>7, NullsAssumption
  DEF TypeOK, KindInv, Later, Answered, Auditing, Uploading, PublishFailed, Abort,
     EndTransaction, Unlocked
<1>8. ASSUME NEW r \in Requests, Drained(r) PROVE Later
  BY <1>0, <1>8, NullsAssumption
  DEF TypeOK, KindInv, Later, Answered, Auditing, Uploading, Drained, EndTransaction, Unlocked
<1>9. ASSUME NEW r \in Requests, ThreadCheck(r) \/ ThreadRename(r) \/ ThreadFails(r) PROVE Later
  BY <1>0, <1>9, NullsAssumption
  DEF TypeOK, KindInv, Later, Answered, Auditing, Uploading, ThreadCheck, ThreadRename,
     ThreadFails
<1>10. ASSUME NEW r \in Requests, InsertFile(r) \/ InsertVersion(r) PROVE Later
  BY <1>0, <1>10, NullsAssumption
  DEF TypeOK, KindInv, Later, Answered, Auditing, Uploading, InsertFile, InsertVersion
<1>11. ASSUME NEW r \in Requests, Commit(r) PROVE Later
  BY <1>0, <1>11, NullsAssumption
  DEF TypeOK, KindInv, Later, Answered, Auditing, Uploading, Commit, EndTransaction, Unlocked,
     Effect, UploadEffect, RestoreEffect, StatusEffect
<1>12. ASSUME NEW r \in Requests, CommitLost(r) PROVE Later
  BY <1>0, <1>12, NullsAssumption
  DEF TypeOK, KindInv, Later, Answered, Auditing, Uploading, CommitLost, EndTransaction,
     Unlocked, Effect, UploadEffect, RestoreEffect, StatusEffect
<1>13. ASSUME NEW r \in Requests, CancelCommitted(r) PROVE Later
  BY <1>0, <1>13, NullsAssumption
  DEF TypeOK, KindInv, Later, Answered, Auditing, Uploading, CancelCommitted, EndTransaction,
     Unlocked, Effect, UploadEffect, RestoreEffect, StatusEffect, AfterCancel
<1>14. ASSUME NEW r \in Requests, DbError(r) PROVE Later
  BY <1>0, <1>14, NullsAssumption
  DEF TypeOK, KindInv, Later, Answered, Auditing, Uploading, DbError, Abort, EndTransaction,
     Unlocked
<1>15. ASSUME NEW r \in Requests, AuditWrite(r) \/ AuditFails(r) PROVE Later
  BY <1>0, <1>15, NullsAssumption
  DEF TypeOK, KindInv, Later, Answered, Auditing, Uploading, AuditWrite, AuditFails, Reraise
<1>16. ASSUME NEW r \in Requests, ReadForScan(r) \/ Serve(r) \/ ReadReferences(r)
              \/ ListOrphans(r)
       PROVE  Later
  BY <1>0, <1>16, NullsAssumption
  DEF TypeOK, KindInv, Later, Answered, Auditing, Uploading, ReadForScan, Serve, ReadReferences,
     ListOrphans
<1>17. ASSUME NEW r \in Requests, CancelReceiving(r) \/ CancelShieldedAudit(r) \/ CancelAudit(r)
       PROVE  Later
  BY <1>0, <1>17, NullsAssumption
  DEF TypeOK, KindInv, Later, Answered, Auditing, Uploading, CancelReceiving,
     CancelShieldedAudit, CancelAudit
<1>18. ASSUME NEW r \in Requests, CancelTransaction(r) PROVE Later
  BY <1>0, <1>18, NullsAssumption
  DEF TypeOK, KindInv, Later, Answered, Auditing, Uploading, CancelTransaction, EndTransaction,
     Unlocked, AfterCancel
<1>19. ASSUME NEW r \in Requests, CancelPublishing(r) \/ CancelDraining(r) PROVE Later
  BY <1>0, <1>19, NullsAssumption
  DEF TypeOK, KindInv, Later, Answered, Auditing, Uploading, CancelPublishing, CancelDraining,
     EndTransaction, Unlocked
<1>20. ASSUME NEW p \in Products, CreateProduct(p) PROVE Later
  BY <1>0, <1>20, NullsAssumption
  DEF TypeOK, KindInv, Later, Answered, Auditing, Uploading, CreateProduct
<1>21. CASE Crash
  BY <1>0, <1>21, NullsAssumption
  DEF TypeOK, KindInv, Later, Answered, Auditing, Uploading, Crash
<1>22. CASE UNCHANGED vars
  BY <1>0, <1>22, NullsAssumption
  DEF TypeOK, KindInv, Later, Answered, Auditing, Uploading, vars
<1> QED
  BY <1>1, <1>2, <1>3, <1>4, <1>5, <1>6, <1>7, <1>8, <1>9, <1>10, <1>11, <1>12, <1>13, <1>14,
     <1>15, <1>16, <1>17, <1>18, <1>19, <1>20, <1>21, <1>22
  DEF Next, Step, Thread, Cancel, Fault, Quiet

\* Every step keeps the audit trail and the ledger in correspondence.
LEMMA AuditNext ==
    ASSUME IInv, AuditInv, [Next]_vars
    PROVE  AuditInv'
<1> USE DEF dbVars, lockVars, storageVars, localVars
<1>0. TypeOK /\ Later  BY NextLater DEF IInv
<1>1. ASSUME NEW r \in Requests, Commit(r) \/ CommitLost(r) \/ CancelCommitted(r)
      PROVE  AuditInv'
  <2>1. pc'[r] \in Auditing \cup Answered /\ Effect(r) /\ op' = op
    BY <1>0, <1>1 DEF TypeOK, Commit, CommitLost, CancelCommitted, AfterCancel, Auditing, Answered
  <2> QED  BY <1>0, <2>1, CommitsAudited
<1>2. ASSUME NEW r \in Requests, AuditWrite(r) PROVE AuditInv'
  <2>1. Rejection(r).action = "pdf_upload_rejected"  BY DEF Rejection
  <2>2. audit' = audit \cup {Rejection(r)} /\ UNCHANGED versions  BY <1>2 DEF AuditWrite
  <2> QED  BY <1>0, <2>1, <2>2, AuditKept
<1>3. CASE UNCHANGED <<versions, audit>>  BY <1>0, <1>3, AuditKept
<1>4. ASSUME NEW r \in Requests,
           ReceiveUpload(r) \/ ReceiveRequest(r) \/ Validate(r) \/ RejectUpload(r) \/
           Connect(r) \/ ProductMissing(r) \/ LockForRestore(r) \/
           LockForStatus(r) \/ LockForUpload(r) \/ TakePublishLock(r) \/
           Published(r) \/ PublishFailed(r) \/ Drained(r) \/ ThreadCheck(r) \/
           ThreadRename(r) \/ ThreadFails(r) \/ InsertFile(r) \/
           InsertVersion(r) \/ DbError(r) \/ AuditFails(r) \/ ReadForScan(r) \/
           Serve(r) \/ ReadReferences(r) \/ ListOrphans(r) \/ CancelReceiving(r)
           \/ CancelShieldedAudit(r) \/ CancelAudit(r) \/ CancelTransaction(r)
           \/ CancelPublishing(r) \/ CancelDraining(r)
      PROVE  UNCHANGED <<versions, audit>>
  BY <1>4 DEF ReceiveUpload, ReceiveRequest, Validate, RejectUpload, Connect, ProductMissing,
     LockForRestore, LockForStatus, LockForUpload, TakePublishLock, Published, PublishFailed,
     Drained, ThreadCheck, ThreadRename, ThreadFails, InsertFile, InsertVersion, DbError,
     AuditFails, ReadForScan, Serve, ReadReferences, ListOrphans, CancelReceiving,
     CancelShieldedAudit, CancelAudit, CancelTransaction, CancelPublishing, CancelDraining
<1>5. (\E p \in Products : CreateProduct(p)) \/ Crash \/ UNCHANGED vars => UNCHANGED <<versions, audit>>
  BY DEF CreateProduct, Crash, vars
<1> QED
  BY <1>1, <1>2, <1>3, <1>4, <1>5 DEF Next, Step, Thread, Cancel, Fault, Quiet

-----------------------------------------------------------------------------
(* Publication, when no request is cancelled twice. *)

\* A request is drained or audits behind a shield because it was cancelled.  As
\* long as its thread is alive it waits for it and holds the publication lock of
\* its content, and nobody else can bring that content to the disk.
PublishOf(r) ==
    /\ pc[r] \in {"draining", "auditShielded"} => cancels[r] >= 1
    /\ pc[r] # "auditAwaited"
    /\ thread[r] # "none" => pc[r] \in {"publishing", "draining"}
    /\ pc[r] \in {"publishing", "draining"} => shaLock[Content(r)] = r
    /\ thread[r] = "absent" => Content(r) \notin disk

PublishInv == \A r \in Requests : PublishOf(r)

\* Only r takes a step; a content that it brings to the disk is one whose lock
\* it holds.
PublishAlone(r) ==
    /\ UNCHANGED op
    /\ \A s \in Requests \ {r} :
           /\ pc'[s] = pc[s] /\ thread'[s] = thread[s] /\ cancels'[s] = cancels[s]
           /\ \A c \in Contents : shaLock[c] = s => shaLock'[c] = s
    /\ \A c \in disk' \ disk : shaLock[c] = r

\* Such a step keeps PublishInv if it does for r.
LEMMA PublishKept ==
    ASSUME IInv, PublishInv, NEW r \in Requests, PublishOf(r)', PublishAlone(r)
    PROVE  PublishInv'
<1> SUFFICES ASSUME NEW s \in Requests PROVE PublishOf(s)'  BY DEF PublishInv
<1>1. CASE s # r
  <2>1. PublishOf(s)  BY DEF PublishInv
  <2>2. pc[s] \in {"publishing", "draining"} => Content(s) \in Contents
    BY DEF IInv, KindInv, Uploading, Content, Operation
  <2>3. Content(s)' = Content(s)  BY DEF Content, PublishAlone
  <2> QED  BY <1>1, <2>1, <2>2, <2>3 DEF PublishOf, PublishAlone
<1> QED  BY <1>1

\* Every step keeps PublishInv when no request is cancelled twice.
LEMMA PublishNext ==
    ASSUME MaxCancels <= 1, IInv, PublishInv, [Next]_vars
    PROVE  PublishInv'
<1> USE DEF dbVars, lockVars, storageVars, localVars
<1>0. TypeOK /\ KindInv /\ MaxCancels <= 1 /\ MaxCancels \in Nat  BY CancelsAssumption DEF IInv
<1>1. ASSUME NEW r \in Requests, ReceiveUpload(r) PROVE PublishInv'
  BY <1>0, <1>1, NullsAssumption
  DEF TypeOK, KindInv, PublishInv, PublishOf, Answered, Auditing, Uploading, Content, Operation,
     CancelOnce, ReceiveUpload
<1>2. ASSUME NEW r \in Requests, ReceiveRequest(r) PROVE PublishInv'
  BY <1>0, <1>2, NullsAssumption
  DEF TypeOK, KindInv, PublishInv, PublishOf, Answered, Auditing, Uploading, Content, Operation,
     CancelOnce, ReceiveRequest
<1>3. ASSUME NEW r \in Requests, Validate(r) \/ RejectUpload(r) \/ Connect(r) PROVE PublishInv'
  BY <1>0, <1>3, NullsAssumption
  DEF TypeOK, KindInv, PublishInv, PublishOf, Answered, Auditing, Uploading, Content, Operation,
     CancelOnce, Validate, RejectUpload, Connect
<1>4. ASSUME NEW r \in Requests, ProductMissing(r) PROVE PublishInv'
  BY <1>0, <1>4, NullsAssumption
  DEF TypeOK, KindInv, PublishInv, PublishOf, Answered, Auditing, Uploading, Content, Operation,
     CancelOnce, ProductMissing, Abort, EndTransaction, Unlocked
<1>5. ASSUME NEW r \in Requests, LockForRestore(r) PROVE PublishInv'
  BY <1>0, <1>5, NullsAssumption
  DEF TypeOK, KindInv, PublishInv, PublishOf, Answered, Auditing, Uploading, Content, Operation,
     CancelOnce, LockForRestore, EndTransaction, RowFree, TakeRow, Unlocked
<1>6. ASSUME NEW r \in Requests, LockForStatus(r) PROVE PublishInv'
  BY <1>0, <1>6, NullsAssumption
  DEF TypeOK, KindInv, PublishInv, PublishOf, Answered, Auditing, Uploading, Content, Operation,
     CancelOnce, LockForStatus, Abort, EndTransaction, RowFree, TakeRow, Unlocked
<1>7. ASSUME NEW r \in Requests, LockForUpload(r) PROVE PublishInv'
  BY <1>0, <1>7, NullsAssumption
  DEF TypeOK, KindInv, PublishInv, PublishOf, Answered, Auditing, Uploading, Content, Operation,
     CancelOnce, LockForUpload, Abort, EndTransaction, RowFree, TakeRow, Unlocked
<1>8. ASSUME NEW r \in Requests, TakePublishLock(r) PROVE PublishInv'
  <2>1. pc[r] \in {"publish", "publishing", "draining"} => Content(r) \in Contents
    BY <1>0 DEF KindInv, Uploading, Content, Operation
  <2>2. PublishOf(r)'
    BY <1>0, <1>8, <2>1 DEF TypeOK, PublishInv, PublishOf, Auditing, Content, TakePublishLock
  <2>3. PublishAlone(r)
    BY <1>0, <1>8, <2>1, NullsAssumption
    DEF TypeOK, PublishInv, PublishOf, PublishAlone, TakePublishLock
  <2> QED  BY <2>2, <2>3, PublishKept
<1>9. ASSUME NEW r \in Requests, Published(r) PROVE PublishInv'
  <2>1. pc[r] \in {"publish", "publishing", "draining"} => Content(r) \in Contents
    BY <1>0 DEF KindInv, Uploading, Content, Operation
  <2>2. PublishOf(r)'
    BY <1>0, <1>9, <2>1 DEF TypeOK, PublishInv, PublishOf, Auditing, Content, Published, Unlocked
  <2>3. PublishAlone(r)
    BY <1>0, <1>9, <2>1, NullsAssumption
    DEF TypeOK, PublishInv, PublishOf, PublishAlone, Published, Unlocked
  <2> QED  BY <2>2, <2>3, PublishKept
<1>10. ASSUME NEW r \in Requests, PublishFailed(r) PROVE PublishInv'
  <2>1. pc[r] \in {"publish", "publishing", "draining"} => Content(r) \in Contents
    BY <1>0 DEF KindInv, Uploading, Content, Operation
  <2>2. PublishOf(r)'
    BY <1>0, <1>10, <2>1
    DEF TypeOK, PublishInv, PublishOf, Auditing, Content, PublishFailed, Abort, EndTransaction,
        Unlocked
  <2>3. PublishAlone(r)
    BY <1>0, <1>10, <2>1, NullsAssumption
    DEF TypeOK, PublishInv, PublishOf, PublishAlone, PublishFailed, Abort, EndTransaction,
        Unlocked
  <2> QED  BY <2>2, <2>3, PublishKept
<1>11. ASSUME NEW r \in Requests, Drained(r) PROVE PublishInv'
  <2>1. pc[r] \in {"publish", "publishing", "draining"} => Content(r) \in Contents
    BY <1>0 DEF KindInv, Uploading, Content, Operation
  <2>2. PublishOf(r)'
    BY <1>0, <1>11, <2>1
    DEF TypeOK, PublishInv, PublishOf, Auditing, Content, Drained, EndTransaction, Unlocked
  <2>3. PublishAlone(r)
    BY <1>0, <1>11, <2>1, NullsAssumption
    DEF TypeOK, PublishInv, PublishOf, PublishAlone, Drained, EndTransaction, Unlocked
  <2> QED  BY <2>2, <2>3, PublishKept
<1>12. ASSUME NEW r \in Requests, ThreadCheck(r) PROVE PublishInv'
  BY <1>0, <1>12, NullsAssumption
  DEF TypeOK, KindInv, PublishInv, PublishOf, Answered, Auditing, Uploading, Content, Operation,
     CancelOnce, ThreadCheck
<1>13. ASSUME NEW r \in Requests, ThreadRename(r) PROVE PublishInv'
  <2>1. pc[r] \in {"publish", "publishing", "draining"} => Content(r) \in Contents
    BY <1>0 DEF KindInv, Uploading, Content, Operation
  <2>2. PublishOf(r)'
    BY <1>0, <1>13, <2>1 DEF TypeOK, PublishInv, PublishOf, Auditing, Content, ThreadRename
  <2>3. PublishAlone(r)
    BY <1>0, <1>13, <2>1, NullsAssumption
    DEF TypeOK, PublishInv, PublishOf, PublishAlone, ThreadRename
  <2> QED  BY <2>2, <2>3, PublishKept
<1>14. ASSUME NEW r \in Requests, ThreadFails(r) PROVE PublishInv'
  BY <1>0, <1>14, NullsAssumption
  DEF TypeOK, KindInv, PublishInv, PublishOf, Answered, Auditing, Uploading, Content, Operation,
     CancelOnce, ThreadFails
<1>15. ASSUME NEW r \in Requests, InsertFile(r) \/ InsertVersion(r) PROVE PublishInv'
  BY <1>0, <1>15, NullsAssumption
  DEF TypeOK, KindInv, PublishInv, PublishOf, Answered, Auditing, Uploading, Content, Operation,
     CancelOnce, InsertFile, InsertVersion
<1>16. ASSUME NEW r \in Requests, Commit(r) PROVE PublishInv'
  BY <1>0, <1>16, NullsAssumption
  DEF TypeOK, KindInv, PublishInv, PublishOf, Answered, Auditing, Uploading, Content, Operation,
     CancelOnce, Commit, EndTransaction, Unlocked, Effect, UploadEffect, RestoreEffect,
     StatusEffect
<1>17. ASSUME NEW r \in Requests, CommitLost(r) PROVE PublishInv'
  BY <1>0, <1>17, NullsAssumption
  DEF TypeOK, KindInv, PublishInv, PublishOf, Answered, Auditing, Uploading, Content, Operation,
     CancelOnce, CommitLost, EndTransaction, Unlocked, Effect, UploadEffect, RestoreEffect,
     StatusEffect
<1>18. ASSUME NEW r \in Requests, CancelCommitted(r) PROVE PublishInv'
  BY <1>0, <1>18, NullsAssumption
  DEF TypeOK, KindInv, PublishInv, PublishOf, Answered, Auditing, Uploading, Content, Operation,
     CancelOnce, CancelCommitted, EndTransaction, Unlocked, Effect, UploadEffect, RestoreEffect,
     StatusEffect, AfterCancel
<1>19. ASSUME NEW r \in Requests, DbError(r) PROVE PublishInv'
  BY <1>0, <1>19, NullsAssumption
  DEF TypeOK, KindInv, PublishInv, PublishOf, Answered, Auditing, Uploading, Content, Operation,
     CancelOnce, DbError, Abort, EndTransaction, Unlocked
<1>20. ASSUME NEW r \in Requests, AuditWrite(r) \/ AuditFails(r) PROVE PublishInv'
  BY <1>0, <1>20, NullsAssumption
  DEF TypeOK, KindInv, PublishInv, PublishOf, Answered, Auditing, Uploading, Content, Operation,
     CancelOnce, AuditWrite, AuditFails, Reraise
<1>21. ASSUME NEW r \in Requests, ReadForScan(r) \/ Serve(r) \/ ReadReferences(r)
              \/ ListOrphans(r)
       PROVE  PublishInv'
  BY <1>0, <1>21, NullsAssumption
  DEF TypeOK, KindInv, PublishInv, PublishOf, Answered, Auditing, Uploading, Content, Operation,
     CancelOnce, ReadForScan, Serve, ReadReferences, ListOrphans
<1>22. ASSUME NEW r \in Requests, CancelReceiving(r) \/ CancelShieldedAudit(r) \/ CancelAudit(r)
       PROVE  PublishInv'
  BY <1>0, <1>22, NullsAssumption
  DEF TypeOK, KindInv, PublishInv, PublishOf, Answered, Auditing, Uploading, Content, Operation,
     CancelOnce, CancelReceiving, CancelShieldedAudit, CancelAudit
<1>23. ASSUME NEW r \in Requests, CancelTransaction(r) PROVE PublishInv'
  BY <1>0, <1>23, NullsAssumption
  DEF TypeOK, KindInv, PublishInv, PublishOf, Answered, Auditing, Uploading, Content, Operation,
     CancelOnce, CancelTransaction, EndTransaction, Unlocked, AfterCancel
<1>24. ASSUME NEW r \in Requests, CancelPublishing(r) PROVE PublishInv'
  BY <1>0, <1>24, NullsAssumption
  DEF TypeOK, KindInv, PublishInv, PublishOf, Answered, Auditing, Uploading, Content, Operation,
     CancelOnce, CancelPublishing
<1>25. ASSUME NEW r \in Requests, CancelDraining(r) PROVE PublishInv'
  BY <1>0, <1>25, NullsAssumption
  DEF TypeOK, KindInv, PublishInv, PublishOf, Answered, Auditing, Uploading, Content, Operation,
     CancelOnce, CancelDraining, EndTransaction, Unlocked
<1>26. ASSUME NEW p \in Products, CreateProduct(p) PROVE PublishInv'
  BY <1>0, <1>26, NullsAssumption
  DEF TypeOK, KindInv, PublishInv, PublishOf, Answered, Auditing, Uploading, Content, Operation,
     CancelOnce, CreateProduct
<1>27. CASE Crash
  BY <1>0, <1>27, NullsAssumption
  DEF TypeOK, KindInv, PublishInv, PublishOf, Answered, Auditing, Uploading, Content, Operation,
     CancelOnce, Crash
<1>28. CASE UNCHANGED vars
  BY <1>0, <1>28, NullsAssumption
  DEF TypeOK, KindInv, PublishInv, PublishOf, Answered, Auditing, Uploading, Content, Operation,
     CancelOnce, vars
<1> QED
  BY <1>1, <1>2, <1>3, <1>4, <1>5, <1>6, <1>7, <1>8, <1>9, <1>10, <1>11, <1>12, <1>13, <1>14,
     <1>15, <1>16, <1>17, <1>18, <1>19, <1>20, <1>21, <1>22, <1>23, <1>24, <1>25, <1>26, <1>27,
     <1>28
  DEF Next, Step, Thread, Cancel, Fault, Quiet

-----------------------------------------------------------------------------
(* Orphans. *)

\* The process does not die and its audits do not fail, and a request that a
\* database error sends to the unshielded audit is not cancelled there.
Recorded ==
    /\ Faults \cap {"audit", "crash"} = {}
    /\ MaxCancels <= (IF "db" \in Faults THEN 0 ELSE 1)

\* Request r has moved c and is bound either to commit it or to report it.
Mover(r, c) ==
    /\ op[r].kind = "upload" /\ Content(r) = c
    /\ \/ pc[r] \in {"publishing", "draining"} /\ thread[r] = "moved"
       \/ pc[r] \in {"file", "version", "commit", "auditShielded"} /\ published[r] = "moved"
       \/ pc[r] = "audit" /\ published[r] = "moved" /\ MaxCancels = 0

Reported(c) == \E e \in audit : e.action = "pdf_upload_rejected" /\ e.moved = {c}

\* The inductive form of OrphanTraced: it names the request that moved the file.
Traced == \A c \in disk \ files : (\E r \in Requests : Mover(r, c)) \/ Reported(c)

\* Only r takes a step; whatever it has moved stays accounted for.
Accounts(r) ==
    /\ audit \subseteq audit' /\ files \subseteq files'
    /\ \A s \in Requests \ {r} : /\ pc'[s] = pc[s] /\ op'[s] = op[s]
                                 /\ thread'[s] = thread[s] /\ published'[s] = published[s]
    /\ \A c \in disk' \ disk : Mover(r, c)'
    /\ \A c \in Contents : Mover(r, c) => Mover(r, c)' \/ c \in files' \/ Reported(c)'

\* Such a step keeps every orphan traced.
LEMMA TracedKept ==
    ASSUME TypeOK, Traced, NEW r \in Requests, Accounts(r)
    PROVE  Traced'
<1> SUFFICES ASSUME NEW c \in disk' \ files'
             PROVE  (\E s \in Requests : Mover(s, c)') \/ Reported(c)'
  BY DEF Traced
<1>1. CASE c \in disk
  <2>1. CASE Reported(c)  BY <2>1 DEF Accounts, Reported
  <2>2. ASSUME NEW s \in Requests, Mover(s, c)
        PROVE  (\E t \in Requests : Mover(t, c)') \/ Reported(c)'
    <3>1. CASE s = r  BY <1>1, <2>2, <3>1 DEF Accounts, TypeOK
    <3>2. CASE s # r  BY <2>2, <3>2 DEF Accounts, Mover, Content
    <3> QED  BY <3>1, <3>2
  <2>3. c \in disk \ files  BY <1>1 DEF Accounts
  <2> QED  BY <2>1, <2>2, <2>3 DEF Traced
<1>2. CASE c \notin disk  BY <1>2 DEF Accounts
<1> QED  BY <1>1, <1>2

\* Every step keeps every orphan traced.
LEMMA TracedNext ==
    ASSUME Recorded, IInv, PublishInv, Traced, [Next]_vars
    PROVE  Traced'
<1> USE DEF dbVars, lockVars, storageVars, localVars
<1>0. TypeOK /\ KindInv /\ Recorded /\ MaxCancels \in Nat  BY CancelsAssumption DEF IInv
<1>1. ASSUME NEW r \in Requests, ReceiveUpload(r) PROVE Accounts(r)
  BY <1>0, <1>1
  DEF TypeOK, KindInv, PublishInv, PublishOf, Recorded, Accounts, Mover, Auditing, Uploading,
     Content, CancelOnce, ReceiveUpload
<1>2. ASSUME NEW r \in Requests, ReceiveRequest(r) PROVE Accounts(r)
  BY <1>0, <1>2
  DEF TypeOK, KindInv, PublishInv, PublishOf, Recorded, Accounts, Mover, Auditing, Uploading,
     Content, CancelOnce, ReceiveRequest
<1>3. ASSUME NEW r \in Requests, Validate(r) \/ RejectUpload(r) \/ Connect(r) PROVE Accounts(r)
  BY <1>0, <1>3
  DEF TypeOK, KindInv, PublishInv, PublishOf, Recorded, Accounts, Mover, Auditing, Uploading,
     Content, CancelOnce, Validate, RejectUpload, Connect
<1>4. ASSUME NEW r \in Requests, ProductMissing(r) PROVE Accounts(r)
  BY <1>0, <1>4
  DEF TypeOK, KindInv, PublishInv, PublishOf, Recorded, Accounts, Mover, Auditing, Uploading,
     Content, CancelOnce, ProductMissing, Abort, EndTransaction, Unlocked
<1>5. ASSUME NEW r \in Requests, LockForRestore(r) PROVE Accounts(r)
  BY <1>0, <1>5
  DEF TypeOK, KindInv, PublishInv, PublishOf, Recorded, Accounts, Mover, Auditing, Uploading,
     Content, CancelOnce, LockForRestore, EndTransaction, RowFree, TakeRow, Unlocked
<1>6. ASSUME NEW r \in Requests, LockForStatus(r) PROVE Accounts(r)
  BY <1>0, <1>6
  DEF TypeOK, KindInv, PublishInv, PublishOf, Recorded, Accounts, Mover, Auditing, Uploading,
     Content, CancelOnce, LockForStatus, Abort, EndTransaction, RowFree, TakeRow, Unlocked
<1>7. ASSUME NEW r \in Requests, LockForUpload(r) PROVE Accounts(r)
  BY <1>0, <1>7
  DEF TypeOK, KindInv, PublishInv, PublishOf, Recorded, Accounts, Mover, Auditing, Uploading,
     Content, CancelOnce, LockForUpload, Abort, EndTransaction, RowFree, TakeRow, Unlocked
<1>8. ASSUME NEW r \in Requests, TakePublishLock(r) PROVE Accounts(r)
  BY <1>0, <1>8
  DEF TypeOK, KindInv, PublishInv, PublishOf, Recorded, Accounts, Mover, Auditing, Uploading,
     Content, CancelOnce, TakePublishLock
<1>9. ASSUME NEW r \in Requests, Published(r) PROVE Accounts(r)
  BY <1>0, <1>9
  DEF TypeOK, KindInv, PublishInv, PublishOf, Recorded, Accounts, Mover, Auditing, Uploading,
     Content, CancelOnce, Published, Unlocked
<1>10. ASSUME NEW r \in Requests, PublishFailed(r) PROVE Accounts(r)
  BY <1>0, <1>10
  DEF TypeOK, KindInv, PublishInv, PublishOf, Recorded, Accounts, Mover, Auditing, Uploading,
     Content, CancelOnce, PublishFailed, Abort, EndTransaction, Unlocked
<1>11. ASSUME NEW r \in Requests, Drained(r) PROVE Accounts(r)
  BY <1>0, <1>11
  DEF TypeOK, KindInv, PublishInv, PublishOf, Recorded, Accounts, Mover, Auditing, Uploading,
     Content, CancelOnce, Drained, EndTransaction, Unlocked
<1>12. ASSUME NEW r \in Requests, ThreadCheck(r) PROVE Accounts(r)
  BY <1>0, <1>12
  DEF TypeOK, KindInv, PublishInv, PublishOf, Recorded, Accounts, Mover, Auditing, Uploading,
     Content, CancelOnce, ThreadCheck
<1>13. ASSUME NEW r \in Requests, ThreadRename(r) PROVE Accounts(r)
  BY <1>0, <1>13
  DEF TypeOK, KindInv, PublishInv, PublishOf, Recorded, Accounts, Mover, Auditing, Uploading,
     Content, CancelOnce, ThreadRename
<1>14. ASSUME NEW r \in Requests, ThreadFails(r) PROVE Accounts(r)
  BY <1>0, <1>14
  DEF TypeOK, KindInv, PublishInv, PublishOf, Recorded, Accounts, Mover, Auditing, Uploading,
     Content, CancelOnce, ThreadFails
<1>15. ASSUME NEW r \in Requests, InsertFile(r) \/ InsertVersion(r) PROVE Accounts(r)
  BY <1>0, <1>15
  DEF TypeOK, KindInv, PublishInv, PublishOf, Recorded, Accounts, Mover, Auditing, Uploading,
     Content, CancelOnce, InsertFile, InsertVersion
<1>16. ASSUME NEW r \in Requests, Commit(r) PROVE Accounts(r)
  BY <1>0, <1>16
  DEF TypeOK, KindInv, PublishInv, PublishOf, Recorded, Accounts, Mover, Auditing, Uploading,
     Content, CancelOnce, Commit, EndTransaction, Unlocked, Effect, UploadEffect, RestoreEffect,
     StatusEffect
<1>17. ASSUME NEW r \in Requests, CommitLost(r) PROVE Accounts(r)
  BY <1>0, <1>17
  DEF TypeOK, KindInv, PublishInv, PublishOf, Recorded, Accounts, Mover, Auditing, Uploading,
     Content, CancelOnce, CommitLost, EndTransaction, Unlocked, Effect, UploadEffect,
     RestoreEffect, StatusEffect
<1>18. ASSUME NEW r \in Requests, CancelCommitted(r) PROVE Accounts(r)
  BY <1>0, <1>18
  DEF TypeOK, KindInv, PublishInv, PublishOf, Recorded, Accounts, Mover, Auditing, Uploading,
     Content, CancelOnce, CancelCommitted, EndTransaction, Unlocked, Effect, UploadEffect,
     RestoreEffect, StatusEffect, AfterCancel
<1>19. ASSUME NEW r \in Requests, DbError(r) PROVE Accounts(r)
  BY <1>0, <1>19
  DEF TypeOK, KindInv, PublishInv, PublishOf, Recorded, Accounts, Mover, Auditing, Uploading,
     Content, CancelOnce, DbError, Abort, EndTransaction, Unlocked
<1>20. ASSUME NEW r \in Requests, AuditWrite(r) \/ AuditFails(r) PROVE Accounts(r)
  <2>1. AuditWrite(r)  BY <1>0, <1>20 DEF Recorded, AuditFails
  <2>2. audit' = audit \cup {Rejection(r)}  BY <2>1 DEF AuditWrite
  <2>3. ASSUME NEW c \in Contents, Mover(r, c) PROVE Reported(c)'
    <3>1. published[r] = "moved" /\ Content(r) = c  BY <2>1, <2>3 DEF AuditWrite, Mover, Auditing
    <3>2. Rejection(r).action = "pdf_upload_rejected" /\ Rejection(r).moved = {c}
      BY <3>1 DEF Rejection
    <3> QED  BY <2>2, <3>2 DEF Reported
  <2> QED  BY <1>0, <2>1, <2>3 DEF TypeOK, Accounts, AuditWrite, Reraise
<1>21. ASSUME NEW r \in Requests, ReadForScan(r) \/ Serve(r) \/ ReadReferences(r)
              \/ ListOrphans(r)
       PROVE  Accounts(r)
  BY <1>0, <1>21
  DEF TypeOK, KindInv, PublishInv, PublishOf, Recorded, Accounts, Mover, Auditing, Uploading,
     Content, CancelOnce, ReadForScan, Serve, ReadReferences, ListOrphans
<1>22. ASSUME NEW r \in Requests, CancelReceiving(r) \/ CancelShieldedAudit(r) \/ CancelAudit(r)
       PROVE  Accounts(r)
  BY <1>0, <1>22
  DEF TypeOK, KindInv, PublishInv, PublishOf, Recorded, Accounts, Mover, Auditing, Uploading,
     Content, CancelOnce, CancelReceiving, CancelShieldedAudit, CancelAudit
<1>23. ASSUME NEW r \in Requests, CancelTransaction(r) PROVE Accounts(r)
  BY <1>0, <1>23
  DEF TypeOK, KindInv, PublishInv, PublishOf, Recorded, Accounts, Mover, Auditing, Uploading,
     Content, CancelOnce, CancelTransaction, EndTransaction, Unlocked, AfterCancel
<1>24. ASSUME NEW r \in Requests, CancelPublishing(r) PROVE Accounts(r)
  BY <1>0, <1>24
  DEF TypeOK, KindInv, PublishInv, PublishOf, Recorded, Accounts, Mover, Auditing, Uploading,
     Content, CancelOnce, CancelPublishing
<1>25. ASSUME NEW r \in Requests, CancelDraining(r) PROVE Accounts(r)
  BY <1>0, <1>25
  DEF TypeOK, KindInv, PublishInv, PublishOf, Recorded, Accounts, Mover, Auditing, Uploading,
     Content, CancelOnce, CancelDraining, EndTransaction, Unlocked
<1>26. ~Crash  BY <1>0 DEF Recorded, Crash
<1>27. ASSUME (\E p \in Products : CreateProduct(p)) \/ UNCHANGED vars PROVE Traced'
  BY <1>27 DEF Traced, Mover, Reported, Content, CreateProduct, vars
<1> QED
  BY <1>0, <1>1, <1>2, <1>3, <1>4, <1>5, <1>6, <1>7, <1>8, <1>9, <1>10, <1>11, <1>12, <1>13,
     <1>14, <1>15, <1>16, <1>17, <1>18, <1>19, <1>20, <1>21, <1>22, <1>23, <1>24, <1>25, <1>26,
     <1>27, TracedKept
  DEF Next, Step, Thread, Cancel, Fault, Quiet

-----------------------------------------------------------------------------
(* Errors that cannot happen. *)

\* No step ends in an unexpected error.
LEMMA ResolvedNext ==
    ASSUME IInv, ReadInv, NeverUnresolved, [Next]_vars
    PROVE  NeverUnresolved'
<1> USE DEF dbVars, lockVars, storageVars, localVars
<1>0. TypeOK /\ KindInv /\ ReadInv  BY DEF IInv
<1>1. ASSUME NEW r \in Requests, ReceiveUpload(r) PROVE NeverUnresolved'
  BY <1>0, <1>1, NullsAssumption
  DEF TypeOK, NeverUnresolved, ReceiveUpload
<1>2. ASSUME NEW r \in Requests, ReceiveRequest(r) PROVE NeverUnresolved'
  BY <1>0, <1>2, NullsAssumption
  DEF TypeOK, NeverUnresolved, ReceiveRequest
<1>3. ASSUME NEW r \in Requests, Validate(r) \/ RejectUpload(r) \/ Connect(r)
      PROVE  NeverUnresolved'
  BY <1>0, <1>3, NullsAssumption
  DEF TypeOK, NeverUnresolved, Validate, RejectUpload, Connect
<1>4. ASSUME NEW r \in Requests, ProductMissing(r) \/ LockForRestore(r) \/ LockForStatus(r)
      PROVE  NeverUnresolved'
  <2>1. CASE LockForRestore(r)
    <3>1. PICK p \in Products : p = Target(r)  BY <1>0, <2>1 DEF LockForRestore, RowFree, TypeOK
    <3>2. VersionOfProduct(r) => versions[p] # << >>  BY <3>1 DEF VersionOfProduct, Owns, Rows
    <3>3. VersionOfProduct(r) => Owns(p, current[p])
      BY <3>2 DEF IInv, Safe, PointerResolves
    <3> QED  BY <1>0, <2>1, <3>1, <3>3 DEF TypeOK, NeverUnresolved, LockForRestore
  <2>2. CASE ProductMissing(r) \/ LockForStatus(r)
    BY <1>0, <2>2 DEF TypeOK, NeverUnresolved, ProductMissing, LockForStatus, Abort
  <2> QED  BY <1>4, <2>1, <2>2
<1>5. ASSUME NEW r \in Requests, LockForUpload(r) PROVE NeverUnresolved'
  <2>1. Target(r) \in Products  BY <1>0, <1>5 DEF LockForUpload, RowFree, TypeOK
  <2>2. ~PointerUnresolved(Target(r))
    BY <2>1 DEF PointerUnresolved, IInv, Safe, PointerResolves
  <2> QED  BY <1>0, <1>5, <2>2 DEF TypeOK, NeverUnresolved, LockForUpload
<1>6. ASSUME NEW r \in Requests, TakePublishLock(r) \/ Published(r) PROVE NeverUnresolved'
  BY <1>0, <1>6, NullsAssumption
  DEF TypeOK, NeverUnresolved, TakePublishLock, Published, Unlocked
<1>7. ASSUME NEW r \in Requests, PublishFailed(r) PROVE NeverUnresolved'
  BY <1>0, <1>7, NullsAssumption
  DEF TypeOK, NeverUnresolved, PublishFailed, Abort, EndTransaction, Unlocked
<1>8. ASSUME NEW r \in Requests, Drained(r) PROVE NeverUnresolved'
  BY <1>0, <1>8, NullsAssumption
  DEF TypeOK, NeverUnresolved, Drained, EndTransaction, Unlocked
<1>9. ASSUME NEW r \in Requests, ThreadCheck(r) \/ ThreadRename(r) \/ ThreadFails(r)
      PROVE  NeverUnresolved'
  BY <1>0, <1>9, NullsAssumption
  DEF TypeOK, NeverUnresolved, ThreadCheck, ThreadRename, ThreadFails
<1>10. ASSUME NEW r \in Requests, InsertFile(r) \/ InsertVersion(r) PROVE NeverUnresolved'
  BY <1>0, <1>10, NullsAssumption
  DEF TypeOK, NeverUnresolved, InsertFile, InsertVersion
<1>11. ASSUME NEW r \in Requests, Commit(r) PROVE NeverUnresolved'
  BY <1>0, <1>11, NullsAssumption
  DEF TypeOK, NeverUnresolved, Commit, EndTransaction, Unlocked, Effect, UploadEffect,
     RestoreEffect, StatusEffect
<1>12. ASSUME NEW r \in Requests, CommitLost(r) PROVE NeverUnresolved'
  BY <1>0, <1>12, NullsAssumption
  DEF TypeOK, NeverUnresolved, CommitLost, EndTransaction, Unlocked, Effect, UploadEffect,
     RestoreEffect, StatusEffect
<1>13. ASSUME NEW r \in Requests, CancelCommitted(r) PROVE NeverUnresolved'
  BY <1>0, <1>13, NullsAssumption
  DEF TypeOK, NeverUnresolved, CancelCommitted, EndTransaction, Unlocked, Effect, UploadEffect,
     RestoreEffect, StatusEffect, AfterCancel
<1>14. ASSUME NEW r \in Requests, DbError(r) PROVE NeverUnresolved'
  BY <1>0, <1>14, NullsAssumption
  DEF TypeOK, NeverUnresolved, DbError, Abort, EndTransaction, Unlocked
<1>15. ASSUME NEW r \in Requests, AuditWrite(r) \/ AuditFails(r) PROVE NeverUnresolved'
  BY <1>0, <1>15, NullsAssumption
  DEF TypeOK, NeverUnresolved, AuditWrite, AuditFails, Reraise
<1>16. ASSUME NEW r \in Requests, ReadForScan(r) \/ Serve(r) \/ ReadReferences(r)
              \/ ListOrphans(r)
       PROVE  NeverUnresolved'
  <2>1. CASE ReadForScan(r)
    <3>1. Target(r) \in products => Target(r) \in Products  BY <1>0 DEF TypeOK
    <3>2. \A p \in Products : current[p] # 0 => Owns(p, current[p])
      BY DEF IInv, Safe, PointerResolves
    <3> QED  BY <1>0, <2>1, <3>1, <3>2 DEF TypeOK, NeverUnresolved, ReadForScan, PointerUnresolved
  <2>2. CASE Serve(r) \/ ReadReferences(r) \/ ListOrphans(r)
    BY <1>0, <2>2 DEF TypeOK, NeverUnresolved, ReadInv, Serve, ReadReferences, ListOrphans
  <2> QED  BY <1>16, <2>1, <2>2
<1>17. ASSUME NEW r \in Requests, CancelReceiving(r) \/ CancelShieldedAudit(r) \/ CancelAudit(r)
       PROVE  NeverUnresolved'
  BY <1>0, <1>17, NullsAssumption
  DEF TypeOK, NeverUnresolved, CancelReceiving, CancelShieldedAudit, CancelAudit
<1>18. ASSUME NEW r \in Requests, CancelTransaction(r) PROVE NeverUnresolved'
  BY <1>0, <1>18, NullsAssumption
  DEF TypeOK, NeverUnresolved, CancelTransaction, EndTransaction, Unlocked, AfterCancel
<1>19. ASSUME NEW r \in Requests, CancelPublishing(r) \/ CancelDraining(r)
       PROVE  NeverUnresolved'
  BY <1>0, <1>19, NullsAssumption
  DEF TypeOK, NeverUnresolved, CancelPublishing, CancelDraining, EndTransaction, Unlocked
<1>20. ASSUME NEW p \in Products, CreateProduct(p) PROVE NeverUnresolved'
  BY <1>0, <1>20, NullsAssumption
  DEF TypeOK, NeverUnresolved, CreateProduct
<1>21. CASE Crash
  BY <1>0, <1>21, NullsAssumption
  DEF TypeOK, NeverUnresolved, Crash
<1>22. CASE UNCHANGED vars
  BY <1>0, <1>22, NullsAssumption
  DEF TypeOK, NeverUnresolved, vars
<1> QED
  BY <1>1, <1>2, <1>3, <1>4, <1>5, <1>6, <1>7, <1>8, <1>9, <1>10, <1>11, <1>12, <1>13, <1>14,
     <1>15, <1>16, <1>17, <1>18, <1>19, <1>20, <1>21, <1>22
  DEF Next, Step, Thread, Cancel, Fault, Quiet

-----------------------------------------------------------------------------
(* The theorems. *)

Requesting == IInv /\ HeldInv /\ ReadInv /\ NeverUnresolved /\ AuditInv

\* The initial state satisfies all of them.
LEMMA RequestsInit == Init => Requesting
<1> SUFFICES ASSUME Init PROVE Requesting  OBVIOUS
<1>1. IInv  BY InitInv
<1>2. HeldInv /\ ReadInv /\ NeverUnresolved
  BY NullsAssumption DEF Init, HeldInv, ReadInv, NeverUnresolved, Holding, Uploading
<1>3. AuditInv
  <2>1. \A p \in Products : Rows(p) = {}  BY DEF Init, Rows
  <2> QED  BY <2>1 DEF Init, AuditInv, AuditMatchesLedger, SucceededInv
<1> QED  BY <1>1, <1>2, <1>3 DEF Requesting

\* The invariants about requests hold in every reachable state of every instance.
THEOREM RequestsInvariant == Spec => []Requesting
<1>1. Init => Requesting  BY RequestsInit
<1>2. Requesting /\ [Next]_vars => Requesting'
  BY NextInv, HeldNext, ReadNext, ResolvedNext, AuditNext DEF Requesting
<1> QED  BY <1>1, <1>2, PTL DEF Spec

\* No restore, scan or upload ever meets a pointer that it cannot resolve, and no
\* scan a missing file: the RuntimeErrors of restore_pdf_version, upload_pdf and
\* resolve_public_document are unreachable, under every fault and any number of
\* cancellations.
THEOREM AlwaysResolved == Spec => []NeverUnresolved
<1>1. Requesting => NeverUnresolved  BY DEF Requesting
<1> QED  BY <1>1, RequestsInvariant, PTL

\* The success events of the audit trail are the version rows, one request each.
THEOREM AuditExact == Spec => []AuditMatchesLedger
<1>1. Requesting => AuditMatchesLedger  BY DEF Requesting, AuditInv
<1> QED  BY <1>1, RequestsInvariant, PTL

\* An answered request leaves no connection, lock or temporary file behind.
THEOREM NothingLeaked == Spec => []NothingHeldOnceAnswered
<1>1. Requesting => NothingHeldOnceAnswered
  BY DEF Requesting, HeldInv, NothingHeldOnceAnswered, Holding, Uploading
<1> QED  BY <1>1, RequestsInvariant, PTL

\* As long as no request is cancelled twice, a published file is never renamed
\* over, whatever else fails (_publish_sync under the publication lock).
THEOREM NeverRenamedOver == ASSUME MaxCancels <= 1 PROVE Spec => NoOverwrite
<1>1. Init => PublishInv  BY DEF Init, PublishInv, PublishOf
<1>2. IInv /\ PublishInv /\ [Next]_vars => PublishInv'  BY PublishNext
<1>3. PublishInv => \A r \in Requests : thread[r] = "absent" => Content(r) \notin disk
  BY DEF PublishInv, PublishOf
<1>4. PublishInv => [\A r \in Requests : thread[r] = "absent" /\ thread'[r] = "moved"
                        => Content(r) \notin disk]_vars
  BY <1>3
<1> QED  BY <1>1, <1>2, <1>4, Invariance, PTL DEF Spec, NoOverwrite

\* Every file without a row belongs to an upload in progress or is named by a
\* rejection event, as long as audits are written (Recorded).
THEOREM OrphansTraced == ASSUME Recorded PROVE Spec => []OrphanTraced
<1>1. MaxCancels <= 1  BY CancelsAssumption DEF Recorded
<1>2. Init => PublishInv /\ Traced  BY DEF Init, PublishInv, PublishOf, Traced
<1>3. IInv /\ PublishInv /\ Traced /\ [Next]_vars => PublishInv' /\ Traced'
  BY <1>1, PublishNext, TracedNext
<1>4. Traced => OrphanTraced
  BY DEF Traced, Mover, Reported, OrphanTraced, Unfinished, Answered
<1> QED  BY <1>2, <1>3, <1>4, Invariance, PTL DEF Spec
=============================================================================
