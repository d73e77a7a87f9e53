------------------------ MODULE ProductImport_proofs ------------------------
(***************************************************************************)
(* Proofs about ProductImport for any requests, codes, tokens, spellings,  *)
(* lengths of files and faults.                                            *)
(***************************************************************************)
EXTENDS ProductImport, FiniteSetTheorems, NaturalsInduction, WellFoundedInduction, TLAPS

-----------------------------------------------------------------------------
(* The inductive invariant. *)

Working == {"attempt", "code", "token"}

\* Nothing is inserted or counted before the file is validated.
NothingYet(r) ==
    pc[r] \in {"idle", "received"} => held[r] = {} /\ todo[r] = {} /\ skipped[r] = 0

\* An attempt is about a candidate that has attempts left.
Attempting(r) == pc[r] \in {"code", "token"} => todo[r] # {} /\ tries[r] > 0

\* Inside the transaction every code of the file is committed, inserted or a
\* candidate: what was skipped stands for a product that stays.
Covered(r) == pc[r] \in Working =>
    /\ RowErrors(file[r]) = {} /\ todo[r] \subseteq NonblankRows(file[r])
    /\ \A i \in NonblankRows(file[r]) :
          \/ Normal[file[r][i]] \in CodesIn(rows) \cup CodesIn(held[r])
          \/ \E j \in todo[r] : Normal[file[r][j]] = Normal[file[r][i]]

\* Inside the transaction no row of the file is lost or counted twice.
Counted(r) == pc[r] \in Working =>
    skipped[r] + Cardinality(held[r]) + Cardinality(todo[r]) = Cardinality(NonblankRows(file[r]))

\* Nothing of a batch is visible before its commit.
Unseen(r) == pc[r] \notin Answered => Created(r) = {} /\ \A e \in audit : e.req # r

Batches(r) ==
    /\ IsFiniteSet(held[r])
    /\ NothingYet(r) /\ Attempting(r) /\ Covered(r) /\ Counted(r) /\ Unseen(r)

\* What the audit trail says about r.
Exact(r) ==
    /\ Created(r) # {} => \E e \in audit : e.req = r /\ e.result = "success"
    /\ \A e \in audit : e.req = r /\ e.result = "success" =>
           /\ e.created = Cardinality(Created(r))
           /\ e.created + e.skipped = Cardinality(NonblankRows(file[r]))
    /\ \A e, f \in audit : e.req = r /\ f.req = r => e = f

IInv == /\ TypeOK /\ EveryCodeOfFileExists
        /\ \A r \in Requests : Batches(r) /\ Exact(r)

-----------------------------------------------------------------------------
(* Rows and candidates. *)

Less == {p \in Nat \X Nat : p[1] < p[2]}

\* A set of natural numbers has a least element, and Min finds it.
LEMMA MinIsLeast ==
    ASSUME NEW S \in SUBSET Nat, S # {}
    PROVE  Min(S) \in S /\ \A y \in S : Min(S) <= y
<1>1. OpToRel(<, Nat) = Less  BY Zenon DEF OpToRel, Less
<1>2. IsWellFoundedOn(Less, Nat)  BY <1>1, NatLessThanWellFounded, Zenon
<1>3. PICK x \in S : \A y \in S : ~ (<<y, x>> \in Less)  BY <1>2, WFMin, Zenon
<1>4. \A y \in S : y < x => <<y, x>> \in Less  BY DEF Less
<1>5. \A y \in S : ~(y < x)  BY <1>3, <1>4
<1>6. \A y \in S : x <= y  BY <1>5
<1> QED  BY <1>6 DEF Min

Sheet == Seq(Spellings \cup {Blank})

\* A file has finitely many rows.
LEMMA RowsFinite ==
    ASSUME NEW f \in Sheet, NEW S \in SUBSET (DOMAIN f)
    PROVE  IsFiniteSet(S) /\ Cardinality(S) \in Nat /\ S \in SUBSET Nat
<1>1. DOMAIN f = 1..Len(f) /\ Len(f) \in Nat  BY DEF Sheet
<1>2. IsFiniteSet(1..Len(f))  BY <1>1, FS_Interval
<1>3. IsFiniteSet(S)  BY <1>1, <1>2, FS_Subset
<1>4. Cardinality(S) \in Nat  BY <1>3, FS_CardinalityType
<1> QED  BY <1>1, <1>3, <1>4

\* Every code of a file has a candidate, its first row.
LEMMA CandidatesCover ==
    ASSUME NEW f \in Sheet
    PROVE  /\ Candidates(f) \subseteq NonblankRows(f)
           /\ Cardinality(Candidates(f)) <= Cardinality(NonblankRows(f))
           /\ \A i \in NonblankRows(f) : \E j \in Candidates(f) : Normal[f[j]] = Normal[f[i]]
<1>1. Candidates(f) \subseteq NonblankRows(f)  BY DEF Candidates
<1>2. NonblankRows(f) \in SUBSET (DOMAIN f)  BY DEF NonblankRows
<1>3. Cardinality(Candidates(f)) <= Cardinality(NonblankRows(f))
  BY <1>1, <1>2, RowsFinite, FS_Subset
<1>4. ASSUME NEW i \in NonblankRows(f)
      PROVE  \E j \in Candidates(f) : Normal[f[j]] = Normal[f[i]]
  <2> DEFINE S == {j \in NonblankRows(f) : Normal[f[j]] = Normal[f[i]]}
  <2>1. S \in SUBSET (DOMAIN f) /\ S # {}  BY <1>2
  <2>2. S \in SUBSET Nat  BY <2>1, RowsFinite
  <2>3. PICK m : m = Min(S)  OBVIOUS
  <2>4. m \in S /\ \A y \in S : m <= y  BY <2>1, <2>2, <2>3, MinIsLeast
  <2>5. m \in Candidates(f)  BY <2>4 DEF Candidates
  <2> QED  BY <2>4, <2>5
<1> QED  BY <1>1, <1>3, <1>4

\* The candidate in turn is a row of the file, with a valid code.
LEMMA CandidateType ==
    ASSUME TypeOK, NEW r \in Requests, Batches(r), pc[r] \in Working, todo[r] # {}
    PROVE  /\ Min(todo[r]) \in todo[r] /\ Min(todo[r]) \in NonblankRows(file[r])
           /\ Candidate(r) = Normal[file[r][Min(todo[r])]] /\ Candidate(r) \in Codes
<1>1. todo[r] \in SUBSET Nat /\ file[r] \in Sheet  BY DEF TypeOK, Sheet
<1>2. Min(todo[r]) \in todo[r]  BY <1>1, MinIsLeast
<1>3. Min(todo[r]) \in NonblankRows(file[r])  BY <1>2 DEF Batches, Covered
<1>4. \A i \in NonblankRows(file[r]) : Normal[file[r][i]] \in Codes
  <2>1. \A i \in NonblankRows(file[r]) : file[r][i] \in Spellings  BY <1>1 DEF NonblankRows, Sheet
  <2>2. \A i \in NonblankRows(file[r]) : Normal[file[r][i]] # Invalid
    BY DEF Batches, Covered, RowErrors
  <2> QED  BY <2>1, <2>2, NormalAssumption
<1> QED  BY <1>2, <1>3, <1>4 DEF Candidate

\* One candidate less.
LEMMA CandidateSettled ==
    ASSUME TypeOK, NEW r \in Requests, Batches(r), pc[r] \in Working, todo[r] # {}
    PROVE  /\ Cardinality(todo[r]) \in Nat /\ Cardinality(todo[r] \ {Min(todo[r])}) \in Nat
           /\ Cardinality(todo[r]) = Cardinality(todo[r] \ {Min(todo[r])}) + 1
<1>1. file[r] \in Sheet /\ todo[r] \in SUBSET (DOMAIN file[r])  BY DEF TypeOK, Sheet
<1>2. IsFiniteSet(todo[r]) /\ Cardinality(todo[r]) \in Nat  BY <1>1, RowsFinite
<1>3. Min(todo[r]) \in todo[r]  BY CandidateType
<1>4. IsFiniteSet(todo[r] \ {Min(todo[r])})  BY <1>2, FS_Subset
<1>5. Cardinality(todo[r] \ {Min(todo[r])}) \in Nat  BY <1>4, FS_CardinalityType
<1>6. Cardinality((todo[r] \ {Min(todo[r])}) \cup {Min(todo[r])}) = Cardinality(todo[r] \ {Min(todo[r])}) + 1
  BY <1>4, FS_AddElement
<1>7. (todo[r] \ {Min(todo[r])}) \cup {Min(todo[r])} = todo[r]  BY <1>3
<1> QED  BY <1>2, <1>5, <1>6, <1>7

-----------------------------------------------------------------------------
(* The steps of one request. *)

Acts(r) ==
    ReceiveImport(r) \/ ReceiveCreate(r) \/ Step(r) \/ CommitUnacknowledged(r) \/ Interrupted(r)

\* A step of r leaves what concerns another request alone.
LEMMA Frame ==
    ASSUME TypeOK, NEW r \in Requests, Acts(r), NEW s \in Requests, s # r
    PROVE  /\ pc'[s] = pc[s] /\ file'[s] = file[s] /\ todo'[s] = todo[s] /\ held'[s] = held[s]
           /\ tries'[s] = tries[s] /\ skipped'[s] = skipped[s]
           /\ rows \subseteq rows' /\ Created(s)' = Created(s)
           /\ \A e : e.req = s => (e \in audit' <=> e \in audit)
<1>1. /\ pc'[s] = pc[s] /\ file'[s] = file[s] /\ todo'[s] = todo[s] /\ held'[s] = held[s]
      /\ tries'[s] = tries[s] /\ skipped'[s] = skipped[s]
  BY DEF Acts, Step, ReceiveImport, ReceiveCreate, RejectWorkbook, ValidateWorkbook, BeginAttempt,
     TokensExhausted, InsertCode, InsertToken, Commit, CommitUnacknowledged, Committed, Interrupted,
     DeadlockDetected, AuditFailure, Goto, Rollback, NextCandidate, TypeOK
<1>2. /\ rows' = rows \/ rows' = rows \cup {[code |-> x.code, token |-> x.token, req |-> r] : x \in held[r]}
      /\ audit' = audit \/ audit' = audit \cup {Outcome(r, "success")}
         \/ audit' = audit \cup {Outcome(r, "failure")}
  BY DEF Acts, Step, ReceiveImport, ReceiveCreate, RejectWorkbook, ValidateWorkbook, BeginAttempt,
     TokensExhausted, InsertCode, InsertToken, Commit, CommitUnacknowledged, Committed, Interrupted,
     DeadlockDetected, AuditFailure
<1>3. rows \subseteq rows' /\ Created(s)' = Created(s)  BY <1>2 DEF Created
<1>4. \A e : e.req = s => (e \in audit' <=> e \in audit)  BY <1>2 DEF Outcome
<1> QED  BY <1>1, <1>3, <1>4

\* Every step keeps the types.
LEMMA TypeNext ==
    ASSUME IInv, NEW r \in Requests, Acts(r)
    PROVE  TypeOK'
<1>0. TypeOK /\ Batches(r)  BY DEF IInv
<1>1. CASE ReceiveImport(r)
  <2>1. \A f \in BoundedSeq(Spellings \cup {Blank}, MaxLines) : f \in Seq(Spellings \cup {Blank})
    BY BoundsAssumption DEF BoundedSeq, SeqOf
  <2>2. todo[r] = {}  BY <1>0, <1>1 DEF ReceiveImport, Batches, NothingYet
  <2>3. file' \in [Requests -> Seq(Spellings \cup {Blank})]
    BY <1>0, <1>1, <2>1 DEF ReceiveImport, TypeOK
  <2>4. \A s \in Requests : todo'[s] \subseteq DOMAIN file'[s]
    BY <1>0, <1>1, <2>2 DEF ReceiveImport, TypeOK
  <2> QED  BY <1>0, <1>1, <2>3, <2>4 DEF ReceiveImport, TypeOK, Goto, PCs
<1>2. CASE ReceiveCreate(r)
  <2>1. PICK x \in Spellings :
           /\ file' = [file EXCEPT ![r] = <<x>>]
           /\ todo' = todo \/ todo' = [todo EXCEPT ![r] = {1}]
           /\ pc' \in [Requests -> PCs]
    BY <1>0, <1>2 DEF ReceiveCreate, TypeOK, Goto, PCs, Answered
  <2>2. todo[r] = {}  BY <1>0, <1>2 DEF ReceiveCreate, Batches, NothingYet
  <2>3. <<x>> \in Seq(Spellings \cup {Blank}) /\ DOMAIN <<x>> = {1}  OBVIOUS
  <2>4. file' \in [Requests -> Seq(Spellings \cup {Blank})]  BY <1>0, <2>1, <2>3 DEF TypeOK
  <2>a. {1} \in SUBSET Nat  OBVIOUS
  <2>5. todo' \in [Requests -> SUBSET Nat] /\ todo'[r] \subseteq {1}
    BY <1>0, <2>1, <2>2, <2>a DEF TypeOK
  <2>6. DOMAIN file'[r] = {1}  BY <1>0, <2>1, <2>3 DEF TypeOK
  <2>7. \A s \in Requests : s # r => todo'[s] = todo[s] /\ file'[s] = file[s]
    BY <1>0, <2>1 DEF TypeOK
  <2>8. \A s \in Requests : todo'[s] \subseteq DOMAIN file'[s]
    BY <1>0, <2>5, <2>6, <2>7 DEF TypeOK
  <2> QED  BY <1>0, <1>2, <2>1, <2>4, <2>5, <2>8 DEF ReceiveCreate, TypeOK
<1>3. CASE RejectWorkbook(r)
  BY <1>0, <1>3 DEF TypeOK, PCs, Answered, RejectWorkbook, Goto
<1>4. CASE ValidateWorkbook(r)
  <2>1. file[r] \in Sheet  BY <1>0 DEF TypeOK, Sheet
  <2>2. /\ Candidates(file[r]) \in SUBSET (DOMAIN file[r])
        /\ NonblankRows(file[r]) \in SUBSET (DOMAIN file[r])
    BY DEF Candidates, NonblankRows
  <2>3. /\ Candidates(file[r]) \in SUBSET Nat /\ Cardinality(Candidates(file[r])) \in Nat
        /\ Cardinality(NonblankRows(file[r])) \in Nat
    BY <2>1, <2>2, RowsFinite
  <2>4. Cardinality(NonblankRows(file[r])) - Cardinality(Candidates(file[r])) \in Nat
    BY <2>1, <2>3, CandidatesCover
  <2>5. /\ todo' \in [Requests -> SUBSET Nat] /\ skipped' \in [Requests -> Nat]
        /\ pc' \in [Requests -> PCs]
    BY <1>0, <1>4, <2>3, <2>4 DEF ValidateWorkbook, TypeOK, Goto, PCs
  <2>6. \A s \in Requests : todo'[s] \subseteq DOMAIN file[s]
    BY <1>0, <1>4, <2>2 DEF ValidateWorkbook, TypeOK
  <2> QED  BY <1>0, <1>4, <2>5, <2>6 DEF ValidateWorkbook, TypeOK
<1>5. CASE BeginAttempt(r)
  BY <1>0, <1>5 DEF TypeOK, PCs, Answered, BeginAttempt, Goto
<1>6. CASE TokensExhausted(r)
  BY <1>0, <1>6 DEF TypeOK, PCs, Answered, TokensExhausted, Rollback, Goto
<1>7. CASE InsertCode(r)
  <2>1. /\ todo[r] # {} /\ tries[r] > 0 /\ pc[r] \in Working
    BY <1>0, <1>7 DEF Batches, Attempting, Working, InsertCode
  <2>2. /\ Min(todo[r]) \in todo[r] /\ Min(todo[r]) \in NonblankRows(file[r])
        /\ Candidate(r) = Normal[file[r][Min(todo[r])]] /\ Candidate(r) \in Codes
    BY <1>0, <2>1, CandidateType
  <2>a. /\ todo' = todo \/ todo' = [todo EXCEPT ![r] = todo[r] \ {Min(todo[r])}]
        /\ tries' = tries \/ tries' = [tries EXCEPT ![r] = RetryLimit] \/ tries' = [tries EXCEPT ![r] = tries[r] - 1]
        /\ skipped' = skipped \/ skipped' = [skipped EXCEPT ![r] = skipped[r] + 1]
        /\ \E p \in PCs : pc' = [pc EXCEPT ![r] = p]
    BY <1>7, Zenon DEF InsertCode, NextCandidate, Goto, PCs, Answered
  <2>b. todo[r] \ {Min(todo[r])} \in SUBSET Nat /\ tries[r] - 1 \in 0..RetryLimit /\ RetryLimit \in 0..RetryLimit
    BY <1>0, <2>1, BoundsAssumption DEF TypeOK
  <2>c. PICK S \in SUBSET Nat : S = todo[r] \ {Min(todo[r])}  BY <2>b
  <2>d. todo' = todo \/ todo' = [todo EXCEPT ![r] = S]  BY <2>a, <2>c
  <2>e. S \subseteq todo[r]  BY <2>c
  <2>f. todo' \in [Requests -> SUBSET Nat]  BY <1>0, <2>d DEF TypeOK
  <2>g. \A s \in Requests : todo'[s] \subseteq todo[s]  BY <1>0, <2>d, <2>e DEF TypeOK
  <2>3. todo' \in [Requests -> SUBSET Nat] /\ \A s \in Requests : todo'[s] \subseteq todo[s]
    BY <2>f, <2>g
  <2>4. tries' \in [Requests -> 0..RetryLimit]
    BY <1>0, <2>a, <2>b DEF TypeOK
  <2>l. pc' \in [Requests -> PCs] /\ skipped' \in [Requests -> Nat]  BY <1>0, <2>a DEF TypeOK
  <2>m. \A s \in Requests : todo[s] \subseteq DOMAIN file[s]  BY <1>0 DEF TypeOK
  <2>n. \A s \in Requests : todo'[s] \subseteq DOMAIN file[s]  BY <2>g, <2>m, Zenon
  <2>5. /\ pc' \in [Requests -> PCs] /\ skipped' \in [Requests -> Nat]
        /\ \A s \in Requests : todo'[s] \subseteq DOMAIN file[s]
    BY <2>l, <2>n
  <2> QED  BY <1>0, <1>7, <2>3, <2>4, <2>5 DEF InsertCode, TypeOK
<1>8. CASE InsertToken(r)
  <2>1. /\ todo[r] # {} /\ tries[r] > 0 /\ pc[r] \in Working
    BY <1>0, <1>8 DEF Batches, Attempting, Working, InsertToken
  <2>2. /\ Min(todo[r]) \in todo[r] /\ Min(todo[r]) \in NonblankRows(file[r])
        /\ Candidate(r) = Normal[file[r][Min(todo[r])]] /\ Candidate(r) \in Codes
    BY <1>0, <2>1, CandidateType
  <2>a. /\ todo' = todo \/ todo' = [todo EXCEPT ![r] = todo[r] \ {Min(todo[r])}]
        /\ tries' = tries \/ tries' = [tries EXCEPT ![r] = RetryLimit] \/ tries' = [tries EXCEPT ![r] = tries[r] - 1]
        /\ skipped' = skipped \/ skipped' = [skipped EXCEPT ![r] = skipped[r] + 1]
        /\ \E p \in PCs : pc' = [pc EXCEPT ![r] = p]
    BY <1>8, Zenon DEF InsertToken, NextCandidate, Goto, PCs, Answered
  <2>b. todo[r] \ {Min(todo[r])} \in SUBSET Nat /\ tries[r] - 1 \in 0..RetryLimit /\ RetryLimit \in 0..RetryLimit
    BY <1>0, <2>1, BoundsAssumption DEF TypeOK
  <2>c. PICK S \in SUBSET Nat : S = todo[r] \ {Min(todo[r])}  BY <2>b
  <2>d. todo' = todo \/ todo' = [todo EXCEPT ![r] = S]  BY <2>a, <2>c
  <2>e. S \subseteq todo[r]  BY <2>c
  <2>f. todo' \in [Requests -> SUBSET Nat]  BY <1>0, <2>d DEF TypeOK
  <2>g. \A s \in Requests : todo'[s] \subseteq todo[s]  BY <1>0, <2>d, <2>e DEF TypeOK
  <2>3. todo' \in [Requests -> SUBSET Nat] /\ \A s \in Requests : todo'[s] \subseteq todo[s]
    BY <2>f, <2>g
  <2>4. tries' \in [Requests -> 0..RetryLimit]
    BY <1>0, <2>a, <2>b DEF TypeOK
  <2>l. pc' \in [Requests -> PCs] /\ skipped' \in [Requests -> Nat]  BY <1>0, <2>a DEF TypeOK
  <2>m. \A s \in Requests : todo[s] \subseteq DOMAIN file[s]  BY <1>0 DEF TypeOK
  <2>n. \A s \in Requests : todo'[s] \subseteq DOMAIN file[s]  BY <2>g, <2>m, Zenon
  <2>5. /\ pc' \in [Requests -> PCs] /\ skipped' \in [Requests -> Nat]
        /\ \A s \in Requests : todo'[s] \subseteq DOMAIN file[s]
    BY <2>l, <2>n
  <2>6. [code |-> Candidate(r), token |-> token[r]] \in Pair  BY <1>0, <2>2 DEF TypeOK, Pair
  <2>7. held' = held \/ held' = [held EXCEPT ![r] = held[r] \cup {[code |-> Candidate(r), token |-> token[r]]}]
    BY <1>8, Zenon DEF InsertToken
  <2>h. PICK H : H = held[r] \cup {[code |-> Candidate(r), token |-> token[r]]}  OBVIOUS
  <2>i. held[r] \in SUBSET Pair  BY <1>0 DEF TypeOK
  <2>j. H \in SUBSET Pair  BY <2>6, <2>h, <2>i, Zenon
  <2>k. held' = held \/ held' = [held EXCEPT ![r] = H]  BY <2>7, <2>h
  <2>8. held' \in [Requests -> SUBSET Pair]  BY <1>0, <2>j, <2>k DEF TypeOK
  <2> QED  BY <1>0, <1>8, <2>3, <2>4, <2>5, <2>8 DEF InsertToken, TypeOK
<1>9. CASE Commit(r)
  <2>1. /\ held' = [held EXCEPT ![r] = {}] /\ pc' \in [Requests -> PCs]
        /\ rows' = rows \cup {[code |-> x.code, token |-> x.token, req |-> r] : x \in held[r]}
        /\ audit' = audit \cup {Outcome(r, "success")}
    BY <1>0, <1>9 DEF Commit, Committed, Goto, TypeOK, PCs, Answered
  <2>2. Cardinality(held[r]) \in Nat  BY <1>0, FS_CardinalityType DEF Batches
  <2>3. Outcome(r, "success") \in Event  BY <1>0, <2>2 DEF Outcome, Event, TypeOK
  <2>4. rows' \subseteq [code : Codes, token : Tokens, req : Requests]
    BY <1>0, <2>1 DEF TypeOK, Pair
  <2>5. audit' \subseteq Event  BY <1>0, <2>1, <2>3 DEF TypeOK
  <2> QED  BY <1>0, <1>9, <2>1, <2>4, <2>5 DEF TypeOK, Commit
<1>10. CASE CommitUnacknowledged(r)
  <2>1. /\ held' = [held EXCEPT ![r] = {}] /\ pc' \in [Requests -> PCs]
        /\ rows' = rows \cup {[code |-> x.code, token |-> x.token, req |-> r] : x \in held[r]}
        /\ audit' = audit \cup {Outcome(r, "success")}
    BY <1>0, <1>10 DEF CommitUnacknowledged, Committed, Goto, TypeOK, PCs, Answered
  <2>2. Cardinality(held[r]) \in Nat  BY <1>0, FS_CardinalityType DEF Batches
  <2>3. Outcome(r, "success") \in Event  BY <1>0, <2>2 DEF Outcome, Event, TypeOK
  <2>4. rows' \subseteq [code : Codes, token : Tokens, req : Requests]
    BY <1>0, <2>1 DEF TypeOK, Pair
  <2>5. audit' \subseteq Event  BY <1>0, <2>1, <2>3 DEF TypeOK
  <2> QED  BY <1>0, <1>10, <2>1, <2>4, <2>5 DEF TypeOK, CommitUnacknowledged
<1>11. CASE Interrupted(r)
  BY <1>0, <1>11 DEF TypeOK, PCs, Answered, Interrupted, Rollback, Goto
<1>12. CASE DeadlockDetected(r)
  BY <1>0, <1>12 DEF TypeOK, PCs, Answered, DeadlockDetected, Rollback, Goto
<1>13. CASE AuditFailure(r)
  <2>1. Outcome(r, "failure") \in Event  BY DEF Outcome, Event
  <2> QED  BY <1>0, <1>13, <2>1 DEF AuditFailure, TypeOK, Goto, PCs, Answered
<1> QED
  BY <1>1, <1>2, <1>3, <1>4, <1>5, <1>6, <1>7, <1>8, <1>9, <1>10, <1>11, <1>12, <1>13 DEF
     Acts, Step

\* A request that waits for a key has a candidate and attempts left.
LEMMA AttemptNext ==
    ASSUME IInv, NEW r \in Requests, Acts(r)
    PROVE  held'[r] \in SUBSET Pair /\ NothingYet(r)' /\ Attempting(r)'
<1>0. TypeOK /\ Batches(r)  BY DEF IInv
<1>1. CASE ReceiveImport(r)
  BY <1>0, <1>1 DEF TypeOK, Batches, NothingYet, Attempting, Answered, ReceiveImport, Goto
<1>2. CASE ReceiveCreate(r)
  BY <1>0, <1>2 DEF TypeOK, Batches, NothingYet, Attempting, Answered, ReceiveCreate, Goto
<1>3. CASE RejectWorkbook(r)
  BY <1>0, <1>3 DEF TypeOK, Batches, NothingYet, Attempting, Answered, RejectWorkbook, Goto
<1>4. CASE ValidateWorkbook(r)
  BY <1>0, <1>4 DEF TypeOK, Batches, NothingYet, Attempting, Answered, ValidateWorkbook,
     Goto
<1>5. CASE BeginAttempt(r)
  BY <1>0, <1>5 DEF TypeOK, Batches, NothingYet, Attempting, Answered, BeginAttempt, Goto
<1>6. CASE TokensExhausted(r)
  BY <1>0, <1>6 DEF TypeOK, Batches, NothingYet, Attempting, Answered, TokensExhausted,
     Rollback, Goto
<1>7. CASE InsertCode(r)
  BY <1>0, <1>7 DEF TypeOK, Batches, NothingYet, Attempting, Answered, InsertCode, Goto,
     NextCandidate
<1>8. CASE InsertToken(r)
  <2>1. pc'[r] = "attempt"  BY <1>0, <1>8 DEF InsertToken, Goto, NextCandidate, TypeOK
  <2>2. held'[r] \in SUBSET Pair  BY TypeNext DEF TypeOK
  <2> QED  BY <2>1, <2>2 DEF NothingYet, Attempting
<1>9. CASE Commit(r)
  BY <1>0, <1>9 DEF TypeOK, Batches, NothingYet, Attempting, Answered, Commit, Goto,
     Committed
<1>10. CASE CommitUnacknowledged(r)
  BY <1>0, <1>10 DEF TypeOK, Batches, NothingYet, Attempting, Answered,
     CommitUnacknowledged, Goto, Committed
<1>11. CASE Interrupted(r)
  BY <1>0, <1>11 DEF TypeOK, Batches, NothingYet, Attempting, Answered, Interrupted,
     Rollback, Goto
<1>12. CASE DeadlockDetected(r)
  BY <1>0, <1>12 DEF TypeOK, Batches, NothingYet, Attempting, Answered, DeadlockDetected,
     Rollback, Goto
<1>13. CASE AuditFailure(r)
  BY <1>0, <1>13 DEF TypeOK, Batches, NothingYet, Attempting, Answered, AuditFailure, Goto
<1> QED
  BY <1>1, <1>2, <1>3, <1>4, <1>5, <1>6, <1>7, <1>8, <1>9, <1>10, <1>11, <1>12, <1>13 DEF
     Acts, Step

\* Every code of the file stays committed, inserted or a candidate.
LEMMA CoveredNext ==
    ASSUME IInv, NEW r \in Requests, Acts(r)
    PROVE  Covered(r)'
<1>0. TypeOK /\ Batches(r)  BY DEF IInv
<1>1. CASE ReceiveImport(r)
  BY <1>0, <1>1 DEF TypeOK, Batches, Covered, Working, Answered, ReceiveImport, Goto
<1>2. CASE ReceiveCreate(r)
  <2>1. PICK x \in Spellings :
           /\ file' = [file EXCEPT ![r] = <<x>>]
           /\ IF Normal[x] = Invalid
              THEN Goto(r, "failed") /\ UNCHANGED todo
              ELSE Goto(r, "attempt") /\ todo' = [todo EXCEPT ![r] = {1}]
    BY <1>2 DEF ReceiveCreate
  <2>2. file'[r] = <<x>> /\ Blank # x  BY <1>0, <2>1, BlankAssumption DEF TypeOK
  <2>3. NonblankRows(<<x>>) = {1} /\ <<x>>[1] = x  BY <2>2 DEF NonblankRows
  <2>4. CASE Normal[x] = Invalid
    <3>1. pc'[r] = "failed"  BY <1>0, <2>1, <2>4 DEF Goto, TypeOK
    <3> QED  BY <3>1 DEF Covered, Working
  <2>5. CASE Normal[x] # Invalid
    <3>1. todo'[r] = {1}  BY <1>0, <2>1, <2>5 DEF TypeOK
    <3>2. RowErrors(<<x>>) = {}  BY <2>3, <2>5 DEF RowErrors
    <3>3. \A i \in {1} : \E j \in todo'[r] : Normal[<<x>>[j]] = Normal[<<x>>[i]]  BY <3>1
    <3> QED  BY <2>2, <2>3, <3>1, <3>2, <3>3 DEF Covered
  <2> QED  BY <2>4, <2>5
<1>3. CASE RejectWorkbook(r)
  BY <1>0, <1>3 DEF TypeOK, Batches, Covered, Working, Answered, RejectWorkbook, Goto
<1>4. CASE ValidateWorkbook(r)
  <2>1. file[r] \in Sheet  BY <1>0 DEF TypeOK, Sheet
  <2>2. file' = file  BY <1>4 DEF ValidateWorkbook
  <2>3. CASE RowErrors(file[r]) # {}
    <3>1. pc'[r] = "audit"  BY <1>0, <1>4, <2>3 DEF ValidateWorkbook, Goto, TypeOK
    <3> QED  BY <3>1 DEF Covered, Working
  <2>4. CASE RowErrors(file[r]) = {}
    <3>1. todo'[r] = Candidates(file[r])  BY <1>0, <1>4, <2>4 DEF ValidateWorkbook, TypeOK
    <3> QED  BY <2>1, <2>2, <2>4, <3>1, CandidatesCover DEF Covered
  <2> QED  BY <2>3, <2>4
<1>5. CASE BeginAttempt(r)
  BY <1>0, <1>5 DEF TypeOK, Batches, Covered, Working, Answered, BeginAttempt, Goto
<1>6. CASE TokensExhausted(r)
  BY <1>0, <1>6 DEF TypeOK, Batches, Covered, Working, Answered, TokensExhausted, Rollback,
     Goto
<1>7. CASE InsertCode(r)
  <2>1. /\ todo[r] # {} /\ tries[r] > 0 /\ pc[r] \in Working
    BY <1>0, <1>7 DEF Batches, Attempting, Working, InsertCode
  <2>2. /\ Min(todo[r]) \in todo[r] /\ Min(todo[r]) \in NonblankRows(file[r])
        /\ Candidate(r) = Normal[file[r][Min(todo[r])]] /\ Candidate(r) \in Codes
    BY <1>0, <2>1, CandidateType
  <2>3. file' = file /\ rows' = rows /\ held' = held  BY <1>7 DEF InsertCode
  <2>4. CASE todo' = todo
    BY <1>0, <2>1, <2>3, <2>4 DEF Batches, Covered
  <2>5. CASE NextCandidate(r) /\ Candidate(r) \in CodesIn(rows) \cup CodesIn(held[r])
    <3>1. todo'[r] = todo[r] \ {Min(todo[r])}  BY <1>0, <2>5 DEF NextCandidate, TypeOK
    <3>2. /\ RowErrors(file[r]) = {} /\ todo[r] \subseteq NonblankRows(file[r])
          /\ \A i \in NonblankRows(file[r]) :
                \/ Normal[file[r][i]] \in CodesIn(rows) \cup CodesIn(held[r])
                \/ \E j \in todo[r] : Normal[file[r][j]] = Normal[file[r][i]]
      BY <1>0, <2>1 DEF Batches, Covered
    <3>3. ASSUME NEW i \in NonblankRows(file[r])
          PROVE  \/ Normal[file[r][i]] \in CodesIn(rows) \cup CodesIn(held[r])
                 \/ \E j \in todo'[r] : Normal[file[r][j]] = Normal[file[r][i]]
      BY <2>2, <2>5, <3>1, <3>2
    <3> QED  BY <2>3, <3>1, <3>2, <3>3 DEF Covered
  <2> QED  BY <1>7, <2>4, <2>5 DEF InsertCode
<1>8. CASE InsertToken(r)
  <2>1. /\ todo[r] # {} /\ tries[r] > 0 /\ pc[r] \in Working
    BY <1>0, <1>8 DEF Batches, Attempting, Working, InsertToken
  <2>2. /\ Min(todo[r]) \in todo[r] /\ Min(todo[r]) \in NonblankRows(file[r])
        /\ Candidate(r) = Normal[file[r][Min(todo[r])]] /\ Candidate(r) \in Codes
    BY <1>0, <2>1, CandidateType
  <2>3. file' = file /\ rows' = rows  BY <1>8 DEF InsertToken
  <2>4. CASE todo' = todo /\ held' = held
    BY <1>0, <2>1, <2>3, <2>4 DEF Batches, Covered
  <2>5. CASE /\ held' = [held EXCEPT ![r] = @ \cup {[code |-> Candidate(r), token |-> token[r]]}]
             /\ NextCandidate(r)
    <3>1. /\ todo'[r] = todo[r] \ {Min(todo[r])}
          /\ held'[r] = held[r] \cup {[code |-> Candidate(r), token |-> token[r]]}
      BY <1>0, <2>5 DEF NextCandidate, TypeOK
    <3>2. /\ RowErrors(file[r]) = {} /\ todo[r] \subseteq NonblankRows(file[r])
          /\ \A i \in NonblankRows(file[r]) :
                \/ Normal[file[r][i]] \in CodesIn(rows) \cup CodesIn(held[r])
                \/ \E j \in todo[r] : Normal[file[r][j]] = Normal[file[r][i]]
      BY <1>0, <2>1 DEF Batches, Covered
    <3>3. CodesIn(held[r]) \subseteq CodesIn(held'[r]) /\ Candidate(r) \in CodesIn(held'[r])
      BY <3>1 DEF CodesIn
    <3>4. ASSUME NEW i \in NonblankRows(file[r])
          PROVE  \/ Normal[file[r][i]] \in CodesIn(rows) \cup CodesIn(held'[r])
                 \/ \E j \in todo'[r] : Normal[file[r][j]] = Normal[file[r][i]]
      BY <2>2, <3>1, <3>2, <3>3
    <3> QED  BY <2>3, <3>1, <3>2, <3>4 DEF Covered
  <2> QED  BY <1>8, <2>4, <2>5 DEF InsertToken
<1>9. CASE Commit(r)
  BY <1>0, <1>9 DEF TypeOK, Batches, Covered, Working, Answered, Commit, Goto, Committed
<1>10. CASE CommitUnacknowledged(r)
  BY <1>0, <1>10 DEF TypeOK, Batches, Covered, Working, Answered, CommitUnacknowledged,
     Goto, Committed
<1>11. CASE Interrupted(r)
  BY <1>0, <1>11 DEF TypeOK, Batches, Covered, Working, Answered, Interrupted, Rollback,
     Goto
<1>12. CASE DeadlockDetected(r)
  BY <1>0, <1>12 DEF TypeOK, Batches, Covered, Working, Answered, DeadlockDetected,
     Rollback, Goto
<1>13. CASE AuditFailure(r)
  BY <1>0, <1>13 DEF TypeOK, Batches, Covered, Working, Answered, AuditFailure, Goto
<1> QED
  BY <1>1, <1>2, <1>3, <1>4, <1>5, <1>6, <1>7, <1>8, <1>9, <1>10, <1>11, <1>12, <1>13 DEF
     Acts, Step

\* Every row of the file stays skipped, inserted or a candidate, and only one of them.
LEMMA CountedNext ==
    ASSUME IInv, NEW r \in Requests, Acts(r)
    PROVE  IsFiniteSet(held'[r]) /\ Counted(r)'
<1>0. TypeOK /\ Batches(r)  BY DEF IInv
<1>a. IsFiniteSet({})  BY FS_EmptySet
<1>1. CASE ReceiveImport(r)
  BY <1>0, <1>a, <1>1 DEF TypeOK, Batches, Counted, Working, Answered, ReceiveImport, Goto
<1>2. CASE ReceiveCreate(r)
  <2>1. PICK x \in Spellings :
           /\ file' = [file EXCEPT ![r] = <<x>>]
           /\ IF Normal[x] = Invalid
              THEN Goto(r, "failed") /\ UNCHANGED todo
              ELSE Goto(r, "attempt") /\ todo' = [todo EXCEPT ![r] = {1}]
    BY <1>2 DEF ReceiveCreate
  <2>2. file'[r] = <<x>> /\ Blank # x  BY <1>0, <2>1, BlankAssumption DEF TypeOK
  <2>3. NonblankRows(<<x>>) = {1}  BY <2>2 DEF NonblankRows
  <2>4. held'[r] = {} /\ skipped'[r] = 0
    BY <1>0, <1>2 DEF ReceiveCreate, Batches, NothingYet
  <2>5. CASE Normal[x] = Invalid
    <3>1. pc'[r] = "failed"  BY <1>0, <2>1, <2>5 DEF Goto, TypeOK
    <3> QED  BY <1>a, <2>4, <3>1 DEF Counted, Working
  <2>6. CASE Normal[x] # Invalid
    <3>1. todo'[r] = {1}  BY <1>0, <2>1, <2>6 DEF TypeOK
    <3>2. Cardinality({1}) = 1 /\ Cardinality({}) = 0  BY FS_Singleton, FS_EmptySet
    <3> QED  BY <1>a, <2>2, <2>3, <2>4, <3>1, <3>2 DEF Counted
  <2> QED  BY <2>5, <2>6
<1>3. CASE RejectWorkbook(r)
  BY <1>0, <1>a, <1>3 DEF TypeOK, Batches, Counted, Working, Answered, RejectWorkbook, Goto
<1>4. CASE ValidateWorkbook(r)
  <2>1. file[r] \in Sheet  BY <1>0 DEF TypeOK, Sheet
  <2>2. file' = file /\ held'[r] = {}
    BY <1>0, <1>4 DEF ValidateWorkbook, Batches, NothingYet
  <2>3. CASE RowErrors(file[r]) # {}
    <3>1. pc'[r] = "audit"  BY <1>0, <1>4, <2>3 DEF ValidateWorkbook, Goto, TypeOK
    <3> QED  BY <1>a, <2>2, <3>1 DEF Counted, Working
  <2>4. CASE RowErrors(file[r]) = {}
    <3>1. /\ todo'[r] = Candidates(file[r])
          /\ skipped'[r] = Cardinality(NonblankRows(file[r])) - Cardinality(Candidates(file[r]))
      BY <1>0, <1>4, <2>4 DEF ValidateWorkbook, TypeOK
    <3>2. /\ Candidates(file[r]) \in SUBSET (DOMAIN file[r])
          /\ NonblankRows(file[r]) \in SUBSET (DOMAIN file[r])
      BY DEF Candidates, NonblankRows
    <3>3. /\ Cardinality(Candidates(file[r])) \in Nat /\ Cardinality(NonblankRows(file[r])) \in Nat
          /\ Cardinality({}) = 0
      BY <2>1, <3>2, RowsFinite, FS_EmptySet
    <3> QED  BY <1>a, <2>2, <3>1, <3>3 DEF Counted
  <2> QED  BY <2>3, <2>4
<1>5. CASE BeginAttempt(r)
  BY <1>0, <1>a, <1>5 DEF TypeOK, Batches, Counted, Working, Answered, BeginAttempt, Goto
<1>6. CASE TokensExhausted(r)
  BY <1>0, <1>a, <1>6 DEF TypeOK, Batches, Counted, Working, Answered, TokensExhausted,
     Rollback, Goto
<1>7. CASE InsertCode(r)
  <2>1. /\ todo[r] # {} /\ tries[r] > 0 /\ pc[r] \in Working
    BY <1>0, <1>7 DEF Batches, Attempting, Working, InsertCode
  <2>2. /\ Min(todo[r]) \in todo[r] /\ Min(todo[r]) \in NonblankRows(file[r])
        /\ Candidate(r) = Normal[file[r][Min(todo[r])]] /\ Candidate(r) \in Codes
    BY <1>0, <2>1, CandidateType
  <2>3. file' = file /\ held' = held  BY <1>7 DEF InsertCode
  <2>4. IsFiniteSet(held'[r])  BY <1>0, <2>3 DEF Batches
  <2>5. CASE todo' = todo /\ skipped' = skipped
    BY <1>0, <2>1, <2>3, <2>4, <2>5 DEF Batches, Counted
  <2>6. CASE NextCandidate(r) /\ skipped' = [skipped EXCEPT ![r] = @ + 1]
    <3>1. todo'[r] = todo[r] \ {Min(todo[r])} /\ skipped'[r] = skipped[r] + 1
      BY <1>0, <2>6 DEF NextCandidate, TypeOK
    <3>2. /\ Cardinality(held[r]) \in Nat /\ skipped[r] \in Nat
      BY <1>0, FS_CardinalityType DEF TypeOK, Batches
    <3>3. /\ Cardinality(todo[r]) \in Nat /\ Cardinality(todo[r] \ {Min(todo[r])}) \in Nat
          /\ Cardinality(todo[r]) = Cardinality(todo[r] \ {Min(todo[r])}) + 1
      BY <1>0, <2>1, CandidateSettled
    <3>4. skipped[r] + Cardinality(held[r]) + Cardinality(todo[r]) = Cardinality(NonblankRows(file[r]))
      BY <1>0, <2>1 DEF Batches, Counted
    <3> QED  BY <2>3, <2>4, <3>1, <3>2, <3>3, <3>4 DEF Counted
  <2> QED  BY <1>7, <2>5, <2>6 DEF InsertCode
<1>8. CASE InsertToken(r)
  <2>1. /\ todo[r] # {} /\ tries[r] > 0 /\ pc[r] \in Working
    BY <1>0, <1>8 DEF Batches, Attempting, Working, InsertToken
  <2>2. /\ Min(todo[r]) \in todo[r] /\ Min(todo[r]) \in NonblankRows(file[r])
        /\ Candidate(r) = Normal[file[r][Min(todo[r])]] /\ Candidate(r) \in Codes
    BY <1>0, <2>1, CandidateType
  <2>3. file' = file /\ skipped' = skipped  BY <1>8 DEF InsertToken
  <2>4. CASE todo' = todo /\ held' = held
    BY <1>0, <2>1, <2>3, <2>4 DEF Batches, Counted
  <2>5. CASE /\ token[r] \notin TokensIn(rows) \cup TokensIn(held[r])
             /\ held' = [held EXCEPT ![r] = @ \cup {[code |-> Candidate(r), token |-> token[r]]}]
             /\ NextCandidate(r)
    <3>1. PICK p : p = [code |-> Candidate(r), token |-> token[r]]  OBVIOUS
    <3>2. todo'[r] = todo[r] \ {Min(todo[r])} /\ held'[r] = held[r] \cup {p}
      BY <1>0, <2>5, <3>1 DEF NextCandidate, TypeOK
    <3>3. p \notin held[r]  BY <2>5, <3>1 DEF TokensIn
    <3>4. IsFiniteSet(held[r]) /\ Cardinality(held[r]) \in Nat /\ skipped[r] \in Nat
      BY <1>0, FS_CardinalityType DEF TypeOK, Batches
    <3>5. IsFiniteSet(held'[r]) /\ Cardinality(held'[r]) = Cardinality(held[r]) + 1
      BY <3>2, <3>3, <3>4, FS_AddElement
    <3>6. /\ Cardinality(todo[r]) \in Nat /\ Cardinality(todo[r] \ {Min(todo[r])}) \in Nat
          /\ Cardinality(todo[r]) = Cardinality(todo[r] \ {Min(todo[r])}) + 1
      BY <1>0, <2>1, CandidateSettled
    <3>7. skipped[r] + Cardinality(held[r]) + Cardinality(todo[r]) = Cardinality(NonblankRows(file[r]))
      BY <1>0, <2>1 DEF Batches, Counted
    <3> QED  BY <2>3, <3>2, <3>4, <3>5, <3>6, <3>7 DEF Counted
  <2> QED  BY <1>8, <2>4, <2>5 DEF InsertToken
<1>9. CASE Commit(r)
  BY <1>0, <1>a, <1>9 DEF TypeOK, Batches, Counted, Working, Answered, Commit, Goto,
     Committed
<1>10. CASE CommitUnacknowledged(r)
  BY <1>0, <1>a, <1>10 DEF TypeOK, Batches, Counted, Working, Answered,
     CommitUnacknowledged, Goto, Committed
<1>11. CASE Interrupted(r)
  BY <1>0, <1>a, <1>11 DEF TypeOK, Batches, Counted, Working, Answered, Interrupted,
     Rollback, Goto
<1>12. CASE DeadlockDetected(r)
  BY <1>0, <1>a, <1>12 DEF TypeOK, Batches, Counted, Working, Answered, DeadlockDetected,
     Rollback, Goto
<1>13. CASE AuditFailure(r)
  BY <1>0, <1>a, <1>13 DEF TypeOK, Batches, Counted, Working, Answered, AuditFailure, Goto
<1> QED
  BY <1>1, <1>2, <1>3, <1>4, <1>5, <1>6, <1>7, <1>8, <1>9, <1>10, <1>11, <1>12, <1>13 DEF
     Acts, Step

\* A request that acts has not been answered.
LEMMA ActsBeforeAnswer ==
    ASSUME NEW r \in Requests, Acts(r)
    PROVE  pc[r] \notin Answered
<1>1. Deadlocked(r) => pc[r] \in {"code", "token"}  BY DEF Deadlocked, WaitsFor
<1> QED
  BY <1>1 DEF Acts, Step, ReceiveImport, ReceiveCreate, RejectWorkbook, ValidateWorkbook, BeginAttempt,
     TokensExhausted, InsertCode, InsertToken, Commit, CommitUnacknowledged, Committed, Interrupted,
     DeadlockDetected, AuditFailure, Answered

\* A commit is the only step that makes products visible, and with the one of
\* AuditFailure the only one that is audited; both end in an answer.
LEMMA EndOfBatch ==
    ASSUME TypeOK, NEW r \in Requests, Acts(r)
    PROVE  \/ Committed(r) /\ pc'[r] \in Answered /\ file' = file
           \/ rows' = rows /\ audit' = audit \cup {Outcome(r, "failure")} /\ pc'[r] \in Answered
           \/ rows' = rows /\ audit' = audit
BY DEF Acts, Step, ReceiveImport, ReceiveCreate, RejectWorkbook, ValidateWorkbook, BeginAttempt,
   TokensExhausted, InsertCode, InsertToken, Commit, CommitUnacknowledged, Interrupted,
   DeadlockDetected, AuditFailure, Answered, Goto, TypeOK

\* The committed batch is as large as the inserted one.
LEMMA BatchSize ==
    ASSUME NEW r \in Requests, NEW S \in SUBSET Pair, IsFiniteSet(S)
    PROVE  Cardinality({[code |-> x.code, token |-> x.token, req |-> r] : x \in S}) = Cardinality(S)
<1> DEFINE T == {[code |-> x.code, token |-> x.token, req |-> r] : x \in S}
           f == [x \in S |-> [code |-> x.code, token |-> x.token, req |-> r]]
<1>1. \A x, y \in S : f[x] = f[y] => x = y  BY DEF Pair
<1>2. f \in [S -> T] /\ \A t \in T : \E x \in S : f[x] = t  OBVIOUS
<1> HIDE DEF f, T
<1>3. f \in Bijection(S, T)
  <2>a. DOMAIN f = S  BY <1>2
  <2>1. f \in Injection(S, T)  BY <1>1, <1>2, <2>a, Zenon DEF Injection, IsInjective
  <2>2. f \in Surjection(S, T)  BY <1>2, Zenon DEF Surjection
  <2> QED  BY <2>1, <2>2, Zenon DEF Bijection
<1>4. ExistsBijection(S, T)  BY <1>3 DEF ExistsBijection
<1>5. Cardinality(T) = Cardinality(S)  BY <1>4, FS_Bijection
<1> QED  BY <1>5 DEF T

\* What the audit trail says of the request that acts stays exact.
LEMMA ExactNext ==
    ASSUME IInv, NEW r \in Requests, Acts(r)
    PROVE  Unseen(r)' /\ Exact(r)'
<1>0. TypeOK /\ Batches(r)  BY DEF IInv
<1>1. Created(r) = {} /\ \A e \in audit : e.req # r
  BY <1>0, ActsBeforeAnswer DEF Batches, Unseen
<1>2. CASE Committed(r) /\ pc'[r] \in Answered /\ file' = file
  <2>1. PICK o : o = Outcome(r, "success")  OBVIOUS
  <2>2. /\ o.req = r /\ o.result = "success" /\ o.created = Cardinality(held[r])
        /\ o.skipped = skipped[r]
    BY <2>1 DEF Outcome
  <2>3. audit' = audit \cup {o}  BY <1>2, <2>1 DEF Committed
  <2>4. Created(r)' = {[code |-> x.code, token |-> x.token, req |-> r] : x \in held[r]}
    BY <1>1, <1>2 DEF Committed, Created
  <2>5. held[r] \in SUBSET Pair /\ IsFiniteSet(held[r])  BY <1>0 DEF TypeOK, Batches
  <2>6. Cardinality(Created(r)') = Cardinality(held[r])  BY <2>4, <2>5, BatchSize
  <2>7. /\ todo[r] = {}
        /\ skipped[r] + Cardinality(held[r]) + Cardinality(todo[r]) = Cardinality(NonblankRows(file[r]))
    BY <1>0, <1>2 DEF Committed, Batches, Counted, Working
  <2>8. Cardinality(held[r]) \in Nat /\ skipped[r] \in Nat /\ Cardinality({}) = 0
    BY <1>0, <2>5, FS_CardinalityType, FS_EmptySet DEF TypeOK
  <2>9. Cardinality(held[r]) + skipped[r] = Cardinality(NonblankRows(file[r]))  BY <2>7, <2>8
  <2>10. \A e \in audit' : e.req = r => e = o  BY <1>1, <2>3
  <2>11. Exact(r)'  BY <1>2, <2>2, <2>3, <2>6, <2>9, <2>10 DEF Exact
  <2> QED  BY <1>2, <2>11 DEF Unseen
<1>3. CASE rows' = rows /\ audit' = audit \cup {Outcome(r, "failure")} /\ pc'[r] \in Answered
  <2>1. PICK o : o = Outcome(r, "failure")  OBVIOUS
  <2>2. o.result = "failure" /\ audit' = audit \cup {o}  BY <1>3, <2>1 DEF Outcome
  <2>3. \A e \in audit' : e.req = r => e = o  BY <1>1, <2>2
  <2>4. Created(r)' = {}  BY <1>1, <1>3 DEF Created
  <2> QED  BY <1>3, <2>2, <2>3, <2>4 DEF Unseen, Exact
<1>4. CASE rows' = rows /\ audit' = audit
  <2>1. Created(r)' = {} /\ \A e \in audit' : e.req # r  BY <1>1, <1>4 DEF Created
  <2> QED  BY <2>1 DEF Unseen, Exact
<1> QED  BY <1>0, <1>2, <1>3, <1>4, EndOfBatch

\* The other requests are not disturbed: committed products stay, and nobody
\* else writes their audit events.
LEMMA OthersNext ==
    ASSUME IInv, NEW r \in Requests, Acts(r), NEW s \in Requests, s # r
    PROVE  Batches(s)' /\ Exact(s)'
<1>0. TypeOK /\ Batches(s) /\ Exact(s)  BY DEF IInv
<1>1. /\ pc'[s] = pc[s] /\ file'[s] = file[s] /\ todo'[s] = todo[s] /\ held'[s] = held[s]
      /\ tries'[s] = tries[s] /\ skipped'[s] = skipped[s]
      /\ rows \subseteq rows' /\ Created(s)' = Created(s)
      /\ \A e : e.req = s => (e \in audit' <=> e \in audit)
  BY <1>0, Frame
<1>2. CodesIn(rows) \subseteq CodesIn(rows')  BY <1>1 DEF CodesIn
<1>3. IsFiniteSet(held'[s])  BY <1>0, <1>1 DEF Batches
<1>4. NothingYet(s)' /\ Attempting(s)' /\ Counted(s)'
  BY <1>0, <1>1 DEF Batches, NothingYet, Attempting, Counted
<1>5. Covered(s)'  BY <1>0, <1>1, <1>2 DEF Batches, Covered
<1>6. Unseen(s)'  BY <1>0, <1>1 DEF Batches, Unseen
<1>7. Exact(s)'  BY <1>0, <1>1 DEF Exact
<1> QED  BY <1>3, <1>4, <1>5, <1>6, <1>7 DEF Batches

\* An import answered with success has every code of its file committed.
LEMMA ExistsNext ==
    ASSUME IInv, NEW r \in Requests, Acts(r)
    PROVE  EveryCodeOfFileExists'
<1> SUFFICES ASSUME NEW s \in Requests, pc'[s] = "done"
             PROVE  CodesOfFile(s)' \subseteq CodesIn(rows')
  BY DEF EveryCodeOfFileExists
<1>0. TypeOK /\ Batches(r) /\ EveryCodeOfFileExists  BY DEF IInv
<1>1. CASE s # r
  <2>1. pc[s] = "done" /\ file'[s] = file[s] /\ rows \subseteq rows'  BY <1>0, <1>1, Frame
  <2>2. CodesIn(rows) \subseteq CodesIn(rows')  BY <2>1 DEF CodesIn
  <2>3. CodesOfFile(s)' = CodesOfFile(s)  BY <2>1 DEF CodesOfFile
  <2> QED  BY <1>0, <2>1, <2>2, <2>3 DEF EveryCodeOfFileExists
<1>2. CASE s = r
  <2>1. Committed(r) /\ file' = file
    BY <1>0, <1>2 DEF Acts, Step, ReceiveImport, ReceiveCreate, RejectWorkbook, ValidateWorkbook,
       BeginAttempt, TokensExhausted, InsertCode, InsertToken, Commit, CommitUnacknowledged,
       Interrupted, DeadlockDetected, AuditFailure, Goto, Rollback, NextCandidate, TypeOK
  <2>2. \A i \in NonblankRows(file[r]) :
            Normal[file[r][i]] \in CodesIn(rows) \cup CodesIn(held[r])
    BY <1>0, <2>1 DEF Committed, Batches, Covered, Working
  <2>3. CodesIn(rows) \subseteq CodesIn(rows')  BY <2>1 DEF Committed, CodesIn
  <2>4. CodesIn(held[r]) \subseteq CodesIn(rows')
    <3>1. ASSUME NEW x \in held[r] PROVE x.code \in CodesIn(rows')
      <4>1. PICK y : y = [code |-> x.code, token |-> x.token, req |-> r]  OBVIOUS
      <4>2. y \in rows' /\ y.code = x.code  BY <2>1, <4>1 DEF Committed
      <4> QED  BY <4>2 DEF CodesIn
    <3> QED  BY <3>1 DEF CodesIn
  <2>5. CodesOfFile(r)' = CodesOfFile(r)  BY <2>1 DEF CodesOfFile
  <2> QED  BY <1>2, <2>2, <2>3, <2>4, <2>5 DEF CodesOfFile
<1> QED  BY <1>1, <1>2

\* The invariant holds of the initial state.
LEMMA IInvInit == Init => IInv
<1> SUFFICES ASSUME Init PROVE IInv  OBVIOUS
<1>1. TypeOK
  <2>1. (CHOOSE t \in Tokens : TRUE) \in Tokens  BY TokensAssumption
  <2>2. << >> \in Seq(Spellings \cup {Blank})  OBVIOUS
  <2>3. {} \in SUBSET Nat /\ {} \in SUBSET Pair  OBVIOUS
  <2>4. RetryLimit \in 0..RetryLimit  BY BoundsAssumption
  <2>5. rows = {} /\ audit = {} /\ \A r \in Requests : todo[r] = {}  BY DEF Init
  <2>6. todo \in [Requests -> SUBSET Nat] /\ held \in [Requests -> SUBSET Pair]
    BY <2>3 DEF Init
  <2>7. token \in [Requests -> Tokens]  BY <2>1 DEF Init
  <2> QED  BY <2>2, <2>4, <2>5, <2>6, <2>7 DEF Init, TypeOK, PCs
<1>2. EveryCodeOfFileExists  BY DEF Init, EveryCodeOfFileExists
<1>3. ASSUME NEW r \in Requests PROVE Batches(r)
  BY FS_EmptySet DEF Init, Batches, NothingYet, Attempting, Covered, Counted, Unseen, Created, Working
<1>4. ASSUME NEW r \in Requests PROVE Exact(r)  BY DEF Init, Exact, Created
<1> QED  BY <1>1, <1>2, <1>3, <1>4 DEF IInv

\* Every step preserves the invariant.
LEMMA IInvNext == IInv /\ [Next]_vars => IInv'
<1> SUFFICES ASSUME IInv, [Next]_vars PROVE IInv'  OBVIOUS
<1>1. ASSUME NEW r \in Requests, Acts(r) PROVE IInv'
  <2>1. TypeOK' /\ EveryCodeOfFileExists'  BY <1>1, TypeNext, ExistsNext
  <2>2. NothingYet(r)' /\ Attempting(r)'  BY <1>1, AttemptNext
  <2>3. Covered(r)'  BY <1>1, CoveredNext
  <2>4. IsFiniteSet(held'[r]) /\ Counted(r)'  BY <1>1, CountedNext
  <2>5. Unseen(r)' /\ Exact(r)'  BY <1>1, ExactNext
  <2>6. Batches(r)' /\ Exact(r)'  BY <2>2, <2>3, <2>4, <2>5 DEF Batches
  <2>7. \A s \in Requests : s # r => Batches(s)' /\ Exact(s)'  BY <1>1, OthersNext
  <2> QED  BY <2>1, <2>6, <2>7 DEF IInv
<1>2. CASE UNCHANGED vars
  <2>1. /\ rows' = rows /\ audit' = audit /\ pc' = pc /\ kind' = kind /\ file' = file /\ todo' = todo
        /\ held' = held /\ token' = token /\ tries' = tries /\ skipped' = skipped
    BY <1>2 DEF vars
  <2>2. TypeOK'  BY <2>1 DEF IInv, TypeOK
  <2>3. EveryCodeOfFileExists'  BY <2>1 DEF IInv, EveryCodeOfFileExists, CodesOfFile
  <2>4. ASSUME NEW s \in Requests PROVE Batches(s)' /\ Exact(s)'
    <3>1. Batches(s) /\ Exact(s)  BY DEF IInv
    <3>2. Created(s)' = Created(s)  BY <2>1 DEF Created
    <3>3. Batches(s)'
      BY <2>1, <3>1, <3>2 DEF Batches, NothingYet, Attempting, Covered, Counted, Unseen
    <3>4. Exact(s)'  BY <2>1, <3>1, <3>2 DEF Exact
    <3> QED  BY <3>3, <3>4
  <2> QED  BY <2>2, <2>3, <2>4 DEF IInv
<1> QED  BY <1>1, <1>2 DEF Next, Acts, Quiet

-----------------------------------------------------------------------------
(* The theorems. *)

\* Of every import and creation, in any interleaving, with any waits,
\* deadlocks and faults: no row of a file is lost or counted twice, and nothing
\* of a batch is visible before its commit.
THEOREM Invariance == Spec => []IInv
BY IInvInit, IInvNext, PTL DEF Spec

\* Every variable keeps its type; the attempts of a candidate never exceed
\* TOKEN_RETRY_LIMIT.
THEOREM TypeCorrect == Spec => []TypeOK
<1>1. IInv => TypeOK  BY DEF IInv
<1> QED  BY <1>1, Invariance, PTL

\* When an import is answered with success, every code of its file is
\* committed: import_products skips a row only if its product exists.
THEOREM CodesExist == Spec => []EveryCodeOfFileExists
<1>1. IInv => EveryCodeOfFileExists  BY DEF IInv
<1> QED  BY <1>1, Invariance, PTL

\* Batches are atomic, and their audit event counts exactly the products that
\* the commit made visible and the rows that import_products skipped.
THEOREM BatchAuditExact == Spec => []AuditCountsBatch
<1>1. IInv => AuditCountsBatch  BY DEF IInv, Exact, AuditCountsBatch
<1> QED  BY <1>1, Invariance, PTL

=============================================================================
