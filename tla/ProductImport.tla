---------------------------- MODULE ProductImport ----------------------------
(***************************************************************************)
(* Product creation, one at a time and by Excel import: concurrent         *)
(* requests that insert into "products", whose code and public token are   *)
(* unique.  An import validates the whole file first and then inserts its  *)
(* candidates in file order in one transaction, a savepoint per attempt.   *)
(* PostgreSQL is external: an INSERT whose key another open transaction    *)
(* has inserted waits for it, and a cycle of waits aborts one of them.     *)
(***************************************************************************)
EXTENDS Naturals, SequencesExt

CONSTANTS
    Requests,      \* one-shot HTTP requests, each with its request_id
    Codes,         \* canonical product codes
    Tokens,        \* values generate_public_token can return
    Spellings,     \* what the code cell of a row that is not blank can hold
    Normal,        \* normalize_product_code: a code, or Invalid where it raises
    Invalid,
    Blank,         \* a row without a nonblank cell
    MaxLines,      \* bound: rows of a worksheet
    RetryLimit,    \* TOKEN_RETRY_LIMIT
    Kinds,         \* endpoints in use, a subset of {"import", "create"}
    Faults         \* a subset of {"db", "audit"}

ASSUME NormalAssumption == Normal \in [Spellings -> Codes \cup {Invalid}]
ASSUME BlankAssumption  == Blank \notin Spellings /\ Invalid \notin Codes
ASSUME TokensAssumption == Tokens # {}
ASSUME BoundsAssumption == MaxLines \in Nat /\ RetryLimit \in Nat \ {0}

VARIABLES
    rows,          \* committed rows of "products", with the request that inserted them
    audit,         \* "audit_events" about imports and creations
    pc, kind,
    file,          \* the worksheet rows; for a creation the one code typed in
    todo,          \* candidates not inserted yet: rows of the file, in its order
    held,          \* rows inserted by the open transaction
    token,         \* the token of the attempt in progress
    tries,         \* attempts left for the candidate
    skipped        \* duplicate_count

vars == <<rows, audit, pc, kind, file, todo, held, token, tries, skipped>>

Pair     == [code : Codes, token : Tokens]
Answered == {"done", "failed", "error500"}
PCs      == {"idle", "received", "attempt", "code", "token", "audit"} \cup Answered
Event    == [req : Requests, result : {"success", "failure"}, created : Nat, skipped : Nat]

TypeOK ==
    /\ rows  \subseteq [code : Codes, token : Tokens, req : Requests]
    /\ audit \subseteq Event
    /\ pc    \in [Requests -> PCs]
    /\ kind  \in [Requests -> {"none", "import", "create"}]
    /\ file  \in [Requests -> Seq(Spellings \cup {Blank})]
    /\ todo  \in [Requests -> SUBSET Nat]
    /\ \A r \in Requests : todo[r] \subseteq DOMAIN file[r]
    /\ held  \in [Requests -> SUBSET Pair]
    /\ token \in [Requests -> Tokens]
    /\ tries \in [Requests -> 0..RetryLimit]
    /\ skipped \in [Requests -> Nat]

Init ==
    /\ rows = {} /\ audit = {}
    /\ pc   = [r \in Requests |-> "idle"]
    /\ kind = [r \in Requests |-> "none"]
    /\ file = [r \in Requests |-> << >>]
    /\ todo = [r \in Requests |-> {}]
    /\ held = [r \in Requests |-> {}]
    /\ token = [r \in Requests |-> CHOOSE t \in Tokens : TRUE]
    /\ tries = [r \in Requests |-> RetryLimit]
    /\ skipped = [r \in Requests |-> 0]

-----------------------------------------------------------------------------
(* Phase one: validate_workbook, a pure function of the file. *)

NonblankRows(f) == {i \in DOMAIN f : f[i] # Blank}

RowErrors(f) == {i \in NonblankRows(f) : Normal[f[i]] = Invalid}

\* The first occurrence of every canonical code.
Candidates(f) ==
    {i \in NonblankRows(f) : \A j \in NonblankRows(f) : Normal[f[j]] = Normal[f[i]] => i <= j}

\* The code whose insertion is tried next, or in progress.
Candidate(r) == Normal[file[r][Min(todo[r])]]

-----------------------------------------------------------------------------
(* The unique indexes, checked in the order of the migration: code, then token. *)

Goto(r, s) == pc' = [pc EXCEPT ![r] = s]

CodesIn(pairs)  == {x.code : x \in pairs}
TokensIn(pairs) == {x.token : x \in pairs}

HoldsCode(r, c)  == c \in CodesIn(held[r]) \/ (pc[r] = "token" /\ Candidate(r) = c)
HoldsToken(r, t) == t \in TokensIn(held[r])

\* The open transaction that the statement of r waits for.
WaitsFor(r, q) ==
    /\ q # r
    /\ \/ pc[r] = "code"  /\ HoldsCode(q, Candidate(r))
       \/ pc[r] = "token" /\ HoldsToken(q, token[r])

Waiting(r) == \E q \in Requests : WaitsFor(r, q)

\* r is one of a cycle of transactions that wait for each other.
Deadlocked(r) ==
    \E S \in SUBSET Requests :
        /\ r \in S
        /\ \A q \in S : /\ \E p \in S : WaitsFor(q, p)
                        /\ \E p \in S : WaitsFor(p, q)

\* Faulty variant: rolling back forgets the rows but not their keys.
RollbackKeepsKeys(r, s) == Goto(r, s) /\ UNCHANGED held

\* The transaction is rolled back and its keys are free again.
Rollback(r, s) == Goto(r, s) /\ held' = [held EXCEPT ![r] = {}]

\* The candidate is settled; the next one has all its attempts.
NextCandidate(r) ==
    /\ todo'  = [todo EXCEPT ![r] = @ \ {Min(@)}]
    /\ tries' = [tries EXCEPT ![r] = RetryLimit]
    /\ Goto(r, "attempt")

-----------------------------------------------------------------------------
(* Arrival and phase one. *)

ReceiveImport(r) ==
    /\ pc[r] = "idle" /\ "import" \in Kinds
    /\ \E f \in BoundedSeq(Spellings \cup {Blank}, MaxLines) : file' = [file EXCEPT ![r] = f]
    /\ kind' = [kind EXCEPT ![r] = "import"]
    /\ Goto(r, "received")
    /\ UNCHANGED <<rows, audit, todo, held, token, tries, skipped>>

\* create_product_endpoint; a code that does not normalise is answered at once.
ReceiveCreate(r) ==
    /\ pc[r] = "idle" /\ "create" \in Kinds
    /\ kind' = [kind EXCEPT ![r] = "create"]
    /\ \E x \in Spellings :
           /\ file' = [file EXCEPT ![r] = <<x>>]
           /\ IF Normal[x] = Invalid
              THEN Goto(r, "failed") /\ UNCHANGED todo
              ELSE Goto(r, "attempt") /\ todo' = [todo EXCEPT ![r] = {1}]
    /\ UNCHANGED <<rows, audit, held, token, tries, skipped>>

\* Size, extension, container, parser and row limits, columns: XlsxRejected.
RejectWorkbook(r) ==
    /\ pc[r] = "received"
    /\ Goto(r, "audit")
    /\ UNCHANGED <<rows, audit, kind, file, todo, held, token, tries, skipped>>

ValidateWorkbook(r) ==
    /\ pc[r] = "received"
    /\ IF RowErrors(file[r]) # {}
       THEN Goto(r, "audit") /\ UNCHANGED <<todo, skipped>>
       ELSE /\ todo'    = [todo EXCEPT ![r] = Candidates(file[r])]
            /\ skipped' = [skipped EXCEPT ![r] =
                              Cardinality(NonblankRows(file[r])) - Cardinality(Candidates(file[r]))]
            /\ Goto(r, "attempt")
    /\ UNCHANGED <<rows, audit, kind, file, held, token, tries>>

-----------------------------------------------------------------------------
(* create_product_in_transaction, one index at a time. *)

\* Faulty variant: the attempts are not limited.
BeginAttemptUnlimited(r) ==
    /\ pc[r] = "attempt" /\ todo[r] # {}
    /\ \E t \in Tokens : token' = [token EXCEPT ![r] = t]
    /\ Goto(r, "code")
    /\ UNCHANGED <<rows, audit, kind, file, todo, held, tries, skipped>>

BeginAttempt(r) ==
    /\ pc[r] = "attempt" /\ todo[r] # {} /\ tries[r] > 0
    /\ \E t \in Tokens : token' = [token EXCEPT ![r] = t]
    /\ Goto(r, "code")
    /\ UNCHANGED <<rows, audit, kind, file, todo, held, tries, skipped>>

\* Faulty variant: the loop over the candidates goes on after the last attempt.
SkipExhausted(r) ==
    /\ pc[r] = "attempt" /\ todo[r] # {} /\ tries[r] = 0
    /\ NextCandidate(r)
    /\ UNCHANGED <<rows, audit, kind, file, held, token, skipped>>

\* token_generation_failed aborts the whole batch.
TokensExhausted(r) ==
    /\ pc[r] = "attempt" /\ todo[r] # {} /\ tries[r] = 0
    /\ Rollback(r, IF kind[r] = "import" THEN "audit" ELSE "failed")
    /\ UNCHANGED <<rows, audit, kind, file, todo, token, tries, skipped>>

\* Faulty variant: a key that is only reserved counts as a duplicate.
InsertCodeWithoutWaiting(r) ==
    /\ pc[r] = "code"
    /\ IF Waiting(r) \/ Candidate(r) \in CodesIn(rows) \cup CodesIn(held[r])
       THEN NextCandidate(r) /\ skipped' = [skipped EXCEPT ![r] = @ + 1]
       ELSE Goto(r, "token") /\ UNCHANGED <<todo, tries, skipped>>
    /\ UNCHANGED <<rows, audit, kind, file, held, token>>

\* products_code_key: an import skips the row, a creation is refused.
InsertCode(r) ==
    /\ pc[r] = "code"
    /\ ~Waiting(r)
    /\ IF Candidate(r) \in CodesIn(rows) \cup CodesIn(held[r])
       THEN \/ /\ kind[r] = "import"
               /\ skipped' = [skipped EXCEPT ![r] = @ + 1]
               /\ NextCandidate(r)
            \/ kind[r] = "create" /\ Goto(r, "failed") /\ UNCHANGED <<todo, tries, skipped>>
       ELSE Goto(r, "token") /\ UNCHANGED <<todo, tries, skipped>>
    /\ UNCHANGED <<rows, audit, kind, file, held, token>>

\* products_public_token_key: the savepoint is rolled back and another token tried.
InsertToken(r) ==
    /\ pc[r] = "token"
    /\ ~Waiting(r)
    /\ IF token[r] \in TokensIn(rows) \cup TokensIn(held[r])
       THEN /\ tries' = [tries EXCEPT ![r] = @ - 1]
            /\ Goto(r, "attempt")
            /\ UNCHANGED <<todo, held>>
       ELSE /\ held' = [held EXCEPT ![r] = @ \cup {[code |-> Candidate(r), token |-> token[r]]}]
            /\ NextCandidate(r)
    /\ UNCHANGED <<rows, audit, kind, file, token, skipped>>

-----------------------------------------------------------------------------
(* The end of the transaction. *)

Outcome(r, result) ==
    [req |-> r, result |-> result,
     created |-> IF result = "success" THEN Cardinality(held[r]) ELSE 0,
     skipped |-> IF result = "success" THEN skipped[r] ELSE 0]

Committed(r) ==
    /\ pc[r] = "attempt" /\ todo[r] = {}
    /\ rows'  = rows \cup {[code |-> x.code, token |-> x.token, req |-> r] : x \in held[r]}
    /\ audit' = audit \cup {Outcome(r, "success")}
    /\ held'  = [held EXCEPT ![r] = {}]

Commit(r) ==
    /\ Committed(r)
    /\ Goto(r, "done")
    /\ UNCHANGED <<kind, file, todo, token, tries, skipped>>

\* Committed, but the answer is lost with the connection or the task.
CommitUnacknowledged(r) ==
    /\ "db" \in Faults
    /\ Committed(r)
    /\ Goto(r, "error500")
    /\ UNCHANGED <<kind, file, todo, token, tries, skipped>>

\* Only AppError is caught: a failed statement, the deadlock detector's
\* abort or a cancelled task rolls back and leaves no failure audit.
Interrupted(r) ==
    /\ "db" \in Faults
    /\ pc[r] \in {"attempt", "code", "token"}
    /\ Rollback(r, "error500")
    /\ UNCHANGED <<rows, audit, kind, file, todo, token, tries, skipped>>

DeadlockDetected(r) ==
    /\ Deadlocked(r)
    /\ Rollback(r, "error500")
    /\ UNCHANGED <<rows, audit, kind, file, todo, token, tries, skipped>>

\* _audit_failure on a connection of its own, which swallows its own failure.
AuditFailure(r) ==
    /\ pc[r] = "audit"
    /\ \/ audit' = audit \cup {Outcome(r, "failure")}
       \/ "audit" \in Faults /\ UNCHANGED audit
    /\ Goto(r, "failed")
    /\ UNCHANGED <<rows, kind, file, todo, held, token, tries, skipped>>

-----------------------------------------------------------------------------
Step(r) ==
    \/ RejectWorkbook(r) \/ ValidateWorkbook(r)
    \/ BeginAttempt(r) \/ TokensExhausted(r) \/ InsertCode(r) \/ InsertToken(r)
    \/ Commit(r) \/ DeadlockDetected(r) \/ AuditFailure(r)

Quiet == (\A r \in Requests : pc[r] \in Answered) /\ UNCHANGED vars

Next ==
    \/ \E r \in Requests : ReceiveImport(r) \/ ReceiveCreate(r)
    \/ \E r \in Requests : Step(r) \/ CommitUnacknowledged(r) \/ Interrupted(r)
    \/ Quiet

Spec == Init /\ [][Next]_vars

\* Tasks are resumed, PostgreSQL grants free keys and breaks every deadlock.
FairSpec == Spec /\ \A r \in Requests : WF_vars(Step(r))

-----------------------------------------------------------------------------
(* Properties. *)

Created(r) == {x \in rows : x.req = r}
CodesOfFile(r) == {Normal[file[r][i]] : i \in NonblankRows(file[r])}

\* A row counted as a duplicate is one whose product exists: when an import
\* is answered with success, every code of its file is committed, whatever
\* happened to the transactions it had to wait for.
EveryCodeOfFileExists ==
    \A r \in Requests : pc[r] = "done" => CodesOfFile(r) \subseteq CodesIn(rows)

\* Batches are atomic and their audit exact: a request has products exactly when
\* its success event is committed, which counts them, and the rows skipped and
\* created add up to the rows of the file that are not blank.
AuditCountsBatch ==
    \A r \in Requests :
        /\ Created(r) # {} => \E e \in audit : e.req = r /\ e.result = "success"
        /\ \A e \in audit : e.req = r /\ e.result = "success" =>
               /\ e.created = Cardinality(Created(r))
               /\ e.created + e.skipped = Cardinality(NonblankRows(file[r]))
        /\ \A e, f \in audit : e.req = r /\ f.req = r => e = f

\* An import whose file is valid is not refused because of what others insert at
\* the same time: concurrent duplicates are only skipped.
ConcurrencyOnlySkips == \A r \in Requests : pc[r] # "error500"

\* Every request is answered; no wait for another transaction's key is forever.
EveryRequestAnswered ==
    \A r \in Requests : (pc[r] # "idle") ~> (pc[r] \in Answered)
=============================================================================
