--------------------------- MODULE AdminAuth_proofs ---------------------------
(***************************************************************************)
(* Proofs about AdminAuth for any number of requests, usernames, addresses *)
(* and passwords, any settings of the limiter and under every fault.       *)
(***************************************************************************)
EXTENDS AdminAuth, FiniteSetTheorems, NaturalsInduction, WellFoundedInduction, TLAPS

-----------------------------------------------------------------------------
(* The powers of two: what a recursive function computes, by induction in  *)
(* the form of least elements of sets of numbers.                          *)

Less == {p \in Nat \X Nat : p[1] < p[2]}

\* A set of natural numbers has a least element.
LEMMA LeastElement ==
    ASSUME NEW T \in SUBSET Nat, T # {}
    PROVE  \E x \in T : \A y \in T : x <= y
<1>1. OpToRel(<, Nat) = Less  BY Zenon DEF OpToRel, Less
<1>2. IsWellFoundedOn(Less, Nat)  BY <1>1, NatLessThanWellFounded, Zenon
<1>3. PICK x \in T : \A y \in T : ~ (<<y, x>> \in Less)  BY <1>2, WFMin, Zenon
<1>4. \A y \in T : y < x => <<y, x>> \in Less  BY DEF Less
<1>5. \A y \in T : ~(y < x)  BY <1>3, <1>4
<1> QED  BY <1>5

\* Induction: a set of numbers that has 0 and all successors has them all.
LEMMA Induction ==
    ASSUME NEW T \in SUBSET Nat, 0 \in T, \A n \in T : n + 1 \in T
    PROVE  T = Nat
<1> SUFFICES ASSUME Nat \ T # {} PROVE FALSE  OBVIOUS
<1>1. Nat \ T \in SUBSET Nat  OBVIOUS
<1>2. PICK x \in Nat \ T : \A y \in Nat \ T : x <= y  BY <1>1, LeastElement
<1>3. x # 0 /\ x - 1 \in Nat  BY <1>2
<1>4. x - 1 \in T  BY <1>2, <1>3
<1>5. (x - 1) + 1 \in T  BY <1>4
<1>6. (x - 1) + 1 = x  BY <1>2, <1>3
<1> QED  BY <1>2, <1>5, <1>6

\* A table of the powers up to n.
Table(g, n) ==
    /\ g \in [0..n -> Nat]
    /\ \A i \in 0..n : g[i] = IF i = 0 THEN 1 ELSE 2 * g[i - 1]

LEMMA TableExists == ASSUME NEW n \in Nat PROVE \E g : Table(g, n)
<1> DEFINE T == {m \in Nat : \E g : Table(g, m)}
<1>1. 0 \in T
  <2>1. Table([i \in 0..0 |-> 1], 0)  BY DEF Table
  <2> QED  BY <2>1
<1>2. ASSUME NEW m \in T PROVE m + 1 \in T
  <2>1. PICK g : Table(g, m)  OBVIOUS
  <2> DEFINE h == [i \in 0..(m + 1) |-> IF i = m + 1 THEN 2 * g[m] ELSE g[i]]
  <2>2. \A i \in 0..m : h[i] = g[i] /\ g[i] \in Nat  BY <2>1 DEF Table
  <2>3. h[m + 1] = 2 * g[m] /\ h[m] = g[m]  BY <2>2
  <2>4. h \in [0..(m + 1) -> Nat]
    <3>1. m \in 0..m  OBVIOUS
    <3>1a. g[m] \in Nat  BY <2>1, <3>1 DEF Table
    <3>2. 2 * g[m] \in Nat  BY <3>1a
    <3>3. \A i \in 0..(m + 1) : i = m + 1 \/ i \in 0..m  OBVIOUS
    <3> QED  BY <2>2, <3>2, <3>3
  <2>5. ASSUME NEW i \in 0..(m + 1) PROVE h[i] = IF i = 0 THEN 1 ELSE 2 * h[i - 1]
    <3>1. CASE i = m + 1  BY <2>3, <3>1
    <3>2. CASE i \in 0..m
      <4>1. g[i] = IF i = 0 THEN 1 ELSE 2 * g[i - 1]  BY <2>1, <3>2 DEF Table
      <4>2. i # 0 => i - 1 \in 0..m  BY <3>2
      <4> HIDE DEF h
      <4> QED  BY <2>2, <3>2, <4>1, <4>2
    <3> QED  BY <3>1, <3>2
  <2> HIDE DEF h
  <2>6. Table(h, m + 1)  BY <2>4, <2>5 DEF Table
  <2> QED  BY <2>6
<1> HIDE DEF T
<1>3. T = Nat
  <2>1. T \in SUBSET Nat  BY DEF T
  <2> QED  BY <1>1, <1>2, <2>1, Induction
<1> QED  BY <1>3 DEF T

LEMMA TablesAgree ==
    ASSUME NEW m \in Nat, NEW n \in Nat, NEW g, NEW h, Table(g, m), Table(h, n), m <= n
    PROVE  \A i \in 0..m : g[i] = h[i]
<1> DEFINE T == {i \in Nat : i <= m => g[i] = h[i]}
<1>1. 0 \in T  BY DEF Table
<1>2. ASSUME NEW i \in T PROVE i + 1 \in T
  <2> SUFFICES ASSUME i + 1 <= m PROVE g[i + 1] = h[i + 1]  OBVIOUS
  <2>1. i + 1 \in 0..m /\ i + 1 \in 0..n /\ i + 1 # 0 /\ (i + 1) - 1 = i  OBVIOUS
  <2>2. g[i + 1] = 2 * g[i] /\ h[i + 1] = 2 * h[i]  BY <2>1 DEF Table
  <2> QED  BY <2>2
<1> HIDE DEF T
<1>3. T = Nat
  <2>1. T \in SUBSET Nat  BY DEF T
  <2> QED  BY <1>1, <1>2, <2>1, Induction
<1> QED  BY <1>3 DEF T

\* The recursive definition defines a function.
LEMMA TwoToUnfolds ==
    \A n \in Nat : TwoTo[n] = IF n = 0 THEN 1 ELSE 2 * TwoTo[n - 1]
<1> DEFINE table(n) == CHOOSE g : Table(g, n)
           f == [n \in Nat |-> table(n)[n]]
<1>1. \A n \in Nat : Table(table(n), n)  BY TableExists
<1> HIDE DEF table
<1>2. ASSUME NEW n \in Nat PROVE f[n] = IF n = 0 THEN 1 ELSE 2 * f[n - 1]
  <2>1. CASE n = 0  BY <1>1, <2>1 DEF Table
  <2>2. CASE n # 0
    <3>1. n - 1 \in Nat /\ n - 1 <= n /\ n - 1 \in 0..(n - 1) /\ n \in 0..n  BY <2>2
    <3>2. Table(table(n), n) /\ Table(table(n - 1), n - 1)  BY <1>1, <3>1
    <3>3. table(n - 1)[n - 1] = table(n)[n - 1]  BY <3>1, <3>2, TablesAgree
    <3>4. table(n)[n] = 2 * table(n)[n - 1]  BY <2>2, <3>1, <3>2 DEF Table
    <3> QED  BY <2>2, <3>1, <3>3, <3>4
  <2> QED  BY <2>1, <2>2
<1>3. f = [n \in Nat |-> IF n = 0 THEN 1 ELSE 2 * f[n - 1]]  BY <1>2
<1>4. \E t : t = [n \in Nat |-> IF n = 0 THEN 1 ELSE 2 * t[n - 1]]  BY <1>3
<1> HIDE DEF f
<1>5. TwoTo = [n \in Nat |-> IF n = 0 THEN 1 ELSE 2 * TwoTo[n - 1]]  BY <1>4 DEF TwoTo
<1> QED  BY <1>5

LEMMA TwoToPositive == ASSUME NEW n \in Nat PROVE TwoTo[n] \in Nat \ {0}
<1> DEFINE T == {m \in Nat : TwoTo[m] \in Nat \ {0}}
<1>1. 0 \in T  BY TwoToUnfolds
<1>2. ASSUME NEW m \in T PROVE m + 1 \in T
  <2>1. TwoTo[m + 1] = 2 * TwoTo[m]  BY TwoToUnfolds
  <2> QED  BY <2>1
<1> HIDE DEF T
<1>3. T = Nat
  <2>1. T \in SUBSET Nat  BY DEF T
  <2> QED  BY <1>1, <1>2, <2>1, Induction
<1> QED  BY <1>3 DEF T

\* What the limiter relies on: at and above the limit there is a delay, and it
\* is capped (register_failure).
LEMMA DelayBounds ==
    ASSUME NEW n \in Nat
    PROVE  /\ Delay(n) \in 0..MaxBackoff
           /\ n >= FailureLimit => Delay(n) >= 1
<1>1. CASE n < FailureLimit
  BY <1>1, LimitAssumption, TimesAssumption DEF Delay
<1>2. CASE ~(n < FailureLimit)
  <2> DEFINE x == BaseBackoff * TwoTo[n - FailureLimit]
  <2>1. n - FailureLimit \in Nat  BY <1>2, LimitAssumption
  <2>2. TwoTo[n - FailureLimit] \in Nat \ {0}  BY <2>1, TwoToPositive
  <2>3. x \in Nat \ {0}
    <3>1. ASSUME NEW a \in Nat \ {0}, NEW b \in Nat \ {0} PROVE a * b \in Nat \ {0}
      OBVIOUS
    <3> QED  BY <2>2, <3>1, TimesAssumption
  <2>4. Delay(n) = Min({x, MaxBackoff})  BY <1>2 DEF Delay
  <2> HIDE DEF x
  <2>5. Min({x, MaxBackoff}) = IF x <= MaxBackoff THEN x ELSE MaxBackoff
    BY <2>3, TimesAssumption DEF Min
  <2> QED  BY <2>3, <2>4, <2>5, TimesAssumption
<1> QED  BY <1>1, <1>2

-----------------------------------------------------------------------------
(* The inductive invariant. *)

Holding == {"resetWrite", "verify", "session", "changeVerify", "changeWrite"}
ByToken == {"change", "logout", "manage"}

\* The control point fixes the kind of the request.
KindFixed == \A r \in Requests :
    /\ pc[r] = "idle" => op[r].kind = "none"
    /\ pc[r] \in {"create", "insert"} => op[r].kind = "create"
    /\ pc[r] \in {"reset", "resetWrite"} => op[r].kind = "reset"
    /\ pc[r] \in {"login", "loginRow", "verify", "session", "success"} => op[r].kind = "login"
    /\ pc[r] = "resolve" => op[r].kind \in ByToken
    /\ pc[r] \in {"change", "changeVerify", "changeWrite"} => op[r].kind = "change"
    /\ pc[r] = "logout" => op[r].kind = "logout"
    /\ pc[r] = "manage" => op[r].kind = "manage"

\* A request that carries a token carries one that was issued.
TokensIssued == \A r \in Requests :
    op[r].kind \in ByToken => sessions[op[r].session].state # "none"

\* A session belongs to a login that has committed, on an account that exists.
SessionsRooted == \A s \in Requests : sessions[s].state # "none" =>
    /\ pc[s] \in {"success", "done", "error"}
    /\ sessions[s].account \in admins

\* Between the read and the write the row is locked, and what was read is current.
ReadIsCurrent == \A r \in Requests : pc[r] \in Holding =>
    /\ rowLock[AccountOf(r)] = r
    /\ AccountOf(r) \in admins
    /\ read[r].epoch = epoch[AccountOf(r)]

\* Between the check and the insert the advisory lock is held.
InsertGuarded == \A r \in Requests : pc[r] = "insert" => createLock = r /\ admins = {}

AtMostOne == admins = {} \/ \E a \in Accounts : admins = {a}

\* Every attempt of the instant is counted, and a full count blocks.
AttemptsCounted == \A k \in Keys :
    /\ IsFiniteSet(burst[k])
    /\ Cardinality(burst[k]) <= FailureLimit
    /\ burst[k] # {} => failures[k].last = now /\ Cardinality(burst[k]) <= failures[k].count
    /\ failures[k].count >= FailureLimit => failures[k].blocked > failures[k].last

IInv ==
    /\ TypeOK /\ KindFixed /\ TokensIssued /\ SessionsRooted
    /\ ReadIsCurrent /\ InsertGuarded /\ AtMostOne
    /\ OnlyCurrentCredentials /\ AttemptsCounted

-----------------------------------------------------------------------------
(* What the types say of a request and of its account. *)

LEMMA OperationFields ==
    ASSUME TypeOK, NEW r \in Requests
    PROVE  /\ op[r].kind \in {"create", "reset", "login"} =>
                  op[r].account \in Accounts /\ op[r].password \in Passwords
           /\ op[r].kind = "login" => op[r].address \in Addresses
           /\ op[r].kind \in ByToken => op[r].session \in Requests
           /\ op[r].kind = "change" => op[r].new \in Passwords
           /\ op[r].kind \in {"none", "create", "reset", "login", "change", "logout", "manage"}
<1>1. op[r] \in Operation  BY DEF TypeOK
<1> QED  BY <1>1 DEF Operation, ByToken

LEMMA SessionFields ==
    ASSUME TypeOK, NEW s \in Requests, sessions[s].state # "none"
    PROVE  /\ sessions[s] \in Session
           /\ sessions[s].state \in {"active", "revoked"}
           /\ sessions[s].account \in Accounts
           /\ sessions[s].epoch \in Nat
           /\ sessions[s].expires \in Nat
<1>1. sessions[s] \in Session \cup {NoSession}  BY DEF TypeOK
<1>2. sessions[s] # NoSession  BY DEF NoSession
<1>3. sessions[s] \in Session  BY <1>1, <1>2
<1> QED  BY <1>3 DEF Session

LEMMA AccountKnown ==
    ASSUME TypeOK, TokensIssued, NEW r \in Requests, op[r].kind # "none"
    PROVE  AccountOf(r) \in Accounts
<1>1. CASE op[r].kind \in {"create", "reset", "login"}
  BY <1>1, OperationFields DEF AccountOf
<1>2. CASE op[r].kind \in ByToken
  <2>1. op[r].session \in Requests /\ sessions[op[r].session].state # "none"
    BY <1>2, OperationFields DEF TokensIssued
  <2>2. sessions[op[r].session].account \in Accounts  BY <2>1, SessionFields
  <2> QED  BY <1>2, <2>2 DEF AccountOf, ByToken
<1> QED  BY <1>1, <1>2, OperationFields DEF ByToken

LEMMA KeyTypes ==
    ASSUME TypeOK, NEW r \in Requests, op[r].kind = "login"
    PROVE  KeysOf(r) \subseteq Keys
BY OperationFields DEF KeysOf, Keys

LEMMA OneMoreType ==
    ASSUME TypeOK, NEW k \in Keys
    PROVE  /\ OneMore(k) \in [count : Nat, blocked : 0..(MaxTime + MaxBackoff), last : 0..MaxTime]
           /\ OneMore(k).last = now
           /\ OneMore(k).count = IF Active(k) THEN failures[k].count + 1 ELSE 1
           /\ OneMore(k).count >= FailureLimit => OneMore(k).blocked > now
<1> DEFINE n == IF Active(k) THEN failures[k].count + 1 ELSE 1
<1>1. failures[k].count \in Nat /\ now \in 0..MaxTime  BY DEF TypeOK
<1>2. n \in Nat  BY <1>1
<1>3. OneMore(k) = [count |-> n, blocked |-> now + Delay(n), last |-> now]  BY DEF OneMore
<1> HIDE DEF n
<1>4. Delay(n) \in 0..MaxBackoff /\ (n >= FailureLimit => Delay(n) >= 1)  BY <1>2, DelayBounds
<1>5. now + Delay(n) \in 0..(MaxTime + MaxBackoff)  BY <1>1, <1>4, TimesAssumption
<1>6. n >= FailureLimit => now + Delay(n) > now  BY <1>1, <1>4, TimesAssumption
<1> QED  BY <1>1, <1>2, <1>3, <1>5, <1>6 DEF n

-----------------------------------------------------------------------------
(* Type correctness. *)

LEMMA InitIInv == ASSUME Init PROVE IInv
<1> USE DEF Init
<1>1. TypeOK
  <2>1. 0 \in 0..MaxTime /\ 0 \in 0..(MaxTime + MaxBackoff)  BY TimesAssumption
  <2>2. failures \in [Keys -> [count : Nat, blocked : 0..(MaxTime + MaxBackoff), last : 0..MaxTime]]
    BY <2>1 DEF NoFailure
  <2>3. op \in [Requests -> Operation]  BY DEF Operation
  <2>4. pc \in [Requests -> PCs]  BY DEF PCs
  <2>5. read \in [Requests -> [password : Passwords \cup {NoPassword}, epoch : Nat]]  BY DEF Unread
  <2> QED  BY <2>1, <2>2, <2>3, <2>4, <2>5 DEF TypeOK
<1>2. KindFixed /\ TokensIssued /\ ReadIsCurrent /\ InsertGuarded
  BY DEF KindFixed, TokensIssued, ReadIsCurrent, InsertGuarded, Holding, ByToken
<1>3. SessionsRooted /\ AtMostOne /\ OnlyCurrentCredentials
  BY DEF SessionsRooted, AtMostOne, OnlyCurrentCredentials, NoSession
<1>4. AttemptsCounted
  <2>1. \A k \in Keys : failures[k] = NoFailure /\ burst[k] = {}  OBVIOUS
  <2> QED  BY <2>1, FS_EmptySet, LimitAssumption DEF AttemptsCounted, NoFailure
<1> QED  BY <1>1, <1>2, <1>3, <1>4 DEF IInv

\* The shared parts of the handlers.
LEMMA UnlockTypes ==
    ASSUME TypeOK, NEW r \in Requests, Unlock(r)
    PROVE  /\ rowLock' \in [Accounts -> Requests \cup {NoRequest}]
           /\ createLock' \in Requests \cup {NoRequest}
BY DEF TypeOK, Unlock

LEMMA LockTypes ==
    ASSUME TypeOK, NEW r \in Requests, AccountOf(r) \in Accounts, LockAndRead(r)
    PROVE  /\ rowLock' \in [Accounts -> Requests \cup {NoRequest}]
           /\ createLock' \in Requests \cup {NoRequest}
           /\ read' \in [Requests -> [password : Passwords \cup {NoPassword}, epoch : Nat]]
BY DEF TypeOK, LockAndRead

LEMMA PasswordTypes ==
    ASSUME TypeOK, NEW a \in Accounts, NEW p \in Passwords, NEW f \in BOOLEAN,
           WritePassword(a, p, f)
    PROVE  /\ password' \in [Accounts -> Passwords \cup {NoPassword}]
           /\ must' \in [Accounts -> BOOLEAN]
           /\ epoch' \in [Accounts -> Nat]
<1>1. epoch' \in [Accounts -> Nat]  BY DEF TypeOK, WritePassword
<1>2. password' \in [Accounts -> Passwords \cup {NoPassword}]  BY DEF TypeOK, WritePassword
<1>3. must' \in [Accounts -> BOOLEAN]  BY Zenon DEF TypeOK, WritePassword
<1> QED  BY <1>1, <1>2, <1>3

LEMMA GotoTypes ==
    ASSUME TypeOK, NEW r \in Requests, NEW s \in PCs, Goto(r, s)
    PROVE  /\ pc' \in [Requests -> PCs]
           /\ pc'[r] = s
           /\ \A q \in Requests : q # r => pc'[q] = pc[q]
BY DEF TypeOK, Goto

LEMMA AuditTypes ==
    ASSUME TypeOK, NEW r \in Requests, NEW x \in Actions, Audited(r, x)
    PROVE  audit' \subseteq (Requests \X Actions)
BY DEF TypeOK, Audited

LEMMA BestEffortTypes ==
    ASSUME TypeOK, NEW r \in Requests, NEW x \in Actions, AuditedBestEffort(r, x)
    PROVE  audit' \subseteq (Requests \X Actions)
BY DEF TypeOK, Audited, AuditedBestEffort

LEMMA RevokedFields ==
    ASSUME TypeOK, NEW a \in Accounts, NEW kept
    PROVE  /\ RevokedExcept(a, kept) \in [Requests -> Session \cup {NoSession}]
           /\ \A s \in Requests : sessions[s].state # "none" =>
                  /\ RevokedExcept(a, kept)[s].state # "none"
                  /\ RevokedExcept(a, kept)[s].account = sessions[s].account
                  /\ RevokedExcept(a, kept)[s].epoch = sessions[s].epoch
                  /\ RevokedExcept(a, kept)[s].state = "active" =>
                        sessions[s].state = "active" /\ (sessions[s].account = a => s \in kept)
           /\ \A s \in Requests : sessions[s].state = "none" =>
                  RevokedExcept(a, kept)[s] = sessions[s]
<1> DEFINE X == RevokedExcept(a, kept)
<1>1. ASSUME NEW s \in Requests PROVE
          X[s] = IF sessions[s].state = "active" /\ sessions[s].account = a /\ s \notin kept
                 THEN [sessions[s] EXCEPT !.state = "revoked"] ELSE sessions[s]
  BY DEF RevokedExcept
<1>2. ASSUME NEW s \in Requests, sessions[s].state # "none" PROVE
          /\ X[s] \in Session
          /\ X[s].account = sessions[s].account
          /\ X[s].epoch = sessions[s].epoch
          /\ X[s].state = "active" =>
                sessions[s].state = "active" /\ (sessions[s].account = a => s \in kept)
  <2>1. sessions[s] \in Session  BY <1>2, SessionFields
  <2> QED  BY <1>1, <2>1 DEF Session
<1>3. ASSUME NEW s \in Requests, sessions[s].state = "none" PROVE X[s] = sessions[s]
  BY <1>1, <1>3
<1>4. \A s \in Requests : X[s] \in Session \cup {NoSession}  BY <1>2, <1>3 DEF TypeOK
<1>5. DOMAIN X = Requests /\ X = [s \in Requests |-> X[s]]  BY DEF RevokedExcept
<1> HIDE DEF X
<1>6. X \in [Requests -> Session \cup {NoSession}]  BY <1>4, <1>5
<1>7. \A s \in Requests : sessions[s].state # "none" => X[s].state # "none"
  BY <1>2 DEF Session
<1> QED  BY <1>2, <1>3, <1>6, <1>7 DEF X

LEMMA TypeStep == ASSUME IInv, Next PROVE TypeOK'
<1> USE DEF dbVars, locks, limits
<1>a. TypeOK /\ KindFixed /\ TokensIssued  BY DEF IInv
<1>b. Answered \subseteq PCs /\ "done" \in PCs /\ "error" \in PCs /\ "refused" \in PCs
  BY DEF PCs, Answered
<1>c. Actions = {"admin_create", "password_reset", "login_success", "login_failure",
                 "password_change", "admin_logout"}  BY DEF Actions
<1>1. ASSUME NEW r \in Requests, Arrive(r) PROVE TypeOK'
  <2>1. PICK k \in Kinds :
           \/ /\ k \in {"create", "reset"}
              /\ \E a \in Accounts, p \in Passwords :
                     op' = [op EXCEPT ![r] = [kind |-> k, account |-> a, password |-> p]]
              /\ Goto(r, k)
           \/ /\ k = "login"
              /\ \E a \in Accounts, p \in Passwords, i \in Addresses :
                     op' = [op EXCEPT ![r] = [kind |-> k, account |-> a, password |-> p,
                                              address |-> i]]
              /\ Goto(r, k)
           \/ /\ k = "change"
              /\ \E s \in Tokens, p, n \in Passwords :
                     op' = [op EXCEPT ![r] = [kind |-> k, session |-> s, password |-> p,
                                              new |-> n]]
              /\ Goto(r, "resolve")
           \/ /\ k \in {"logout", "manage"}
              /\ \E s \in Tokens : op' = [op EXCEPT ![r] = [kind |-> k, session |-> s]]
              /\ Goto(r, "resolve")
    BY <1>1 DEF Arrive
  <2>2. pc' \in [Requests -> PCs]
    <3>1. {"create", "reset", "login", "resolve"} \subseteq PCs  BY DEF PCs
    <3> QED  BY <2>1, <3>1, <1>a, GotoTypes
  <2>3. \E x \in Operation : op' = [op EXCEPT ![r] = x]
    <3>1. Tokens \subseteq Requests  BY DEF Tokens
    <3> QED  BY <2>1, <3>1 DEF Operation
  <2>4. op' \in [Requests -> Operation]  BY <1>a, <2>3 DEF TypeOK
  <2> QED  BY <1>1, <1>a, <2>2, <2>4 DEF TypeOK, Arrive
<1>2. ASSUME NEW r \in Requests, CreateCheck(r) PROVE TypeOK'
  <2>1. pc' \in [Requests -> PCs]
    <3>1. "insert" \in PCs  BY DEF PCs
    <3> QED  BY <1>2, <1>a, <1>b, <3>1, GotoTypes DEF CreateCheck
  <2> QED  BY <1>2, <1>a, <2>1 DEF TypeOK, CreateCheck
<1>3. ASSUME NEW r \in Requests, CreateCommit(r) PROVE TypeOK'
  <2>1. op[r].kind = "create" /\ AccountOf(r) \in Accounts /\ op[r].password \in Passwords
    BY <1>3, <1>a, AccountKnown, OperationFields DEF CreateCommit, KindFixed
  <2>2. pc' \in [Requests -> PCs]
    BY <1>3, <1>a, <1>b, GotoTypes DEF CreateCommit, CommitAnswered
  <2>3. /\ password' \in [Accounts -> Passwords \cup {NoPassword}]
        /\ must' \in [Accounts -> BOOLEAN]
        /\ epoch' \in [Accounts -> Nat]
    BY <1>3, <1>a, <2>1, PasswordTypes DEF CreateCommit
  <2>4. audit' \subseteq (Requests \X Actions)
    BY <1>3, <1>a, <1>c, AuditTypes DEF CreateCommit
  <2> QED  BY <1>3, <1>a, <2>1, <2>2, <2>3, <2>4, UnlockTypes DEF TypeOK, CreateCommit
<1>4. ASSUME NEW r \in Requests, ResetRow(r) PROVE TypeOK'
  <2>1. AccountOf(r) \in Accounts
    BY <1>4, <1>a, AccountKnown DEF ResetRow, KindFixed
  <2>2. pc' \in [Requests -> PCs]
    <3>1. "resetWrite" \in PCs  BY DEF PCs
    <3> QED  BY <1>4, <1>a, <1>b, <3>1, GotoTypes DEF ResetRow
  <2>3. CASE AccountOf(r) \notin admins  BY <1>4, <1>a, <2>2, <2>3 DEF TypeOK, ResetRow
  <2>4. CASE AccountOf(r) \in admins
    BY <1>4, <1>a, <2>1, <2>2, <2>4, LockTypes DEF TypeOK, ResetRow
  <2> QED  BY <2>3, <2>4
<1>5. ASSUME NEW r \in Requests, ResetCommit(r) PROVE TypeOK'
  <2>1. op[r].kind = "reset" /\ AccountOf(r) \in Accounts /\ op[r].password \in Passwords
    BY <1>5, <1>a, AccountKnown, OperationFields DEF ResetCommit, KindFixed
  <2>2. pc' \in [Requests -> PCs]
    BY <1>5, <1>a, <1>b, GotoTypes DEF ResetCommit, CommitAnswered
  <2>3. /\ password' \in [Accounts -> Passwords \cup {NoPassword}]
        /\ must' \in [Accounts -> BOOLEAN]
        /\ epoch' \in [Accounts -> Nat]
    BY <1>5, <1>a, <2>1, PasswordTypes DEF ResetCommit
  <2>4. audit' \subseteq (Requests \X Actions)
    BY <1>5, <1>a, <1>c, AuditTypes DEF ResetCommit
  <2>5. sessions' \in [Requests -> Session \cup {NoSession}]
    BY <1>5, <1>a, <2>1, RevokedFields DEF ResetCommit
  <2> QED  BY <1>5, <1>a, <2>2, <2>3, <2>4, <2>5, UnlockTypes DEF TypeOK, ResetCommit
<1>6. ASSUME NEW r \in Requests, Reserve(r) PROVE TypeOK'
  <2>1. pc' \in [Requests -> PCs]
    <3>1. "loginRow" \in PCs  BY DEF PCs
    <3> QED  BY <1>6, <1>a, <1>b, <3>1, GotoTypes DEF Reserve
  <2>2. audit' \subseteq (Requests \X Actions)
    BY <1>6, <1>a, <1>c, BestEffortTypes DEF Reserve, TypeOK
  <2>3. CASE Blocked(r)  BY <1>6, <1>a, <2>1, <2>2, <2>3 DEF TypeOK, Reserve
  <2>4. CASE ~Blocked(r)
    <3>1. failures' \in [Keys -> [count : Nat, blocked : 0..(MaxTime + MaxBackoff), last : 0..MaxTime]]
      <4> DEFINE F == [count : Nat, blocked : 0..(MaxTime + MaxBackoff), last : 0..MaxTime]
      <4>1. \A k \in Keys : OneMore(k) \in F  BY <1>a, OneMoreType
      <4>2. failures \in [Keys -> F]  BY <1>a DEF TypeOK
      <4>3. failures' = [k \in Keys |-> IF k \in KeysOf(r) THEN OneMore(k) ELSE failures[k]]
        BY <1>6, <2>4 DEF Reserve
      <4> HIDE DEF F
      <4>4. failures' \in [Keys -> F]  BY <4>1, <4>2, <4>3
      <4> QED  BY <4>4 DEF F
    <3>2. burst' \in [Keys -> SUBSET Requests]  BY <1>6, <1>a, <2>4 DEF TypeOK, Reserve
    <3> QED  BY <1>6, <1>a, <2>1, <2>2, <3>1, <3>2 DEF TypeOK, Reserve
  <2> QED  BY <2>3, <2>4
<1>7. ASSUME NEW r \in Requests, LoginRow(r) PROVE TypeOK'
  <2>1. AccountOf(r) \in Accounts
    BY <1>7, <1>a, AccountKnown DEF LoginRow, KindFixed
  <2>2. pc' \in [Requests -> PCs]
    <3>1. "verify" \in PCs  BY DEF PCs
    <3> QED  BY <1>7, <1>a, <1>b, <3>1, GotoTypes DEF LoginRow
  <2>3. audit' \subseteq (Requests \X Actions)
    BY <1>7, <1>a, <1>c, BestEffortTypes DEF LoginRow, TypeOK
  <2>4. CASE AccountOf(r) \notin admins  BY <1>7, <1>a, <2>2, <2>3, <2>4 DEF TypeOK, LoginRow
  <2>5. CASE AccountOf(r) \in admins
    BY <1>7, <1>a, <2>1, <2>2, <2>3, <2>5, LockTypes DEF TypeOK, LoginRow
  <2> QED  BY <2>4, <2>5
<1>8. ASSUME NEW r \in Requests, LoginVerify(r) PROVE TypeOK'
  <2>1. pc' \in [Requests -> PCs]
    <3>1. "session" \in PCs  BY DEF PCs
    <3> QED  BY <1>8, <1>a, <1>b, <3>1, GotoTypes DEF LoginVerify
  <2>2. audit' \subseteq (Requests \X Actions)
    BY <1>8, <1>a, <1>c, BestEffortTypes DEF LoginVerify, TypeOK
  <2>3. rowLock' \in [Accounts -> Requests \cup {NoRequest}] /\ createLock' \in Requests \cup {NoRequest}
    BY <1>8, <1>a, UnlockTypes DEF LoginVerify, TypeOK
  <2> QED  BY <1>8, <1>a, <2>1, <2>2, <2>3 DEF TypeOK, LoginVerify
<1>9. ASSUME NEW r \in Requests, LoginCommit(r) PROVE TypeOK'
  <2>1. AccountOf(r) \in Accounts
    BY <1>9, <1>a, AccountKnown DEF LoginCommit, KindFixed
  <2>2. pc' \in [Requests -> PCs]
    <3>1. "success" \in PCs  BY DEF PCs
    <3> QED  BY <1>9, <1>a, <1>b, <3>1, GotoTypes DEF LoginCommit, CommitAnswered
  <2>3. audit' \subseteq (Requests \X Actions)
    BY <1>9, <1>a, <1>c, AuditTypes DEF LoginCommit
  <2>4. read[r].epoch \in Nat /\ now + Ttl \in Nat  BY <1>a, TimesAssumption DEF TypeOK
  <2>5. sessions' \in [Requests -> Session \cup {NoSession}]
    BY <1>9, <1>a, <2>1, <2>4 DEF TypeOK, LoginCommit, Session
  <2> QED  BY <1>9, <1>a, <2>2, <2>3, <2>5, UnlockTypes DEF TypeOK, LoginCommit
<1>10. ASSUME NEW r \in Requests, LoginSucceeded(r) PROVE TypeOK'
  <2>1. pc' \in [Requests -> PCs]  BY <1>10, <1>a, <1>b, GotoTypes DEF LoginSucceeded
  <2>2. NoFailure \in [count : Nat, blocked : 0..(MaxTime + MaxBackoff), last : 0..MaxTime]
    BY TimesAssumption DEF NoFailure
  <2>3. failures' \in [Keys -> [count : Nat, blocked : 0..(MaxTime + MaxBackoff), last : 0..MaxTime]]
    BY <1>10, <1>a, <2>2 DEF TypeOK, LoginSucceeded
  <2>4. burst' \in [Keys -> SUBSET Requests]  BY <1>10, <1>a DEF TypeOK, LoginSucceeded
  <2> QED  BY <1>10, <1>a, <2>1, <2>3, <2>4 DEF TypeOK, LoginSucceeded
<1>11. ASSUME NEW r \in Requests, Resolve(r) PROVE TypeOK'
  <2>1. op[r].kind \in PCs  BY <1>11, <1>a DEF Resolve, KindFixed, ByToken, PCs
  <2>2. pc' \in [Requests -> PCs]  BY <1>11, <1>a, <1>b, <2>1, GotoTypes DEF Resolve
  <2> QED  BY <1>11, <1>a, <2>2 DEF TypeOK, Resolve
<1>12. ASSUME NEW r \in Requests, Manage(r) PROVE TypeOK'
  <2>1. pc' \in [Requests -> PCs]  BY <1>12, <1>a, <1>b, GotoTypes DEF Manage
  <2> QED  BY <1>12, <1>a, <2>1 DEF TypeOK, Manage
<1>13. ASSUME NEW r \in Requests, Logout(r) PROVE TypeOK'
  <2>1. pc' \in [Requests -> PCs]
    BY <1>13, <1>a, <1>b, GotoTypes DEF Logout, CommitAnswered
  <2>2. audit' \subseteq (Requests \X Actions)  BY <1>13, <1>a, <1>c, AuditTypes DEF Logout
  <2>3. op[r].kind = "logout" /\ op[r].session \in Requests /\ sessions[op[r].session].state # "none"
    BY <1>13, <1>a, OperationFields DEF Logout, KindFixed, TokensIssued, ByToken
  <2>4. sessions[op[r].session] \in Session  BY <1>a, <2>3, SessionFields
  <2>5. sessions' \in [Requests -> Session \cup {NoSession}]
    BY <1>13, <1>a, <2>3, <2>4 DEF TypeOK, Logout, Session
  <2> QED  BY <1>13, <1>a, <2>1, <2>2, <2>5 DEF TypeOK, Logout
<1>14. ASSUME NEW r \in Requests, ChangeRow(r) PROVE TypeOK'
  <2>1. AccountOf(r) \in Accounts
    BY <1>14, <1>a, AccountKnown DEF ChangeRow, KindFixed
  <2>2. pc' \in [Requests -> PCs]
    <3>1. "changeVerify" \in PCs  BY DEF PCs
    <3> QED  BY <1>14, <1>a, <3>1, GotoTypes DEF ChangeRow
  <2> QED  BY <1>14, <1>a, <2>1, <2>2, LockTypes DEF TypeOK, ChangeRow
<1>15. ASSUME NEW r \in Requests, ChangeVerify(r) PROVE TypeOK'
  <2>1. pc' \in [Requests -> PCs]
    <3>1. "changeWrite" \in PCs  BY DEF PCs
    <3> QED  BY <1>15, <1>a, <1>b, <3>1, GotoTypes DEF ChangeVerify
  <2>2. rowLock' \in [Accounts -> Requests \cup {NoRequest}] /\ createLock' \in Requests \cup {NoRequest}
    BY <1>15, <1>a, UnlockTypes DEF ChangeVerify, TypeOK
  <2> QED  BY <1>15, <1>a, <2>1, <2>2 DEF TypeOK, ChangeVerify
<1>16. ASSUME NEW r \in Requests, ChangeCommit(r) PROVE TypeOK'
  <2>1. /\ op[r].kind = "change" /\ AccountOf(r) \in Accounts /\ op[r].new \in Passwords
        /\ op[r].session \in Requests /\ sessions[op[r].session].state # "none"
    BY <1>16, <1>a, AccountKnown, OperationFields
       DEF ChangeCommit, KindFixed, TokensIssued, ByToken
  <2>2. pc' \in [Requests -> PCs]
    BY <1>16, <1>a, <1>b, GotoTypes DEF ChangeCommit, CommitAnswered
  <2>3. /\ password' \in [Accounts -> Passwords \cup {NoPassword}]
        /\ must' \in [Accounts -> BOOLEAN]
        /\ epoch' \in [Accounts -> Nat]
    BY <1>16, <1>a, <2>1, PasswordTypes DEF ChangeCommit
  <2>4. audit' \subseteq (Requests \X Actions)  BY <1>16, <1>a, <1>c, AuditTypes DEF ChangeCommit
  <2>5. sessions' \in [Requests -> Session \cup {NoSession}]
    <3> DEFINE X == RevokedExcept(AccountOf(r), {op[r].session})
    <3>1. X \in [Requests -> Session \cup {NoSession}] /\ X[op[r].session].state # "none"
      BY <1>a, <2>1, RevokedFields
    <3>2. sessions' = [X EXCEPT ![op[r].session].epoch = epoch[AccountOf(r)] + 1]
      BY <1>16 DEF ChangeCommit
    <3>3. epoch[AccountOf(r)] + 1 \in Nat  BY <1>a, <2>1 DEF TypeOK
    <3> HIDE DEF X
    <3>4. X[op[r].session] \in Session  BY <2>1, <3>1 DEF NoSession
    <3>5. [X[op[r].session] EXCEPT !.epoch = epoch[AccountOf(r)] + 1] \in Session
      BY <3>3, <3>4 DEF Session
    <3> QED  BY <2>1, <3>1, <3>2, <3>5
  <2> QED  BY <1>16, <1>a, <2>2, <2>3, <2>4, <2>5, UnlockTypes DEF TypeOK, ChangeCommit
<1>17. ASSUME NEW r \in Requests, Fails(r) PROVE TypeOK'
  <2>1. pc' \in [Requests -> PCs]  BY <1>17, <1>a, <1>b, GotoTypes DEF Fails
  <2> QED  BY <1>17, <1>a, <2>1, UnlockTypes DEF TypeOK, Fails
<1>18. CASE Tick
  <2>1. now' \in 0..MaxTime  BY <1>18, <1>a, TimesAssumption DEF TypeOK, Tick
  <2>2. burst' \in [Keys -> SUBSET Requests]  BY <1>18 DEF Tick
  <2> QED  BY <1>18, <1>a, <2>1, <2>2 DEF TypeOK, Tick
<1>19. CASE Quiet  BY <1>19, <1>a DEF TypeOK, Quiet, vars
<1> QED
  BY <1>1, <1>2, <1>3, <1>4, <1>5, <1>6, <1>7, <1>8, <1>9, <1>10, <1>11, <1>12, <1>13, <1>14,
     <1>15, <1>16, <1>17, <1>18, <1>19 DEF Next, Step

-----------------------------------------------------------------------------
(* What no step does to a session or to a request. *)

\* A session keeps its account and is never forgotten; a new one is of a login
\* at its commit.
LEMMA SessionsKept ==
    ASSUME IInv, Next
    PROVE  \A s \in Requests :
               /\ sessions[s].state # "none" =>
                     sessions'[s].state # "none" /\ sessions'[s].account = sessions[s].account
               /\ sessions[s].state = "none" => sessions'[s] = sessions[s] \/ LoginCommit(s)
<1> USE DEF dbVars
<1>a. TypeOK /\ KindFixed /\ TokensIssued  BY DEF IInv
<1>1. CASE UNCHANGED sessions  BY <1>1
<1>2. ASSUME NEW r \in Requests, ResetCommit(r) PROVE
          \A s \in Requests :
               /\ sessions[s].state # "none" =>
                     sessions'[s].state # "none" /\ sessions'[s].account = sessions[s].account
               /\ sessions[s].state = "none" => sessions'[s] = sessions[s]
  <2>1. AccountOf(r) \in Accounts  BY <1>2, <1>a, AccountKnown DEF ResetCommit, KindFixed
  <2> QED  BY <1>2, <1>a, <2>1, RevokedFields DEF ResetCommit
<1>3. ASSUME NEW r \in Requests, LoginCommit(r) PROVE
          \A s \in Requests :
               /\ sessions[s].state # "none" =>
                     sessions'[s].state # "none" /\ sessions'[s].account = sessions[s].account
               /\ sessions[s].state = "none" => sessions'[s] = sessions[s] \/ LoginCommit(s)
  <2>1. sessions[r].state = "none"  BY <1>3 DEF IInv, SessionsRooted, LoginCommit
  <2>2. \A s \in Requests : s # r => sessions'[s] = sessions[s]
    BY <1>3, <1>a DEF LoginCommit, TypeOK
  <2> QED  BY <1>3, <2>1, <2>2
<1>4. ASSUME NEW r \in Requests, Logout(r) PROVE
          \A s \in Requests :
               /\ sessions[s].state # "none" =>
                     sessions'[s].state # "none" /\ sessions'[s].account = sessions[s].account
               /\ sessions[s].state = "none" => sessions'[s] = sessions[s]
  <2>1. op[r].session \in Requests /\ sessions[op[r].session].state # "none"
    BY <1>4, <1>a, OperationFields DEF Logout, KindFixed, TokensIssued, ByToken
  <2>2. sessions[op[r].session] \in Session  BY <1>a, <2>1, SessionFields
  <2>3. \A s \in Requests : s # op[r].session => sessions'[s] = sessions[s]
    BY <1>4, <1>a, <2>1 DEF Logout, TypeOK
  <2>4. sessions'[op[r].session] = [sessions[op[r].session] EXCEPT !.state = "revoked"]
    BY <1>4, <1>a, <2>1 DEF Logout, TypeOK
  <2> QED  BY <2>1, <2>2, <2>3, <2>4 DEF Session
<1>5. ASSUME NEW r \in Requests, ChangeCommit(r) PROVE
          \A s \in Requests :
               /\ sessions[s].state # "none" =>
                     sessions'[s].state # "none" /\ sessions'[s].account = sessions[s].account
               /\ sessions[s].state = "none" => sessions'[s] = sessions[s]
  <2> DEFINE t == op[r].session  X == RevokedExcept(AccountOf(r), {t})
  <2>1. t \in Requests /\ sessions[t].state # "none" /\ AccountOf(r) \in Accounts
    BY <1>5, <1>a, OperationFields, AccountKnown DEF ChangeCommit, KindFixed, TokensIssued, ByToken
  <2>2. sessions' = [X EXCEPT ![t].epoch = epoch[AccountOf(r)] + 1]  BY <1>5 DEF ChangeCommit
  <2>3. /\ X \in [Requests -> Session \cup {NoSession}]
        /\ \A s \in Requests : sessions[s].state # "none" =>
               X[s].state # "none" /\ X[s].account = sessions[s].account
        /\ \A s \in Requests : sessions[s].state = "none" => X[s] = sessions[s]
    BY <1>a, <2>1, RevokedFields
  <2> HIDE DEF X, t
  <2>4. X[t] \in Session  BY <2>1, <2>3 DEF NoSession
  <2>5. \A s \in Requests : s # t => sessions'[s] = X[s]  BY <2>1, <2>2, <2>3
  <2>6. sessions'[t] = [X[t] EXCEPT !.epoch = epoch[AccountOf(r)] + 1]  BY <2>1, <2>2, <2>3
  <2>7. sessions'[t].state = X[t].state /\ sessions'[t].account = X[t].account
    BY <2>4, <2>6 DEF Session
  <2> QED  BY <2>1, <2>3, <2>5, <2>7
<1>6. \/ UNCHANGED sessions
      \/ \E r \in Requests : ResetCommit(r) \/ LoginCommit(r) \/ Logout(r) \/ ChangeCommit(r)
  BY DEF Next, Step, Arrive, CreateCheck, CreateCommit, ResetRow, Reserve, LoginRow,
         LoginVerify, LoginSucceeded, Resolve, Manage, ChangeRow, ChangeVerify, Fails, Tick,
         Quiet, vars
<1> QED  BY <1>1, <1>2, <1>3, <1>4, <1>5, <1>6

\* A request keeps its operation, and so its account.
LEMMA OperationKept ==
    ASSUME IInv, Next, NEW r \in Requests, op[r].kind # "none"
    PROVE  /\ op'[r] = op[r]
           /\ AccountOf(r)' = AccountOf(r)
<1>a. TypeOK /\ KindFixed /\ TokensIssued  BY DEF IInv
<1>1. op'[r] = op[r]
  <2>1. ASSUME NEW q \in Requests, Arrive(q) PROVE op'[r] = op[r]
    <3>1. q # r  BY <1>a, <2>1 DEF Arrive, KindFixed
    <3>2. \E x : op' = [op EXCEPT ![q] = x]  BY <2>1 DEF Arrive
    <3> QED  BY <1>a, <3>1, <3>2 DEF TypeOK
  <2>2. UNCHANGED op \/ \E q \in Requests : Arrive(q)
    BY DEF Next, Step, CreateCheck, CreateCommit, ResetRow, ResetCommit, Reserve, LoginRow,
           LoginVerify, LoginCommit, LoginSucceeded, Resolve, Manage, Logout, ChangeRow,
           ChangeVerify, ChangeCommit, Fails, Tick, Quiet, vars
  <2> QED  BY <2>1, <2>2
<1>2. CASE op[r].kind \in {"create", "reset", "login"}  BY <1>1, <1>2 DEF AccountOf
<1>3. CASE op[r].kind \in ByToken
  <2>1. op[r].session \in Requests /\ sessions[op[r].session].state # "none"
    BY <1>a, <1>3, OperationFields DEF TokensIssued
  <2>2. sessions'[op[r].session].account = sessions[op[r].session].account
    BY <2>1, SessionsKept
  <2> QED  BY <1>1, <1>3, <2>2 DEF AccountOf, ByToken
<1> QED  BY <1>a, <1>1, <1>2, <1>3, OperationFields DEF ByToken

\* A step is of one request, and leaves the control of the others alone.
LEMMA OneMoves ==
    ASSUME IInv, Next
    PROVE  \/ UNCHANGED <<pc, op>>
           \/ \E r \in Requests : /\ Arrive(r) \/ Step(r) \/ Fails(r)
                                  /\ \A q \in Requests : q # r => pc'[q] = pc[q] /\ op'[q] = op[q]
<1>a. TypeOK  BY DEF IInv
<1>1. ASSUME NEW r \in Requests, Arrive(r) \/ Step(r) \/ Fails(r)
      PROVE  \A q \in Requests : q # r => pc'[q] = pc[q] /\ op'[q] = op[q]
  <2>1. \E x : pc' = [pc EXCEPT ![r] = x]
    BY <1>1 DEF Step, Arrive, CreateCheck, CreateCommit, ResetRow, ResetCommit, Reserve, LoginRow,
           LoginVerify, LoginCommit, LoginSucceeded, Resolve, Manage, Logout, ChangeRow,
           ChangeVerify, ChangeCommit, Fails, Goto, CommitAnswered
  <2>2. UNCHANGED op \/ \E x : op' = [op EXCEPT ![r] = x]
    BY <1>1 DEF Step, Arrive, CreateCheck, CreateCommit, ResetRow, ResetCommit, Reserve, LoginRow,
           LoginVerify, LoginCommit, LoginSucceeded, Resolve, Manage, Logout, ChangeRow,
           ChangeVerify, ChangeCommit, Fails
  <2> QED  BY <1>a, <2>1, <2>2 DEF TypeOK
<1>2. Tick \/ Quiet => UNCHANGED <<pc, op>>  BY DEF Tick, Quiet, vars
<1> QED  BY <1>1, <1>2 DEF Next

-----------------------------------------------------------------------------
(* Control, tokens and sessions. *)

LEMMA KindStep == ASSUME IInv, Next PROVE KindFixed'
<1>a. TypeOK /\ KindFixed  BY DEF IInv
<1>1. CASE UNCHANGED <<pc, op>>  BY <1>a, <1>1 DEF KindFixed
<1>2. ASSUME NEW r \in Requests, Arrive(r) \/ Step(r) \/ Fails(r),
             \A q \in Requests : q # r => pc'[q] = pc[q] /\ op'[q] = op[q]
      PROVE  KindFixed'
  <2> DEFINE P(q) == /\ pc'[q] = "idle" => op'[q].kind = "none"
                     /\ pc'[q] \in {"create", "insert"} => op'[q].kind = "create"
                     /\ pc'[q] \in {"reset", "resetWrite"} => op'[q].kind = "reset"
                     /\ pc'[q] \in {"login", "loginRow", "verify", "session", "success"} =>
                            op'[q].kind = "login"
                     /\ pc'[q] = "resolve" => op'[q].kind \in ByToken
                     /\ pc'[q] \in {"change", "changeVerify", "changeWrite"} =>
                            op'[q].kind = "change"
                     /\ pc'[q] = "logout" => op'[q].kind = "logout"
                     /\ pc'[q] = "manage" => op'[q].kind = "manage"
  <2>1. \A q \in Requests : q # r => P(q)  BY <1>a, <1>2 DEF KindFixed
  <2>2. Arrive(r) => P(r)  BY <1>a DEF Arrive, Goto, TypeOK, KindFixed, ByToken
  <2>3. CreateCheck(r) => P(r)  BY <1>a DEF CreateCheck, Goto, TypeOK, KindFixed
  <2>4. CreateCommit(r) => P(r)  BY <1>a DEF CreateCommit, Goto, TypeOK, KindFixed, CommitAnswered
  <2>5. ResetRow(r) => P(r)  BY <1>a DEF ResetRow, Goto, TypeOK, KindFixed
  <2>6. ResetCommit(r) => P(r)  BY <1>a DEF ResetCommit, Goto, TypeOK, KindFixed, CommitAnswered
  <2>7. Reserve(r) => P(r)  BY <1>a DEF Reserve, Goto, TypeOK, KindFixed
  <2>8. LoginRow(r) => P(r)  BY <1>a DEF LoginRow, Goto, TypeOK, KindFixed
  <2>9. LoginVerify(r) => P(r)  BY <1>a DEF LoginVerify, Goto, TypeOK, KindFixed
  <2>10. LoginCommit(r) => P(r)  BY <1>a DEF LoginCommit, Goto, TypeOK, KindFixed, CommitAnswered
  <2>11. LoginSucceeded(r) => P(r)  BY <1>a DEF LoginSucceeded, Goto, TypeOK, KindFixed
  <2>12. Resolve(r) => P(r)  BY <1>a DEF Resolve, Goto, TypeOK, KindFixed, ByToken
  <2>13. Manage(r) => P(r)  BY <1>a DEF Manage, Goto, TypeOK, KindFixed
  <2>14. Logout(r) => P(r)  BY <1>a DEF Logout, Goto, TypeOK, KindFixed, CommitAnswered
  <2>15. ChangeRow(r) => P(r)  BY <1>a DEF ChangeRow, Goto, TypeOK, KindFixed
  <2>16. ChangeVerify(r) => P(r)  BY <1>a DEF ChangeVerify, Goto, TypeOK, KindFixed
  <2>17. ChangeCommit(r) => P(r)  BY <1>a DEF ChangeCommit, Goto, TypeOK, KindFixed, CommitAnswered
  <2>18. Fails(r) => P(r)  BY <1>a DEF Fails, Goto, TypeOK, KindFixed
  <2>19. P(r)
    BY <1>2, <2>2, <2>3, <2>4, <2>5, <2>6, <2>7, <2>8, <2>9, <2>10, <2>11,
       <2>12, <2>13, <2>14, <2>15, <2>16, <2>17, <2>18 DEF Step
  <2> QED  BY <2>1, <2>19 DEF KindFixed
<1> QED  BY <1>1, <1>2, OneMoves

LEMMA TokensStep == ASSUME IInv, Next PROVE TokensIssued'
<1>a. TypeOK /\ TokensIssued /\ KindFixed  BY DEF IInv
<1> SUFFICES ASSUME NEW r \in Requests, op'[r].kind \in ByToken
             PROVE  sessions'[op'[r].session].state # "none"
  BY DEF TokensIssued
<1>1. CASE op[r].kind # "none"
  <2>1. op'[r] = op[r]  BY <1>1, OperationKept
  <2>2. op[r].session \in Requests /\ sessions[op[r].session].state # "none"
    BY <1>a, <2>1, OperationFields DEF TokensIssued
  <2> QED  BY <2>1, <2>2, SessionsKept
<1>2. CASE op[r].kind = "none"
  <2>1. op'[r] # op[r]  BY <1>2 DEF ByToken
  <2>2. PICK q \in Requests : Arrive(q)
    BY <2>1 DEF Next, Step, CreateCheck, CreateCommit, ResetRow, ResetCommit, Reserve, LoginRow,
           LoginVerify, LoginCommit, LoginSucceeded, Resolve, Manage, Logout, ChangeRow,
           ChangeVerify, ChangeCommit, Fails, Tick, Quiet, vars
  <2>3. q = r
    <3>1. \E x : op' = [op EXCEPT ![q] = x]  BY <2>2 DEF Arrive
    <3> QED  BY <1>a, <2>1, <3>1 DEF TypeOK
  <2>4. op'[r].session \in Tokens  BY <1>a, <2>2, <2>3 DEF Arrive, TypeOK, ByToken
  <2>5. UNCHANGED sessions  BY <2>2 DEF Arrive, dbVars
  <2> QED  BY <2>4, <2>5 DEF Tokens
<1> QED  BY <1>1, <1>2

\* The account only comes to exist; it is created when none exists.
LEMMA AdminsKept ==
    ASSUME IInv, Next
    PROVE  UNCHANGED admins \/ (\E r \in Requests : CreateCommit(r))
BY DEF Next, Step, Arrive, CreateCheck, ResetRow, ResetCommit, Reserve, LoginRow,
       LoginVerify, LoginCommit, LoginSucceeded, Resolve, Manage, Logout, ChangeRow,
       ChangeVerify, ChangeCommit, Fails, Tick, Quiet, vars, dbVars

LEMMA AdminsGrow == ASSUME IInv, Next PROVE admins \subseteq admins'
BY AdminsKept DEF CreateCommit

LEMMA SessionsStep == ASSUME IInv, Next PROVE SessionsRooted'
<1>a. TypeOK /\ SessionsRooted /\ KindFixed  BY DEF IInv
<1> SUFFICES ASSUME NEW s \in Requests, sessions'[s].state # "none"
             PROVE  /\ pc'[s] \in {"success", "done", "error"}
                    /\ sessions'[s].account \in admins'
  BY DEF SessionsRooted
<1>1. CASE sessions[s].state # "none"
  <2>1. pc[s] \in {"success", "done", "error"} /\ sessions[s].account \in admins
    BY <1>a, <1>1 DEF SessionsRooted
  <2>2. sessions'[s].account \in admins'  BY <1>1, <2>1, SessionsKept, AdminsGrow
  <2>3. pc'[s] = pc[s] \/ pc'[s] = "done"
    <3>1. CASE UNCHANGED <<pc, op>>  BY <3>1
    <3>2. ASSUME NEW r \in Requests, Arrive(r) \/ Step(r) \/ Fails(r),
                 \A q \in Requests : q # r => pc'[q] = pc[q] /\ op'[q] = op[q]
          PROVE  pc'[s] = pc[s] \/ pc'[s] = "done"
      <4>1. CASE r # s  BY <3>2, <4>1
      <4>2. CASE r = s
        <5>1. LoginSucceeded(s)
          BY <2>1, <3>2, <4>2 DEF Step, Arrive, CreateCheck, CreateCommit, ResetRow, ResetCommit,
             Reserve, LoginRow, LoginVerify, LoginCommit, Resolve, Manage, Logout, ChangeRow,
             ChangeVerify, ChangeCommit, Fails, Answered
        <5> QED  BY <1>a, <5>1 DEF LoginSucceeded, Goto, TypeOK
      <4> QED  BY <4>1, <4>2
    <3> QED  BY <3>1, <3>2, OneMoves
  <2> QED  BY <2>1, <2>2, <2>3
<1>2. CASE sessions[s].state = "none"
  <2>1. LoginCommit(s)  BY <1>2, SessionsKept
  <2>2. pc'[s] \in {"success", "error"}  BY <1>a, <2>1 DEF LoginCommit, CommitAnswered, Goto, TypeOK
  <2>3. sessions'[s].account = AccountOf(s)  BY <1>a, <2>1 DEF LoginCommit, TypeOK
  <2>4. AccountOf(s) \in admins  BY <2>1 DEF LoginCommit, IInv, ReadIsCurrent, Holding
  <2> QED  BY <2>2, <2>3, <2>4, AdminsGrow
<1> QED  BY <1>1, <1>2

-----------------------------------------------------------------------------
(* The locks and what they protect. *)

\* Who holds a row keeps it until it leaves the points between read and write.
LEMMA RowLockKept ==
    ASSUME IInv, Next, NEW a \in Accounts, NEW q \in Requests, rowLock[a] = q, pc'[q] \in Holding
    PROVE  rowLock'[a] = q
<1>a. TypeOK /\ KindFixed /\ TokensIssued  BY DEF IInv
<1>b. q # NoRequest  BY NullsAssumption
<1>1. CASE UNCHANGED rowLock  BY <1>1
<1>2. ASSUME NEW r \in Requests, op[r].kind # "none", LockAndRead(r) PROVE rowLock'[a] = q
  <2>1. AccountOf(r) \in Accounts  BY <1>a, <1>2, AccountKnown
  <2>2. a # AccountOf(r)  BY <1>b, <1>2 DEF LockAndRead
  <2> QED  BY <1>a, <1>2, <2>1, <2>2 DEF LockAndRead, TypeOK
<1>3. ASSUME NEW r \in Requests, Unlock(r), r # q PROVE rowLock'[a] = q
  BY <1>3 DEF Unlock
<1>4. ASSUME NEW r \in Requests, Unlock(r),
             CreateCommit(r) \/ ResetCommit(r) \/ LoginVerify(r) \/ LoginCommit(r)
                \/ ChangeVerify(r) \/ ChangeCommit(r) \/ Fails(r)
      PROVE  rowLock'[a] = q
  <2>1. CASE r # q  BY <1>3, <1>4, <2>1
  <2>2. CASE r = q
    <3>1. pc'[r] \notin Holding \/ LoginVerify(r) \/ ChangeVerify(r)
      BY <1>4, <1>a DEF CreateCommit, ResetCommit, LoginCommit, ChangeCommit, Fails,
                        CommitAnswered, Goto, TypeOK, Holding
    <3>2. ASSUME LoginVerify(r) PROVE UNCHANGED rowLock
      BY <1>a, <2>2, <3>2 DEF LoginVerify, Goto, TypeOK, Holding, locks
    <3>3. ASSUME ChangeVerify(r) PROVE UNCHANGED rowLock
      BY <1>a, <2>2, <3>3 DEF ChangeVerify, Goto, TypeOK, Holding, locks
    <3> QED  BY <1>1, <2>2, <3>1, <3>2, <3>3
  <2> QED  BY <2>1, <2>2
<1>5. \/ UNCHANGED rowLock
      \/ \E r \in Requests : op[r].kind # "none" /\ LockAndRead(r)
      \/ \E r \in Requests : /\ Unlock(r)
                             /\ CreateCommit(r) \/ ResetCommit(r) \/ LoginVerify(r) \/ LoginCommit(r)
                                  \/ ChangeVerify(r) \/ ChangeCommit(r) \/ Fails(r)
  <2> USE DEF locks
  <2>1. CASE \E r \in Requests : Arrive(r) \/ CreateCheck(r) \/ Reserve(r) \/ LoginSucceeded(r)
                                   \/ Resolve(r) \/ Manage(r) \/ Logout(r)
    BY <2>1 DEF Arrive, CreateCheck, Reserve, LoginSucceeded, Resolve, Manage, Logout
  <2>2. CASE \E r \in Requests : ResetRow(r) \/ LoginRow(r) \/ ChangeRow(r)
    BY <2>2, <1>a DEF ResetRow, LoginRow, ChangeRow, KindFixed
  <2>3. CASE \E r \in Requests : CreateCommit(r) \/ ResetCommit(r) \/ LoginVerify(r)
                 \/ LoginCommit(r) \/ ChangeVerify(r) \/ ChangeCommit(r) \/ Fails(r)
    <3>1. PICK r \in Requests : CreateCommit(r) \/ ResetCommit(r) \/ LoginVerify(r)
                 \/ LoginCommit(r) \/ ChangeVerify(r) \/ ChangeCommit(r) \/ Fails(r)
      BY <2>3
    <3>2. LoginVerify(r) => Unlock(r) \/ UNCHANGED rowLock  BY DEF LoginVerify
    <3>3. ChangeVerify(r) => Unlock(r) \/ UNCHANGED rowLock  BY DEF ChangeVerify
    <3>4. CreateCommit(r) \/ ResetCommit(r) \/ LoginCommit(r) \/ ChangeCommit(r) \/ Fails(r) =>
             Unlock(r)
      BY DEF CreateCommit, ResetCommit, LoginCommit, ChangeCommit, Fails
    <3> QED  BY <3>1, <3>2, <3>3, <3>4
  <2>4. CASE Tick \/ Quiet  BY <2>4 DEF Tick, Quiet, vars
  <2> QED  BY <2>1, <2>2, <2>3, <2>4 DEF Next, Step
<1> QED  BY <1>1, <1>2, <1>4, <1>5

\* The password of an existing account is written by who holds its row.
LEMMA EpochKept ==
    ASSUME IInv, Next, NEW a \in admins, epoch'[a] # epoch[a]
    PROVE  \E r \in Requests : /\ ResetCommit(r) \/ ChangeCommit(r)
                               /\ a = AccountOf(r)
                               /\ rowLock[a] = r
<1>a. TypeOK /\ KindFixed /\ TokensIssued /\ ReadIsCurrent /\ InsertGuarded  BY DEF IInv
<1>1. PICK r \in Requests : CreateCommit(r) \/ ResetCommit(r) \/ ChangeCommit(r)
  BY DEF Next, Step, Arrive, CreateCheck, ResetRow, Reserve, LoginRow, LoginVerify, LoginCommit,
         LoginSucceeded, Resolve, Manage, Logout, ChangeRow, ChangeVerify, Fails, Tick, Quiet,
         vars, dbVars
<1>2. ~CreateCommit(r)  BY <1>a DEF CreateCommit, InsertGuarded
<1>3. AccountOf(r) \in Accounts /\ rowLock[AccountOf(r)] = r
  BY <1>1, <1>2, <1>a, AccountKnown DEF ResetCommit, ChangeCommit, ReadIsCurrent, Holding, KindFixed
<1>4. epoch' = [epoch EXCEPT ![AccountOf(r)] = @ + 1]
  BY <1>1, <1>2 DEF ResetCommit, ChangeCommit, WritePassword
<1>5. a = AccountOf(r)  BY <1>a, <1>3, <1>4 DEF TypeOK
<1> QED  BY <1>1, <1>2, <1>3, <1>5

LEMMA ReadStep == ASSUME IInv, Next PROVE ReadIsCurrent'
<1>a. TypeOK /\ KindFixed /\ TokensIssued /\ ReadIsCurrent /\ SessionsRooted  BY DEF IInv
<1> SUFFICES ASSUME NEW q \in Requests, pc'[q] \in Holding
             PROVE  /\ rowLock'[AccountOf(q)'] = q
                    /\ AccountOf(q)' \in admins'
                    /\ read'[q].epoch = epoch'[AccountOf(q)']
  BY DEF ReadIsCurrent
<1>1. CASE pc[q] \in Holding
  <2>1. op[q].kind # "none"  BY <1>a, <1>1 DEF KindFixed, Holding
  <2>2. AccountOf(q)' = AccountOf(q) /\ AccountOf(q) \in Accounts
    BY <1>a, <2>1, OperationKept, AccountKnown
  <2>3. /\ rowLock[AccountOf(q)] = q /\ AccountOf(q) \in admins
        /\ read[q].epoch = epoch[AccountOf(q)]
    BY <1>a, <1>1 DEF ReadIsCurrent
  <2>4. rowLock'[AccountOf(q)] = q  BY <2>2, <2>3, RowLockKept
  <2>5. AccountOf(q) \in admins'  BY <2>3, AdminsGrow
  <2>6. epoch'[AccountOf(q)] = epoch[AccountOf(q)]
    <3> SUFFICES ASSUME epoch'[AccountOf(q)] # epoch[AccountOf(q)] PROVE FALSE  OBVIOUS
    <3>1. ResetCommit(q) \/ ChangeCommit(q)  BY <2>3, EpochKept
    <3> QED  BY <1>a, <3>1 DEF ResetCommit, ChangeCommit, CommitAnswered, Goto, TypeOK, Holding
  <2>7. read'[q] = read[q]
    <3>1. CASE UNCHANGED read  BY <3>1
    <3>2. CASE \E r \in Requests : LockAndRead(r) /\ pc[r] \notin Holding
      BY <1>a, <1>1, <3>2 DEF LockAndRead, TypeOK
    <3>3. UNCHANGED read \/ \E r \in Requests : LockAndRead(r) /\ pc[r] \notin Holding
      BY DEF Next, Step, Arrive, CreateCheck, CreateCommit, ResetRow, ResetCommit, Reserve,
         LoginRow, LoginVerify, LoginCommit, LoginSucceeded, Resolve, Manage, Logout, ChangeRow,
         ChangeVerify, ChangeCommit, Fails, Tick, Quiet, vars, Holding
    <3> QED  BY <3>1, <3>2, <3>3
  <2> QED  BY <2>2, <2>3, <2>4, <2>5, <2>6, <2>7
<1>2. CASE pc[q] \notin Holding
  <2>1. /\ LockAndRead(q)
        /\ \/ ResetRow(q) /\ AccountOf(q) \in admins
           \/ LoginRow(q) /\ AccountOf(q) \in admins
           \/ ChangeRow(q)
    <3>1. PICK r \in Requests : (Arrive(r) \/ Step(r) \/ Fails(r)) /\ r = q
      BY <1>2, OneMoves
    <3>2. ResetRow(q) \/ LoginRow(q) \/ ChangeRow(q)
      <4>1. ~ (CreateCheck(q) \/ CreateCommit(q) \/ ResetCommit(q) \/ Reserve(q) \/ LoginVerify(q)
                 \/ LoginCommit(q) \/ LoginSucceeded(q) \/ Manage(q) \/ Logout(q)
                 \/ ChangeVerify(q) \/ ChangeCommit(q) \/ Fails(q))
        BY <1>2, <1>a DEF CreateCheck, CreateCommit, ResetCommit, Reserve,
           LoginVerify, LoginCommit, LoginSucceeded, Manage, Logout, ChangeVerify,
           ChangeCommit, Fails, Goto, CommitAnswered, TypeOK, Holding
      <4>2. ~ Arrive(q)  BY <1>2, <1>a DEF Arrive, Goto, TypeOK, Holding
      <4>3. ~ Resolve(q)  BY <1>2, <1>a DEF Resolve, Goto, TypeOK, Holding, KindFixed, ByToken
      <4> QED  BY <3>1, <4>1, <4>2, <4>3 DEF Step
    <3> QED  BY <3>2, <1>a DEF ResetRow, LoginRow, ChangeRow, Goto, TypeOK, Holding
  <2>2. op[q].kind # "none" /\ (ChangeRow(q) => op[q].kind = "change")
    BY <2>1, <1>a DEF ResetRow, LoginRow, ChangeRow, KindFixed
  <2>3. AccountOf(q)' = AccountOf(q) /\ AccountOf(q) \in Accounts
    BY <1>a, <2>2, OperationKept, AccountKnown
  <2>4. AccountOf(q) \in admins
    <3>1. CASE ChangeRow(q)
      <4>1. op[q].session \in Requests /\ sessions[op[q].session].state # "none"
        BY <1>a, <2>2, <3>1, OperationFields DEF TokensIssued, ByToken
      <4> QED  BY <1>a, <2>2, <3>1, <4>1 DEF SessionsRooted, AccountOf
    <3> QED  BY <2>1, <3>1
  <2>5. epoch' = epoch /\ admins' = admins
    BY <2>1 DEF ResetRow, LoginRow, ChangeRow, dbVars
  <2>6. rowLock'[AccountOf(q)] = q /\ read'[q].epoch = epoch[AccountOf(q)]
    BY <1>a, <2>1, <2>3 DEF LockAndRead, TypeOK
  <2> QED  BY <2>3, <2>4, <2>5, <2>6
<1> QED  BY <1>1, <1>2

LEMMA InsertStep == ASSUME IInv, Next PROVE InsertGuarded'
<1>a. TypeOK /\ InsertGuarded /\ KindFixed  BY DEF IInv
<1> SUFFICES ASSUME NEW q \in Requests, pc'[q] = "insert" PROVE createLock' = q /\ admins' = {}
  BY DEF InsertGuarded
<1>0. q # NoRequest  BY NullsAssumption
<1>1. CASE pc[q] = "insert"
  <2>1. createLock = q /\ admins = {}  BY <1>a, <1>1 DEF InsertGuarded
  <2>2. \A r \in Requests : r # q => pc[r] # "insert"  BY <1>a, <2>1 DEF InsertGuarded
  <2>3. ~ CreateCommit(q) /\ ~ Fails(q)
    BY <1>a DEF CreateCommit, Fails, CommitAnswered, Goto, TypeOK
  <2>4. \A r \in Requests : ~ CreateCommit(r)  BY <2>2, <2>3 DEF CreateCommit
  <2>5. admins' = {}  BY <2>1, <2>4, AdminsKept
  <2>6. \A r \in Requests : ~ CreateCheck(r)  BY <1>0, <2>1 DEF CreateCheck
  <2>7. ~ (ResetCommit(q) \/ LoginVerify(q) \/ LoginCommit(q) \/ ChangeVerify(q) \/ ChangeCommit(q))
    BY <1>1 DEF ResetCommit, LoginVerify, LoginCommit, ChangeVerify, ChangeCommit
  <2>8. UNCHANGED createLock \/ \E r \in Requests : r # q /\ Unlock(r)
    <3> USE DEF locks
    <3>1. CASE \E r \in Requests : Arrive(r) \/ ResetRow(r) \/ Reserve(r) \/ LoginRow(r)
                 \/ LoginSucceeded(r) \/ Resolve(r) \/ Manage(r) \/ Logout(r) \/ ChangeRow(r)
      BY <3>1 DEF Arrive, ResetRow, Reserve, LoginRow, LoginSucceeded, Resolve, Manage, Logout,
                  ChangeRow, LockAndRead
    <3>2. CASE \E r \in Requests : ResetCommit(r) \/ LoginVerify(r) \/ LoginCommit(r)
                 \/ ChangeVerify(r) \/ ChangeCommit(r) \/ Fails(r)
      <4>1. PICK r \in Requests : ResetCommit(r) \/ LoginVerify(r) \/ LoginCommit(r)
                 \/ ChangeVerify(r) \/ ChangeCommit(r) \/ Fails(r)
        BY <3>2
      <4>2. r # q  BY <2>3, <2>7, <4>1
      <4>3. Unlock(r) \/ UNCHANGED createLock
        BY <4>1 DEF ResetCommit, LoginVerify, LoginCommit, ChangeVerify, ChangeCommit, Fails
      <4> QED  BY <4>2, <4>3
    <3>3. CASE Tick \/ Quiet  BY <3>3 DEF Tick, Quiet, vars
    <3> QED  BY <2>4, <2>6, <3>1, <3>2, <3>3 DEF Next, Step
  <2>9. createLock' = q  BY <2>1, <2>8 DEF Unlock
  <2> QED  BY <2>5, <2>9
<1>2. CASE pc[q] # "insert"
  <2>1. PICK r \in Requests : (Arrive(r) \/ Step(r) \/ Fails(r)) /\ r = q
    BY <1>2, OneMoves
  <2>2. ~ (CreateCommit(q) \/ ResetRow(q) \/ ResetCommit(q) \/ Reserve(q) \/ LoginRow(q)
             \/ LoginVerify(q) \/ LoginCommit(q) \/ LoginSucceeded(q) \/ Manage(q) \/ Logout(q)
             \/ ChangeRow(q) \/ ChangeVerify(q) \/ ChangeCommit(q) \/ Fails(q))
    BY <1>2, <1>a DEF CreateCommit, ResetRow, ResetCommit, Reserve, LoginRow,
       LoginVerify, LoginCommit, LoginSucceeded, Manage, Logout, ChangeRow, ChangeVerify,
       ChangeCommit, Fails, Goto, CommitAnswered, TypeOK
  <2>3. ~ Arrive(q)  BY <1>2, <1>a DEF Arrive, Goto, TypeOK
  <2>4. ~ Resolve(q)  BY <1>2, <1>a DEF Resolve, Goto, TypeOK, KindFixed, ByToken
  <2>5. CreateCheck(q)  BY <2>1, <2>2, <2>3, <2>4 DEF Step
  <2> QED  BY <1>a, <2>5 DEF CreateCheck, Goto, TypeOK, dbVars
<1> QED  BY <1>1, <1>2

LEMMA AdminsStep == ASSUME IInv, Next PROVE AtMostOne'
<1>a. AtMostOne /\ TypeOK /\ KindFixed /\ TokensIssued  BY DEF IInv
<1>1. ASSUME NEW r \in Requests, CreateCommit(r) PROVE AtMostOne'
  <2>1. admins = {}  BY <1>1 DEF CreateCommit, IInv, InsertGuarded
  <2>2. AccountOf(r) \in Accounts  BY <1>1, <1>a, AccountKnown DEF CreateCommit, KindFixed
  <2>3. admins' = {AccountOf(r)}  BY <1>1, <2>1 DEF CreateCommit
  <2> QED  BY <2>2, <2>3 DEF AtMostOne
<1>2. CASE UNCHANGED admins  BY <1>a, <1>2 DEF AtMostOne
<1> QED  BY <1>1, <1>2, AdminsKept

LEMMA CredentialsStep == ASSUME IInv, Next PROVE OnlyCurrentCredentials'
<1>a. /\ TypeOK /\ KindFixed /\ TokensIssued /\ SessionsRooted /\ ReadIsCurrent /\ InsertGuarded
      /\ OnlyCurrentCredentials
  BY DEF IInv
<1> SUFFICES ASSUME NEW s \in Requests, sessions'[s].state = "active"
             PROVE  sessions'[s].epoch = epoch'[sessions'[s].account]
  BY DEF OnlyCurrentCredentials
<1>1. CASE sessions[s].state = "none"
  <2>1. LoginCommit(s)  BY <1>1, SessionsKept
  <2>2. sessions'[s].account = AccountOf(s) /\ sessions'[s].epoch = read[s].epoch
    BY <1>a, <2>1 DEF LoginCommit, TypeOK
  <2>3. read[s].epoch = epoch[AccountOf(s)]  BY <1>a, <2>1 DEF LoginCommit, ReadIsCurrent, Holding
  <2> QED  BY <2>1, <2>2, <2>3 DEF LoginCommit
<1>2. CASE sessions[s].state # "none"
  <2> DEFINE a == sessions[s].account
  <2>1. sessions'[s].account = a /\ a \in admins /\ a \in Accounts
    BY <1>2, <1>a, SessionsKept, SessionFields DEF SessionsRooted
  <2>2. ASSUME NEW r \in Requests, ResetCommit(r)
        PROVE  sessions'[s].epoch = epoch'[a]
    <3>1. AccountOf(r) \in Accounts  BY <2>2, <1>a, AccountKnown DEF ResetCommit, KindFixed
    <3>2. sessions' = RevokedExcept(AccountOf(r), {})  BY <2>2 DEF ResetCommit
    <3>3. sessions[s].state = "active" /\ a # AccountOf(r) /\ sessions'[s].epoch = sessions[s].epoch
      BY <1>2, <1>a, <3>1, <3>2, RevokedFields
    <3>4. epoch'[a] = epoch[a]
      BY <1>a, <2>1, <2>2, <3>1, <3>3 DEF ResetCommit, WritePassword, TypeOK
    <3> QED  BY <1>a, <3>3, <3>4 DEF OnlyCurrentCredentials
  <2>3. ASSUME NEW r \in Requests, ChangeCommit(r)
        PROVE  sessions'[s].epoch = epoch'[a]
    <3> DEFINE t == op[r].session  X == RevokedExcept(AccountOf(r), {t})
    <3>1. /\ t \in Requests /\ sessions[t].state # "none" /\ AccountOf(r) \in Accounts
          /\ AccountOf(r) = sessions[t].account
      BY <2>3, <1>a, OperationFields, AccountKnown
         DEF ChangeCommit, KindFixed, TokensIssued, ByToken, AccountOf
    <3>2. sessions' = [X EXCEPT ![t].epoch = epoch[AccountOf(r)] + 1]  BY <2>3 DEF ChangeCommit
    <3>3. /\ X \in [Requests -> Session \cup {NoSession}]
          /\ X[s].epoch = sessions[s].epoch
          /\ X[s].state = "active" => sessions[s].state = "active" /\ (a = AccountOf(r) => s = t)
      BY <1>2, <1>a, <3>1, RevokedFields
    <3>4. epoch' = [epoch EXCEPT ![AccountOf(r)] = @ + 1]  BY <2>3 DEF ChangeCommit, WritePassword
    <3>4a. X[t] \in Session
      BY <1>a, <3>1, RevokedFields DEF NoSession
    <3> HIDE DEF X, t
    <3>5. CASE s = t
      <4>1. sessions'[s].epoch = epoch[AccountOf(r)] + 1  BY <3>1, <3>2, <3>3, <3>4a, <3>5 DEF Session
      <4>2. a = AccountOf(r)  BY <3>1, <3>5
      <4> QED  BY <1>a, <2>1, <3>4, <4>1, <4>2 DEF TypeOK
    <3>6. CASE s # t
      <4>1. sessions'[s] = X[s]  BY <3>1, <3>2, <3>3, <3>6
      <4>2. sessions[s].state = "active" /\ a # AccountOf(r)  BY <3>3, <3>6, <4>1
      <4>3. epoch'[a] = epoch[a]  BY <1>a, <2>1, <3>1, <3>4, <4>2 DEF TypeOK
      <4> QED  BY <1>a, <3>3, <4>1, <4>2, <4>3 DEF OnlyCurrentCredentials
    <3> QED  BY <3>5, <3>6
  <2>4. ASSUME \A r \in Requests : ~ ResetCommit(r) /\ ~ ChangeCommit(r)
        PROVE  sessions'[s].epoch = epoch'[a]
    <3>1. epoch'[a] = epoch[a]  BY <2>1, <2>4, EpochKept
    <3>2. sessions'[s].epoch = sessions[s].epoch /\ sessions[s].state = "active"
      <4>1. CASE UNCHANGED sessions  BY <4>1
      <4>2. ASSUME NEW r \in Requests, LoginCommit(r) PROVE sessions'[s] = sessions[s]
        <5>1. r # s  BY <1>2, <1>a, <4>2 DEF LoginCommit, SessionsRooted
        <5> QED  BY <1>a, <4>2, <5>1 DEF LoginCommit, TypeOK
      <4>3. ASSUME NEW r \in Requests, Logout(r) PROVE sessions'[s] = sessions[s]
        <5>1. op[r].session \in Requests /\ sessions[op[r].session].state # "none"
          BY <4>3, <1>a, OperationFields DEF Logout, KindFixed, TokensIssued, ByToken
        <5>2. sessions[op[r].session] \in Session  BY <1>a, <5>1, SessionFields
        <5>3. op[r].session # s
          BY <1>a, <4>3, <5>1, <5>2 DEF Logout, TypeOK, Session
        <5> QED  BY <1>a, <4>3, <5>1, <5>3 DEF Logout, TypeOK
      <4>4. UNCHANGED sessions \/ \E r \in Requests : LoginCommit(r) \/ Logout(r)
        BY <2>4 DEF Next, Step, Arrive, CreateCheck, CreateCommit, ResetRow, Reserve, LoginRow,
           LoginVerify, LoginSucceeded, Resolve, Manage, ChangeRow, ChangeVerify, Fails, Tick,
           Quiet, vars, dbVars
      <4> QED  BY <4>1, <4>2, <4>3, <4>4
    <3> QED  BY <1>a, <3>1, <3>2 DEF OnlyCurrentCredentials
  <2> QED  BY <2>1, <2>2, <2>3, <2>4
<1> QED  BY <1>1, <1>2

-----------------------------------------------------------------------------
(* The limiter. *)

LEMMA CountedStep == ASSUME IInv, Next PROVE AttemptsCounted'
<1>a. TypeOK /\ KindFixed /\ AttemptsCounted  BY DEF IInv
<1> DEFINE P(k) == /\ IsFiniteSet(burst'[k])
                   /\ Cardinality(burst'[k]) <= FailureLimit
                   /\ burst'[k] # {} => failures'[k].last = now' /\ Cardinality(burst'[k]) <= failures'[k].count
                   /\ failures'[k].count >= FailureLimit => failures'[k].blocked > failures'[k].last
<1>0. ASSUME NEW k \in Keys, failures'[k] = failures[k], burst'[k] = burst[k], now' = now PROVE P(k)
  BY <1>a, <1>0 DEF AttemptsCounted
<1>1. ASSUME NEW r \in Requests, Reserve(r), ~Blocked(r), NEW k \in Keys PROVE P(k)
  <2>1. CASE k \in KeysOf(r)
    <3>1. failures'[k] = OneMore(k) /\ burst'[k] = burst[k] \cup {r} /\ now' = now
      BY <1>1, <2>1 DEF Reserve
    <3>2. /\ OneMore(k).last = now
          /\ OneMore(k).count = IF Active(k) THEN failures[k].count + 1 ELSE 1
          /\ OneMore(k).count >= FailureLimit => OneMore(k).blocked > now
      BY <1>a, OneMoreType
    <3>3. IsFiniteSet(burst[k]) /\ Cardinality(burst[k]) \in Nat
      BY <1>a, FS_CardinalityType DEF AttemptsCounted
    <3>4. /\ IsFiniteSet(burst[k] \cup {r}) /\ Cardinality(burst[k] \cup {r}) \in Nat
          /\ Cardinality(burst[k] \cup {r}) <= Cardinality(burst[k]) + 1
      <4>1. /\ IsFiniteSet(burst[k] \cup {r})
            /\ \/ Cardinality(burst[k] \cup {r}) = Cardinality(burst[k])
               \/ Cardinality(burst[k] \cup {r}) = Cardinality(burst[k]) + 1
        BY <3>3, FS_AddElement
      <4> QED  BY <3>3, <4>1
    <3>5. failures[k].count \in Nat /\ now \in Nat /\ failures[k].blocked \in Nat
      BY <1>a, TimesAssumption DEF TypeOK
    <3>6. CASE burst[k] = {}
      <4>1. Cardinality(burst[k]) = 0  BY <3>6, FS_EmptySet
      <4>2. OneMore(k).count >= 1  BY <3>2, <3>5
      <4>3. Cardinality(burst[k] \cup {r}) <= 1  BY <3>4, <4>1
      <4>4. OneMore(k).count \in Nat  BY <3>2, <3>5
      <4> HIDE DEF P
      <4> QED  BY <3>1, <3>2, <3>4, <4>2, <4>3, <4>4, LimitAssumption DEF P
    <3>7. CASE burst[k] # {}
      <4>1. failures[k].last = now /\ Cardinality(burst[k]) <= failures[k].count
        BY <1>a, <3>7 DEF AttemptsCounted
      <4>2. Cardinality(burst[k]) # 0  BY <3>3, <3>7, FS_EmptySet
      <4>3. Active(k)
        <5>1. failures[k].count > 0  BY <3>3, <3>5, <4>1, <4>2
        <5>2. now - failures[k].last <= Window  BY <3>5, <4>1, TimesAssumption
        <5> QED  BY <5>1, <5>2 DEF Active
      <4>4. ~ (failures[k].blocked > now)  BY <1>1, <2>1, <4>3 DEF Blocked
      <4>5. ~ (failures[k].count >= FailureLimit)  BY <1>a, <4>1, <4>4 DEF AttemptsCounted
      <4>6. OneMore(k).count = failures[k].count + 1  BY <3>2, <4>3
      <4>7. /\ Cardinality(burst[k] \cup {r}) <= failures[k].count + 1
            /\ failures[k].count + 1 <= FailureLimit
        BY <3>3, <3>4, <3>5, <4>1, <4>5, LimitAssumption
      <4>8. Cardinality(burst[k] \cup {r}) <= FailureLimit
        BY <3>4, <3>5, <4>7, LimitAssumption
      <4> QED  BY <3>1, <3>2, <3>4, <4>6, <4>7, <4>8
    <3> QED  BY <3>6, <3>7
  <2>2. CASE k \notin KeysOf(r)  BY <1>0, <1>1, <2>2 DEF Reserve
  <2> QED  BY <2>1, <2>2
<1>2. ASSUME NEW r \in Requests, LoginSucceeded(r), NEW k \in Keys PROVE P(k)
  <2>1. CASE k \in KeysOf(r)
    <3>1. failures'[k] = NoFailure /\ burst'[k] = {}  BY <1>2, <2>1 DEF LoginSucceeded
    <3> QED  BY <3>1, FS_EmptySet, LimitAssumption DEF NoFailure
  <2>2. CASE k \notin KeysOf(r)  BY <1>0, <1>2, <2>2 DEF LoginSucceeded
  <2> QED  BY <2>1, <2>2
<1>3. ASSUME Tick, NEW k \in Keys PROVE P(k)
  <2>1. burst'[k] = {} /\ failures'[k] = failures[k]  BY <1>3 DEF Tick
  <2> QED  BY <1>a, <2>1, FS_EmptySet, LimitAssumption DEF AttemptsCounted
<1>4. \/ UNCHANGED <<failures, burst, now>>
      \/ Tick
      \/ \E r \in Requests : LoginSucceeded(r) \/ (Reserve(r) /\ ~Blocked(r))
  BY DEF Next, Step, Arrive, CreateCheck, CreateCommit, ResetRow, ResetCommit, Reserve, LoginRow,
         LoginVerify, LoginCommit, Resolve, Manage, Logout, ChangeRow, ChangeVerify,
         ChangeCommit, Fails, Quiet, vars, limits
<1> HIDE DEF P
<1>5. \A k \in Keys : P(k)  BY <1>0, <1>1, <1>2, <1>3, <1>4
<1> QED  BY <1>5 DEF AttemptsCounted, P

-----------------------------------------------------------------------------
(* The theorems. *)

\* The inductive invariant holds in every reachable state.
THEOREM Invariance == Spec => []IInv
<1>1. Init => IInv  BY InitIInv
<1>2. IInv /\ [Next]_vars => IInv'
  <2> SUFFICES ASSUME IInv, [Next]_vars PROVE IInv'  OBVIOUS
  <2>1. CASE Next
    BY <2>1, TypeStep, KindStep, TokensStep, SessionsStep, ReadStep, InsertStep, AdminsStep,
       CredentialsStep, CountedStep DEF IInv
  <2>2. CASE UNCHANGED vars
    <3>1. /\ UNCHANGED <<admins, password, must, epoch, sessions, audit, rowLock, createLock>>
          /\ UNCHANGED <<failures, burst, now, pc, op, read>>
      BY <2>2 DEF vars, dbVars, locks, limits
    <3>2. TypeOK' /\ KindFixed' /\ TokensIssued' /\ SessionsRooted'
      BY <3>1 DEF IInv, TypeOK, KindFixed, TokensIssued, SessionsRooted
    <3>3. ReadIsCurrent' /\ InsertGuarded' /\ AtMostOne'
      BY <3>1 DEF IInv, ReadIsCurrent, InsertGuarded, AtMostOne, AccountOf
    <3>4. OnlyCurrentCredentials' /\ AttemptsCounted'
      BY <3>1 DEF IInv, OnlyCurrentCredentials, AttemptsCounted
    <3> QED  BY <3>2, <3>3, <3>4 DEF IInv
  <2> QED  BY <2>1, <2>2
<1> QED  BY <1>1, <1>2, PTL DEF Spec

\* The tables, the locks, the limiter and the requests keep their types.
THEOREM TypeCorrect == Spec => []TypeOK
<1>1. IInv => TypeOK  BY DEF IInv
<1> QED  BY <1>1, Invariance, PTL

\* However many create-admin commands run at once, one administrator comes to
\* exist (create_admin and its advisory lock).
THEOREM OneAdministrator == Spec => []SingleAdministrator
<1>1. IInv => SingleAdministrator
  <2> SUFFICES ASSUME IInv PROVE Cardinality(admins) <= 1  BY DEF SingleAdministrator
  <2>1. CASE admins = {}  BY <2>1, FS_EmptySet
  <2>2. CASE \E a \in Accounts : admins = {a}  BY <2>2, FS_Singleton
  <2> QED  BY <2>1, <2>2 DEF IInv, AtMostOne
<1> QED  BY <1>1, Invariance, PTL

\* No session survives the password it was opened with, however logins, resets
\* and changes interleave (create_authenticated_session, change_password,
\* reset_admin_password).
THEOREM SessionsRestOnCurrentPassword == Spec => []OnlyCurrentCredentials
<1>1. IInv => OnlyCurrentCredentials  BY DEF IInv
<1> QED  BY <1>1, Invariance, PTL

\* Whatever limit, window and backoff are configured, parallel logins do not get
\* more passwords verified at one instant than the limit (reserve_attempt).
THEOREM LimiterBoundsAttempts == Spec => []AttemptsBounded
<1>1. IInv => AttemptsBounded  BY DEF IInv, AttemptsCounted, AttemptsBounded
<1> QED  BY <1>1, Invariance, PTL
=============================================================================
