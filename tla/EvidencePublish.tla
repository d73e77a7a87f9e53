--------------------------- MODULE EvidencePublish ---------------------------
(***************************************************************************)
(* The Evidence Snapshot of a pull request: the publisher job of           *)
(* evidence-publish.yml with the generator and the verifier of             *)
(* scripts/ao/evidence.py, and advisor-validate's checks of an opinion     *)
(* against them, beside an author who pushes, force-pushes and makes       *)
(* Evidence commits of his own, CI runs that succeed, fail and are run     *)
(* again, and a default branch whose CI definition moves.                  *)
(*                                                                         *)
(* Git is content-addressed: a commit is its history since the merge base, *)
(* a sequence of changes, and its SHA is that sequence.  The five files of *)
(* a snapshot are one Boolean, is it what the facts about its parent make  *)
(* the generator write?, and the time in its metadata.                     *)
(*                                                                         *)
(* Every call that reads or changes what GitHub keeps is an action of its  *)
(* own: a push may land between any two of them.  Only record_failure, and *)
(* calls whose answers the model does not keep (the review records, the    *)
(* path of the run's workflow), are part of the step before them.          *)
(***************************************************************************)
EXTENDS Naturals, SequencesExt

CONSTANTS
    Codes,         \* code changes
    Definition,    \* CI definition hash of a tree with that change last
    MaxDefinition, \* the default branch moves through 0..MaxDefinition
    MaxCommits,    \* bound: length of the branch
    MaxPushes,     \* bound: pushes of the author
    MaxRuns,       \* bound: CI runs
    MaxFaults      \* bound: failing calls and lost jobs

ASSUME CodesAssumption == Definition \in [Codes -> Nat] /\ MaxDefinition \in Nat
ASSUME BoundsAssumption ==
    MaxCommits >= 1 /\ {MaxCommits, MaxPushes, MaxRuns, MaxFaults} \subseteq Nat

Code(c)      == [kind |-> "code", id |-> c]
Snapshot(by, exact, at) == [kind |-> "evidence", by |-> by, exact |-> exact, at |-> at]
Changes == {Code(c) : c \in Codes} \cup
           {Snapshot(by, x, t) : by \in {"publisher", "author"}, x \in BOOLEAN,
                                 t \in 0..MaxPushes}
NoCommit == <<>>

VARIABLES
    \* GitHub
    head,          \* the PR branch and what GET pulls reports as its head
    base,          \* CI definition of the default branch
    passed,        \* commits whose CI run is completed and successful
    everPassed,    \* history: commits whose CI run succeeded once
    green, red,    \* latest AO / evidence-snapshot status of a commit
    pending,       \* the job waiting in the concurrency group
    \* the publisher job
    step,
    codeSha, trusted, local, read,
    fetched,       \* CI definition of the default branch as last fetched
    again,         \* the workflow will verify the skipped snapshot once more
    \* advisor-validate
    opinion, vstep, vread, vbase, valid,
    overtaken,     \* history: the branch moved after the validation's last look at it
    pushes, runs, faults

github == <<head, base, passed, everPassed, pending>>
status == <<green, red>>
facts  == <<codeSha, trusted, local, read>>
job    == <<step, facts, fetched, again>>
validation == <<opinion, vstep, vread, vbase, valid>>
advice == <<validation, overtaken>>
bounds == <<pushes, runs, faults>>
vars == <<github, status, job, advice, bounds>>

Parent(e) == Front(e)
IsEvidence(e) == e # NoCommit /\ Last(e).kind = "evidence"

(* The code of a commit: its code changes, each at its place. *)
CodeOf(e) == [i \in {j \in DOMAIN e : e[j].kind = "code"} |-> e[i]]
DefinitionOf(e) ==
    LET code == CodeOf(e)
    IN  IF DOMAIN code = {} THEN 0 ELSE Definition[code[Max(DOMAIN code)].id]

(* compare_ci_definition against a definition of the default branch. *)
SameDefinition(e, ref) == DefinitionOf(e) = ref

(* successful_ci_run: exactly this commit, completed, successful. *)
SuccessfulCi(c) == c \in passed

(* post_status: the newest status of a commit counts. *)
\* Faulty variant: a failure does not replace the status that is there.
PostBeside(oks, fails) == green' = green \cup oks /\ red' = (red \ oks) \cup fails

Post(oks, fails) == green' = (green \ fails) \cup oks /\ red' = (red \ oks) \cup fails

(* The branch changes under a validation that will not look at it again. *)
HeadMoves == overtaken' = (vstep \in {"ci", "attest", "accept"})

Fault == faults < MaxFaults /\ faults' = faults + 1

-----------------------------------------------------------------------------
Init ==
    /\ \E c \in Codes : head = <<Code(c)>>
    /\ base = 0 /\ passed = {} /\ everPassed = {} /\ pending = NoCommit
    /\ green = {} /\ red = {}
    /\ step = "idle" /\ codeSha = NoCommit /\ trusted = 0
    /\ local = NoCommit /\ read = NoCommit /\ fetched = 0 /\ again = FALSE
    /\ opinion = NoCommit /\ vstep = "idle" /\ vread = NoCommit /\ vbase = 0
    /\ valid = {} /\ overtaken = FALSE
    /\ pushes = 0 /\ runs = 0 /\ faults = 0

(* The author pushes a commit, or resets the branch to an earlier one. *)
AuthorPush ==
    /\ pushes < MaxPushes /\ pushes' = pushes + 1
    /\ \/ /\ Len(head) < MaxCommits
          /\ \E x \in {Code(c) : c \in Codes} \cup
                     {Snapshot("author", exact, pushes) : exact \in BOOLEAN} :
                head' = Append(head, x)
       \/ \E n \in 1..(Len(head) - 1) : head' = SubSeq(head, 1, n)
    /\ HeadMoves
    /\ UNCHANGED <<base, passed, everPassed, pending, status, job, validation, runs, faults>>

(* A CI run of the head is completed; GitHub starts none for a push with   *)
(* the publisher's GITHUB_TOKEN.  A success asks for a publisher job,      *)
(* which takes the place of the one that waits in its concurrency group.   *)
CiCompletes ==
    /\ runs < MaxRuns /\ runs' = runs + 1
    /\ \E c \in {head, codeSha} \ {NoCommit} :
        /\ IsEvidence(c) => Last(c).by = "author"
        /\ \/ /\ passed' = passed \cup {c} /\ everPassed' = everPassed \cup {c}
              /\ pending' = c
           \/ passed' = passed \ {c} /\ UNCHANGED <<everPassed, pending>>
    /\ UNCHANGED <<head, base, status, job, advice, pushes, faults>>

(* A reviewed change of the CI definition reaches the default branch. *)
BaseMoves ==
    /\ base < MaxDefinition /\ base' = base + 1
    /\ UNCHANGED <<head, passed, everPassed, pending, status, job, advice, bounds>>

-----------------------------------------------------------------------------
(* The job ends; what it knew is gone. *)
JobOver ==
    /\ step' = "idle" /\ codeSha' = NoCommit /\ trusted' = 0
    /\ local' = NoCommit /\ read' = NoCommit /\ fetched' = 0 /\ again' = FALSE

Goto(next) == step' = next
(* record_failure on ERR: the current head and the code commit turn red. *)
JobFails == JobOver /\ Post({}, {head, codeSha})

(* checkout of the default branch. *)
StartJob ==
    /\ step = "idle" /\ pending # NoCommit
    /\ Goto("candidate") /\ codeSha' = pending /\ trusted' = base
    /\ pending' = NoCommit
    /\ UNCHANGED <<head, base, passed, everPassed, status, local, read, fetched, again,
                   advice, bounds>>

(* checkout of the branch, and ci-verify-definition of the code commit     *)
(* (compare_ci_definition): it must be in the candidate's history, and a   *)
(* definition of its own is answered with a failure status.                *)
VerifyDefinition ==
    /\ step = "candidate"
    /\ IF IsPrefix(codeSha, head) /\ SameDefinition(codeSha, trusted)
         THEN /\ Goto("generate") /\ local' = head
              /\ UNCHANGED <<status, codeSha, trusted, read, fetched, again>>
         ELSE /\ JobOver
              /\ Post({}, {codeSha} \cup IF IsPrefix(codeSha, head) THEN {} ELSE {head})
    /\ UNCHANGED <<github, advice, bounds>>

(* generate: an Evidence-only HEAD is never described again; it is         *)
(* verified, here and once more by the workflow, and skipped.  Otherwise   *)
(* the PR is read.                                                         *)
\* Faulty variant: an Evidence-only HEAD is described like any other.
NeverEvidenceOnly == FALSE

EvidenceOnlyHead == IsEvidence(local)

ReadPullRequest ==
    /\ step = "generate"
    /\ IF EvidenceOnlyHead
         THEN Goto("verify") /\ again' = TRUE /\ UNCHANGED read
         ELSE Goto("fetch") /\ read' = head /\ UNCHANGED again
    /\ UNCHANGED <<github, status, codeSha, trusted, local, fetched, advice, bounds>>

(* _require_checked_out_code_commit. *)
CheckedOut == local = read /\ head = read

(* fetch of both branches; the fetched default branch has the definition   *)
(* of the trusted checkout.                                                *)
GenerateFetches ==
    /\ step = "fetch"
    /\ IF CheckedOut /\ base = trusted
         THEN Goto("build") /\ UNCHANGED <<status, facts, fetched, again>>
         ELSE JobFails
    /\ UNCHANGED <<github, advice, bounds>>

(* successful_ci_run for exactly this commit and run; the snapshot is      *)
(* written and committed.                                                  *)
Generate ==
    /\ step = "build"
    /\ IF read = codeSha /\ SuccessfulCi(codeSha)
         THEN /\ Goto("push") /\ local' = Append(read, Snapshot("publisher", TRUE, pushes))
              /\ UNCHANGED <<status, codeSha, trusted, read, fetched, again>>
         ELSE JobFails
    /\ UNCHANGED <<github, advice, bounds>>

(* git push without --force: accepted when it is a fast-forward, that is   *)
(* when the branch, wherever it is now, is an ancestor of the new commit.  *)
\* Faulty variant: a forced push.
PushForced ==
    /\ step = "push"
    /\ Goto("verify") /\ head' = local /\ HeadMoves
    /\ UNCHANGED <<base, passed, everPassed, pending, status, facts, fetched, again,
                   validation, bounds>>

Push ==
    /\ step = "push"
    /\ IF IsPrefix(head, local)
         THEN /\ Goto("verify") /\ head' = local /\ HeadMoves
              /\ UNCHANGED <<status, facts, fetched, again>>
         ELSE JobFails /\ UNCHANGED <<head, overtaken>>
    /\ UNCHANGED <<base, passed, everPassed, pending, validation, bounds>>

-----------------------------------------------------------------------------
(* verify_evidence_head, by the job and by advisor-validate: the PR is     *)
(* read, both branches are fetched, the CI run is read and the five files  *)
(* are compared with what the facts make them.                             *)
\* Faulty variant: the fetched branch may have moved on from the Evidence commit.
FetchedAnyHead(e) == TRUE

FetchedHeadIs(e) == head = e

Reconstructed(e) == SuccessfulCi(Parent(e)) /\ Last(e).exact

(* Its last part, for a skip and for an opinion: the fetched definition is *)
(* the code's, and a green status of the publisher is already there.       *)
\* Faulty variant: an Evidence-only head needs no earlier attestation.
AttestedUnchecked(e, ref) == SameDefinition(e, ref)

Attested(e, ref) == SameDefinition(e, ref) /\ e \in green

VerifyReadsHead ==
    /\ step = "verify"
    /\ IF head = local
         THEN Goto("refetch") /\ UNCHANGED <<status, facts, fetched, again>>
         ELSE JobFails
    /\ UNCHANGED <<github, advice, bounds>>

VerifyFetches ==
    /\ step = "refetch"
    /\ IF FetchedHeadIs(local)
         THEN Goto("ci") /\ fetched' = base /\ UNCHANGED <<status, facts, again>>
         ELSE JobFails
    /\ UNCHANGED <<github, advice, bounds>>

(* A job that generated needs no attestation: it is the one that mints it. *)
VerifyReconstructs ==
    /\ step = "ci"
    /\ IF Reconstructed(local) /\ fetched = trusted
         THEN /\ Goto(IF read = NoCommit THEN "attest" ELSE "post")
              /\ UNCHANGED <<status, facts, fetched, again>>
         ELSE JobFails
    /\ UNCHANGED <<github, advice, bounds>>

VerifyAttested ==
    /\ step = "attest"
    /\ \/ /\ Attested(local, fetched) /\ again
          /\ Goto("verify") /\ again' = FALSE /\ UNCHANGED <<status, facts, fetched>>
       \/ Attested(local, fetched) /\ ~again /\ JobOver /\ UNCHANGED status
       \/ ~Attested(local, fetched) /\ JobFails
    /\ UNCHANGED <<github, advice, bounds>>

PostEvidence ==
    /\ step = "post"
    /\ Goto("postcode") /\ Post({local}, {})
    /\ UNCHANGED <<github, facts, fetched, again, advice, bounds>>

PostCode ==
    /\ step = "postcode"
    /\ JobOver /\ Post({codeSha}, {})
    /\ UNCHANGED <<github, advice, bounds>>

(* A call fails anywhere, record_failure's own calls perhaps too, or the   *)
(* runner is lost with the job.                                            *)
CallFails ==
    /\ step # "idle" /\ Fault /\ JobOver
    /\ \E told \in SUBSET {head, codeSha} : Post({}, told)
    /\ UNCHANGED <<github, advice, pushes, runs>>

-----------------------------------------------------------------------------
(* advisor-run binds an opinion to the Evidence commit at the head of the  *)
(* branch, a direct child of the code commit its metadata names            *)
(* (_resolve_evidence_commit).                                             *)
Advise ==
    /\ opinion = NoCommit /\ IsEvidence(head)
    /\ opinion' = head
    /\ UNCHANGED <<github, status, job, vstep, vread, vbase, valid, overtaken, bounds>>

(* validate_advisor_opinion: the head is read and fetched; the bound       *)
(* Evidence must be in it with no code after it; then the trusted snapshot *)
(* verification of the bound commit with its prior attestation, which      *)
(* reads and fetches the head itself.                                      *)
ValidateRead ==
    /\ opinion # NoCommit /\ vstep = "idle" /\ opinion \notin valid
    /\ vstep' = "fetch" /\ vread' = head
    /\ UNCHANGED <<github, status, job, opinion, vbase, valid, overtaken, bounds>>

(* One reading of the validation: it goes on, or the opinion is refused. *)
Reading(ok, next) ==
    /\ vstep' = IF ok THEN next ELSE "idle"
    /\ vread' = NoCommit
    /\ UNCHANGED <<github, status, job, opinion, valid, bounds>>

Refused == vbase' = 0 /\ overtaken' = FALSE

ValidateFetch ==
    /\ vstep = "fetch"
    /\ Reading(/\ head = vread /\ IsPrefix(opinion, vread)
               /\ CodeOf(vread) = CodeOf(opinion), "verify")
    /\ UNCHANGED <<vbase, overtaken>>

ValidateReadsHead ==
    /\ vstep = "verify"
    /\ Reading(head = opinion, "refetch")
    /\ UNCHANGED <<vbase, overtaken>>

ValidateFetches ==
    /\ vstep = "refetch"
    /\ Reading(FetchedHeadIs(opinion), "ci")
    /\ vbase' = IF FetchedHeadIs(opinion) THEN base ELSE 0
    /\ UNCHANGED overtaken

ValidateReconstructs ==
    /\ vstep = "ci"
    /\ Reading(Reconstructed(opinion), "attest")
    /\ IF Reconstructed(opinion) THEN UNCHANGED <<vbase, overtaken>> ELSE Refused

ValidateAttested ==
    /\ vstep = "attest"
    /\ Reading(Attested(opinion, vbase), "accept")
    /\ IF Attested(opinion, vbase) THEN UNCHANGED <<vbase, overtaken>> ELSE Refused

(* The lifecycle of the opinion's run (AdvisorWorkspace) is looked up      *)
(* locally, and the result is recorded.                                    *)
Accept ==
    /\ vstep = "accept"
    /\ vstep' = "idle" /\ valid' = valid \cup {opinion} /\ Refused
    /\ UNCHANGED <<github, status, job, opinion, vread, bounds>>

(* A call or the lifecycle's check fails. *)
ValidateFails ==
    /\ vstep # "idle"
    /\ Reading(FALSE, "idle") /\ Refused

Publish ==
    \/ StartJob \/ VerifyDefinition \/ ReadPullRequest \/ GenerateFetches \/ Generate \/ Push
    \/ VerifyReadsHead \/ VerifyFetches \/ VerifyReconstructs \/ VerifyAttested
    \/ PostEvidence \/ PostCode

Validate ==
    \/ ValidateRead \/ ValidateFetch \/ ValidateReadsHead \/ ValidateFetches
    \/ ValidateReconstructs \/ ValidateAttested \/ Accept \/ ValidateFails

Next ==
    \/ AuthorPush \/ CiCompletes \/ BaseMoves
    \/ Publish \/ CallFails
    \/ Advise \/ Validate

Spec == Init /\ [][Next]_vars

-----------------------------------------------------------------------------
Commit(e) == e \in Seq(Changes) /\ Len(e) <= MaxCommits + 1

(* The state is well typed and a status is either green or red. *)
TypeOK ==
    /\ \A e \in {head, codeSha, local, read, pending, opinion, vread} \cup passed \cup valid
                 \cup green \cup red : Commit(e)
    /\ passed \subseteq everPassed
    /\ green \cap red = {}
    /\ base \in 0..MaxDefinition /\ {trusted, fetched, vbase} \subseteq 0..base
    /\ step \in {"idle", "candidate", "generate", "fetch", "build", "push",
                 "verify", "refetch", "ci", "attest", "post", "postcode"}
    /\ vstep \in {"idle", "fetch", "verify", "refetch", "ci", "attest", "accept"}
    /\ again \in BOOLEAN /\ overtaken \in BOOLEAN
    /\ pushes \in 0..MaxPushes /\ runs \in 0..MaxRuns /\ faults \in 0..MaxFaults

(* A snapshot that really describes tested code: made by the publisher, on *)
(* top of a code commit whose CI succeeded under a definition that the     *)
(* default branch had reached.                                             *)
Genuine(e) ==
    /\ Last(e).by = "publisher"
    /\ ~IsEvidence(Parent(e))
    /\ Parent(e) \in everPassed
    /\ DefinitionOf(e) <= base

(* No Evidence commit of the author, no snapshot of untested code, of      *)
(* another Evidence commit or of a foreign CI definition is ever green, or *)
(* carries an opinion that advisor-validate accepts (verify_evidence_head, *)
(* evidence-publish.yml, validate_advisor_opinion).                        *)
OnlyGenuineAttested ==
    \A e \in green \cup valid : IsEvidence(e) => Genuine(e)

(* The publisher only adds: no commit that is on the branch at the moment  *)
(* of its push is lost, so that what the author pushed while the snapshot  *)
(* was written stays, and what it adds describes tested code and never     *)
(* Evidence, so that publishing ends (generate, _evidence_only_head).      *)
PublisherOnlyAddsToTestedCode ==
    [][head' # head /\ pushes' = pushes =>
          /\ IsPrefix(head, head')
          /\ IsEvidence(head') /\ ~IsEvidence(Parent(head')) /\ Parent(head') \in everPassed]_vars

(* What scripts/ao/README.md says of the push: an update of the pull       *)
(* request while the snapshot was written makes it fail, so the branch is  *)
(* still at the commit that the snapshot describes.                        *)
ConcurrentUpdateFailsPush ==
    [][head' # head /\ pushes' = pushes => head = Parent(head')]_vars

(* An opinion is accepted on the code that the pull request has, unless a  *)
(* push lands after the validation's last look at the branch: a push       *)
(* before that, between any two of its calls, is always noticed            *)
(* (validate_advisor_opinion, verify_evidence_head).                       *)
AcceptedUnlessOvertaken ==
    [][\A e \in valid' \ valid : CodeOf(head) = CodeOf(e) \/ overtaken]_vars
=============================================================================
