----------------------------- MODULE ReviewGate -----------------------------
(***************************************************************************)
(* The merge gate of scripts/ao/review_gate.py.  evaluate_review_gate      *)
(* reads a pull request, its commits, reviews, CI results and the Compare  *)
(* of base and final code commit with one API call after the other, while  *)
(* authors push and force-push, the base branch moves, reviews come and    *)
(* are dismissed and CI runs start and end.                                *)
(*                                                                         *)
(* Git is content-addressed: a commit is the sequence of the trees from    *)
(* the first commit to it, and its SHA is that sequence.  A tree gives     *)
(* every path its content.  GitHub is taken to answer truthfully, so that  *)
(* the branches for malformed answers are not here.                        *)
(***************************************************************************)
EXTENDS Naturals, SequencesExt

CONSTANTS
    Paths, Evidence,  \* paths, and those below docs/evidence/
    Absent,           \* content of a path that is not in a tree
    Trees,            \* the trees that occur
    FirstTree,        \* the base branch when the pull request is opened
    Jobs,             \* REQUIRED_CI_JOBS
    Opinions,         \* reviews as [trusted, verdict]; "none" has no heading
    MaxLength,        \* bound: trees in a history
    MaxEvents,        \* bound: changes made to the pull request
    MaxRaces          \* bound: how many of them while the command runs

ASSUME PathsAssumption == Evidence \subseteq Paths
ASSUME TreesAssumption == FirstTree \in Trees /\ \A t \in Trees : DOMAIN t = Paths
ASSUME OpinionsAssumption ==
    Opinions \subseteq [trusted : BOOLEAN, verdict : {"approved", "changes_requested", "none"}]
ASSUME BoundsAssumption == {MaxLength, MaxEvents, MaxRaces} \subseteq Nat

VARIABLES
    head, base,       \* GET pulls
    reviews,          \* submitted reviews, oldest first
    checks,           \* check runs in the order of completed_at or started_at
    statuses,         \* commit statuses, oldest first
    step,             \* the next call of evaluate_review_gate
    pr,               \* initial_pr
    root,             \* commits[0].parent_sha
    verdict, ci, gap, \* _final_verdict, final_ci, evidence_gap
    answer,           \* what the command says at its end
    events, races     \* changes made, and made while the command ran

github == <<head, base, reviews, checks, statuses>>
locals == <<pr, root, verdict, ci, gap>>
vars == <<github, step, locals, answer, events, races>>

NoCommit == <<>>
NoPr     == [head |-> NoCommit, base |-> NoCommit]
Terminal == {"success", "failure"}

-----------------------------------------------------------------------------
Parent(c) == Front(c)
Tree(c)   == Last(c)
UpTo(c, n) == SubSeq(c, 1, n)
MergeBase(c, d) == UpTo(c, Max({n \in 0..Len(c) : IsPrefix(UpTo(c, n), d)}))

(* The files of a commit or of a Compare: a path that vanishes while its   *)
(* content appears under another name is renamed.                          *)
Moves(old, new) ==
    {m \in Paths \X Paths : /\ old[m[1]] # Absent /\ new[m[1]] = Absent
                            /\ old[m[2]] = Absent /\ new[m[2]] = old[m[1]]}
Renamed(old, new) ==
    LET pairings == {R \in SUBSET Moves(old, new) :
                        \A m, n \in R : (m[1] = n[1]) = (m[2] = n[2])}
    IN  CHOOSE R \in pairings : \A S \in pairings : R \subseteq S => S = R

File(name, was, status) == [name |-> name, was |-> was, status |-> status]
Files(old, new) ==
    LET moved == Renamed(old, new)
        left == {m[1] : m \in moved}
        met  == {m[2] : m \in moved}
    IN  {File(m[2], m[1], "renamed") : m \in moved} \cup
        {File(p, p, "added") : p \in {q \in Paths \ met : old[q] = Absent /\ new[q] # Absent}} \cup
        {File(p, p, "removed") : p \in {q \in Paths \ left : old[q] # Absent /\ new[q] = Absent}} \cup
        {File(p, p, "modified") : p \in {q \in Paths : /\ Absent \notin {old[q], new[q]}
                                                       /\ old[q] # new[q]}}

(* ReviewFile.paths. *)
\* Faulty variant: the name before a rename is forgotten.
NewName(f) == {f.name}

PathsOf(f) == {f.name, f.was}

(* ReviewCommit.classification. *)
Classification(c) ==
    LET files == Files(Tree(Parent(c)), Tree(c)) IN
    CASE Tree(c) = Tree(Parent(c)) -> "NOOP"
      [] Tree(c) # Tree(Parent(c)) /\ \A f \in files : PathsOf(f) \subseteq Evidence -> "METADATA"
      [] OTHER -> "CODE"

(* final_code_sha: the last CODE commit after the parent of the first one. *)
FinalCode(c, from) ==
    LET code == {n \in (Len(from) + 1)..Len(c) : Classification(UpTo(c, n)) = "CODE"}
    IN  IF code = {} THEN NoCommit ELSE UpTo(c, Max(code))

(* _persistent_introduced_paths: METADATA commits are passed over. *)
Introduced(from, c) ==
    LET files(n) == Files(Tree(UpTo(c, n - 1)), Tree(UpTo(c, n)))
        after[n \in Len(from)..Len(c)] ==
            IF n = Len(from) THEN {}
            ELSE IF Classification(UpTo(c, n)) # "CODE" THEN after[n - 1]
            ELSE LET gone == {f \in files(n) : f.status \in {"removed", "renamed"}}
                     come == {f \in files(n) : \/ f.status = "added"
                                               \/ f.status = "renamed" /\ f.was \in after[n - 1]}
                 IN  (after[n - 1] \ {f.was : f \in gone}) \cup {f.name : f \in come}
    IN  after[Len(c)]

(* _final_verdict with _review_verdict of the latest trusted review. *)
\* Faulty variant: a dismissed review still counts.
VerdictOfAll(c) ==
    LET trusted == SelectSeq(reviews, LAMBDA r : r.commit = c /\ r.trusted)
    IN  IF trusted = <<>> THEN "missing" ELSE
        IF Last(trusted).verdict = "none" THEN "indeterminate" ELSE Last(trusted).verdict

FinalVerdict(c) ==
    LET submitted == SelectSeq(reviews, LAMBDA r : r.commit = c /\ ~r.dismissed)
        trusted == SelectSeq(submitted, LAMBDA r : r.trusted)
    IN  CASE submitted = <<>> -> "missing"
          [] submitted # <<>> /\ trusted = <<>> -> "untrusted"
          [] trusted # <<>> /\ Last(trusted).verdict = "none" -> "indeterminate"
          [] OTHER -> Last(trusted).verdict

About(seen, c, j) == SelectSeq(seen, LAMBDA o : o.commit = c /\ o.job = j)

(* _latest_observations of the check runs of one job: the newest terminal  *)
(* one, else the newest.                                                   *)
\* Faulty variant: the newest observation, whatever its state.
NewestCheck(c, j) ==
    LET runs == About(checks, c, j)
    IN  IF runs = <<>> THEN "missing" ELSE Last(runs).state

LatestCheck(c, j) ==
    LET runs == About(checks, c, j)
        ended == SelectSeq(runs, LAMBDA o : o.state \in Terminal)
    IN  CASE runs = <<>> -> "missing"
          [] runs # <<>> /\ ended = <<>> -> Last(runs).state
          [] OTHER -> Last(ended).state

(* The statuses of a commit: GitHub lists the newest one of a context. *)
LatestStatus(c, j) ==
    LET posted == About(statuses, c, j)
    IN  IF posted = <<>> THEN "missing" ELSE Last(posted).state

-----------------------------------------------------------------------------
Init ==
    /\ base = <<FirstTree>>
    /\ \E t, u \in Trees : head \in {<<FirstTree, t>>, <<FirstTree, t, u>>}
    /\ reviews = <<>> /\ checks = <<>> /\ statuses = <<>>
    /\ step = "pr" /\ pr = NoPr /\ root = NoCommit
    /\ verdict = "missing" /\ ci = [j \in Jobs |-> "missing"] /\ gap = FALSE
    /\ answer = "none" /\ events = 0 /\ races = 0

Change ==
    /\ step # "over" /\ events < MaxEvents /\ events' = events + 1
    /\ IF step = "pr" THEN UNCHANGED races ELSE races < MaxRaces /\ races' = races + 1
    /\ UNCHANGED <<step, locals, answer>>

(* The author pushes a commit, amends or drops commits, or rebases them    *)
(* onto the base branch as one.                                            *)
Push ==
    /\ Change
    /\ \/ \E n \in Len(MergeBase(head, base))..Len(head), t \in Trees :
            n < MaxLength /\ head' = Append(UpTo(head, n), t)
       \/ \E t \in Trees : Len(base) < MaxLength /\ head' = Append(base, t)
    /\ head' # head /\ ~IsPrefix(head', base)
    /\ UNCHANGED <<base, reviews, checks, statuses>>

(* Another pull request is merged, or the first commits of this one are. *)
BaseMoves ==
    /\ Change
    /\ \/ \E t \in Trees : Len(base) < MaxLength - 1 /\ base' = Append(base, t)
       \/ IsPrefix(base, head) /\ Len(base) < Len(head) - 1 /\ base' = UpTo(head, Len(base) + 1)
    /\ ~IsPrefix(head, base')
    /\ UNCHANGED <<head, reviews, checks, statuses>>

Commits == {UpTo(head, n) : n \in (Len(MergeBase(head, base)) + 1)..Len(head)}

Review ==
    /\ Change
    /\ \E c \in Commits, o \in Opinions :
        reviews' = Append(reviews, [commit |-> c, trusted |-> o.trusted,
                                    verdict |-> o.verdict, dismissed |-> FALSE])
    /\ UNCHANGED <<head, base, checks, statuses>>

Dismiss ==
    /\ Change
    /\ \E i \in DOMAIN reviews :
        ~reviews[i].dismissed /\ reviews' = [reviews EXCEPT ![i].dismissed = TRUE]
    /\ UNCHANGED <<head, base, checks, statuses>>

Observation(c, j, state) == [commit |-> c, job |-> j, state |-> state]

(* A check run starts, or one ends, or comes as a whole. *)
Check ==
    /\ Change
    /\ \/ \E c \in Commits, j \in Jobs, s \in Terminal \cup {"in_progress"} :
            checks' = Append(checks, Observation(c, j, s))
       \/ \E i \in DOMAIN checks, s \in Terminal :
            /\ checks[i].state = "in_progress"
            /\ checks' = Append(RemoveAt(checks, i),
                                Observation(checks[i].commit, checks[i].job, s))
    /\ UNCHANGED <<head, base, reviews, statuses>>

Status ==
    /\ Change
    /\ \E c \in Commits, j \in Jobs, s \in Terminal \cup {"pending"} :
        statuses' = Append(statuses, Observation(c, j, s))
    /\ UNCHANGED <<head, base, reviews, checks>>

-----------------------------------------------------------------------------
(* The evaluation is over; its locals are gone. *)
Over(said) ==
    /\ step' = "over" /\ answer' = said
    /\ pr' = NoPr /\ root' = NoCommit
    /\ verdict' = "missing" /\ ci' = [j \in Jobs |-> "missing"] /\ gap' = FALSE
    /\ UNCHANGED <<github, events, races>>

Goto(next) == step' = next /\ UNCHANGED <<github, answer, events, races>>

ReadPr ==
    /\ step = "pr"
    /\ pr' = [head |-> head, base |-> base]
    /\ Goto("commits")
    /\ UNCHANGED <<root, verdict, ci, gap>>

(* pull_request_commits and _validate_current_chain: what GitHub lists is  *)
(* contiguous, but it may end at another head.  Without a CODE commit no   *)
(* other evidence is asked for.                                            *)
ReadCommits ==
    /\ step = "commits"
    /\ IF head # pr.head THEN Over("ERROR")
       ELSE /\ root' = MergeBase(head, base)
            /\ Goto(IF FinalCode(head, root') = NoCommit THEN "reread" ELSE "reviews")
            /\ UNCHANGED <<pr, verdict, ci, gap>>

Final == FinalCode(pr.head, root)

ReadReviews ==
    /\ step = "reviews"
    /\ verdict' = FinalVerdict(Final)
    /\ Goto("checks")
    /\ UNCHANGED <<pr, root, ci, gap>>

(* commit_ci: checks count before statuses, job by job. *)
ReadChecks ==
    /\ step = "checks"
    /\ ci' = [j \in Jobs |-> LatestCheck(Final, j)]
    /\ Goto("statuses")
    /\ UNCHANGED <<pr, root, verdict, gap>>

ReadStatuses ==
    /\ step = "statuses"
    /\ ci' = [j \in Jobs |-> IF ci[j] # "missing" THEN ci[j]
                              ELSE LatestStatus(Final, j)]
    /\ Goto("compare")
    /\ UNCHANGED <<pr, root, verdict, gap>>

(* The paths of a Compare, as cumulative_evidence lists them. *)
Changed(from, c) == UNION {PathsOf(f) : f \in Files(Tree(from), Tree(c))}

(* cumulative_evidence and _validate_cumulative_evidence: another merge    *)
(* base is an error, and with it another number of commits; a path that    *)
(* was introduced must be in the net diff.                                 *)
ReadCompare ==
    /\ step = "compare"
    /\ LET from == MergeBase(Final, pr.base)
       IN  IF from # root THEN Over("ERROR")
           ELSE /\ gap' = ~(Introduced(root, Final) \subseteq Changed(root, Final))
                /\ Goto("reread")
                /\ UNCHANGED <<pr, root, verdict, ci>>

(* The pull request is read again, and the answer given. *)
\* Faulty variant: the pull request is not read again.
NeverMoved == FALSE

Moved == head # pr.head \/ base # pr.base

NoGaps == verdict = "approved" /\ (\A j \in Jobs : ci[j] = "success") /\ ~gap

Answer ==
    /\ step = "reread"
    /\ Over(CASE Moved -> "ERROR"
              [] ~Moved /\ (Final = NoCommit \/ NoGaps) -> "PASS"
              [] OTHER -> "REVIEW_GAP")

(* A call fails: exit 1. *)
CallFails == step # "over" /\ Over("ERROR")

Evaluate ==
    \/ ReadPr \/ ReadCommits \/ ReadReviews \/ ReadChecks \/ ReadStatuses \/ ReadCompare
    \/ Answer \/ CallFails

Next ==
    \/ Evaluate
    \/ Push \/ BaseMoves \/ Review \/ Dismiss \/ Check \/ Status

Spec == Init /\ [][Next]_vars

-----------------------------------------------------------------------------
Observations == Range(checks) \cup Range(statuses)

SameCode(c, d) == \A p \in Paths \ Evidence : Tree(c)[p] = Tree(d)[p]

Approved(c) == \E r \in Range(reviews) : r.commit = c /\ r.trusted /\ r.verdict = "approved"
Tested(c) ==
    \A j \in Jobs : Observation(c, j, "success") \in Observations

(* PASS lets in only code that was approved and tested: at the moment of   *)
(* the answer the files outside docs/evidence/ at the head of the branch   *)
(* are those of the merge base, or those of a commit of the branch that a  *)
(* trusted reviewer has approved and whose required jobs have all          *)
(* succeeded, whatever was pushed, renamed or rebased during the readings  *)
(* (evaluate_review_gate).                                                 *)
PassedCodeIsApproved ==
    [][answer' = "PASS" /\ step = "reread" /\ step' = "over" =>
          \/ SameCode(head, MergeBase(head, base))
          \/ \E c \in Commits : SameCode(head, c) /\ Approved(c) /\ Tested(c)]_vars

(* What the README asks of the last commit that changes a file outside     *)
(* docs/evidence/: its latest trusted review that counts approves it, and  *)
(* the newest result of every job is a success, checks before statuses.    *)
LastWord(c) ==
    LET count == {i \in DOMAIN reviews : /\ reviews[i].commit = c /\ reviews[i].trusted
                                        /\ ~reviews[i].dismissed}
    IN  count # {} /\ reviews[Max(count)].verdict = "approved"
Green(seen, c, j, against) ==
    \E i \in DOMAIN seen :
        /\ seen[i] = Observation(c, j, "success")
        /\ \A k \in (i + 1)..Len(seen), s \in against : seen[k] # Observation(c, j, s)
Ready ==
    LET coding == {c \in Commits : ~SameCode(c, Parent(c))}
        last == CHOOSE c \in coding : \A d \in coding : IsPrefix(d, c)
    IN  coding = {} \/
        /\ LastWord(last)
        /\ \A j \in Jobs :
              IF \E o \in Range(checks) : o.commit = last /\ o.job = j
                THEN Green(checks, last, j, {"failure"})
                ELSE Green(statuses, last, j, {"failure", "pending"})

(* A path of the merge base that was gone for a while, or an Evidence path *)
(* among the files of a CODE commit: there the check of introduced paths   *)
(* may ask for a path that the net diff does not have.                     *)
Returning ==
    \E c \in Commits :
        \/ \E p \in Paths : Tree(MergeBase(head, base))[p] # Absent /\ Tree(c)[p] = Absent
        \/ /\ Classification(c) = "CODE"
           /\ \E f \in Files(Tree(Parent(c)), Tree(c)) : PathsOf(f) \cap Evidence # {}

(* An evaluation during which nothing changes says PASS only for a ready   *)
(* pull request, and for every ready one in which no path returns          *)
(* (evaluate_review_gate, _latest_observations, _final_verdict).           *)
QuietVerdictExact ==
    [][step = "reread" /\ step' = "over" /\ races = 0 /\ answer' # "ERROR" =>
          /\ answer' = "PASS" => Ready
          /\ Ready /\ ~Returning => answer' = "PASS"]_vars

(* The same without the exception: no ready pull request is held back      *)
(* (_persistent_introduced_paths).                                         *)
ReadyNeverHeldBack ==
    [][step = "reread" /\ step' = "over" /\ races = 0 /\ answer' = "REVIEW_GAP" => ~Ready]_vars
=============================================================================
