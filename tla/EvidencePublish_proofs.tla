----------------------- MODULE EvidencePublish_proofs -----------------------
(***************************************************************************)
(* Proofs about EvidencePublish for any code changes and CI definitions,   *)
(* any number of pushes, CI runs and faults.                               *)
(***************************************************************************)
EXTENDS EvidencePublish, TLAPS

-----------------------------------------------------------------------------
(* The inductive invariant. *)

\* Only the publisher adds to a branch that is full, so what is full is Evidence.
Fits(e) == Commit(e) /\ (Len(e) = MaxCommits + 1 => IsEvidence(e))

CommitsFit == \A e \in {head, codeSha, pending} : Fits(e)

\* The local commit of a job that has generated: a snapshot of the code commit,
\* which is no Evidence, was tested and has the trusted definition.
Describes ==
    /\ \E t \in 0..MaxPushes : local = Append(read, Snapshot("publisher", TRUE, t))
    /\ read = codeSha /\ ~IsEvidence(read) /\ read \in everPassed

HasGenerated ==
    \/ step \in {"push", "post", "postcode"}
    \/ step \in {"verify", "refetch", "ci"} /\ read # NoCommit

JobHonest ==
    /\ step \in {"idle", "candidate", "generate", "attest"} => read = NoCommit
    /\ step \in {"idle", "candidate"} => local = NoCommit
    /\ step \notin {"idle", "candidate"} => SameDefinition(codeSha, trusted)
    /\ step \in {"fetch", "build"} => ~IsEvidence(local)
    /\ step = "build" => local = read
    /\ HasGenerated => Describes

\* What is attested has a definition that the default branch had.
DefinitionsReached ==
    \A e \in green \cup valid : IsEvidence(e) => DefinitionOf(e) \in 0..base

\* A validation after its last look at the branch: nothing moved unnoticed, and
\* what it saw attested stays genuine whatever happens to the status later.
LastLook ==
    vstep \in {"ci", "attest", "accept"} /\ ~overtaken => head = opinion

Bound == opinion = NoCommit => vstep = "idle"

SeenAttested ==
    vstep = "accept" /\ IsEvidence(opinion) => Genuine(opinion) /\ DefinitionOf(opinion) \in 0..base

IInv == /\ TypeOK /\ CommitsFit /\ JobHonest /\ OnlyGenuineAttested /\ DefinitionsReached
        /\ LastLook /\ SeenAttested /\ Bound

-----------------------------------------------------------------------------
(* Commits as sequences. *)

\* Pushing a change: what it leaves of the history, and what it adds.
LEMMA AppendFacts ==
    ASSUME NEW s \in Seq(Changes), NEW x \in Changes
    PROVE  /\ Append(s, x) \in Seq(Changes)
           /\ Len(Append(s, x)) = Len(s) + 1
           /\ Append(s, x) # NoCommit
           /\ Last(Append(s, x)) = x
           /\ Parent(Append(s, x)) = s
           /\ IsPrefix(s, Append(s, x))
<1>1. Append(s, x) \in Seq(Changes) /\ Len(Append(s, x)) = Len(s) + 1  OBVIOUS
<1>2. Append(s, x) # NoCommit /\ Last(Append(s, x)) = x  BY DEF Last, NoCommit
<1>3. Parent(Append(s, x)) = s  BY DEF Parent, Front
<1>4. IsPrefix(s, Append(s, x))  BY DEF IsPrefix
<1> QED  BY <1>1, <1>2, <1>3, <1>4

\* Resetting the branch to an earlier commit.
LEMMA ResetFacts ==
    ASSUME NEW s \in Seq(Changes), NEW n \in 1..(Len(s) - 1)
    PROVE  SubSeq(s, 1, n) \in Seq(Changes) /\ Len(SubSeq(s, 1, n)) = n
OBVIOUS

LEMMA SnapshotFacts ==
    ASSUME NEW by \in {"publisher", "author"}, NEW exact \in BOOLEAN, NEW t \in 0..MaxPushes
    PROVE  /\ Snapshot(by, exact, t) \in Changes
           /\ Snapshot(by, exact, t).kind = "evidence"
           /\ Snapshot(by, exact, t).by = by
<1>1. Snapshot(by, exact, t) \in Changes  BY DEF Changes
<1> QED  BY <1>1 DEF Snapshot

\* A snapshot is no code: it leaves the code and the CI definition as they are.
LEMMA EvidenceIsNoCode ==
    ASSUME NEW s \in Seq(Changes), NEW x \in Changes, x.kind = "evidence"
    PROVE  /\ CodeOf(Append(s, x)) = CodeOf(s)
           /\ DefinitionOf(Append(s, x)) = DefinitionOf(s)
<1>1. CodeOf(Append(s, x)) = CodeOf(s)
  <2>1. {j \in DOMAIN Append(s, x) : Append(s, x)[j].kind = "code"} = {j \in DOMAIN s : s[j].kind = "code"}
    OBVIOUS
  <2>2. \A i \in DOMAIN s : Append(s, x)[i] = s[i]  OBVIOUS
  <2> QED  BY <2>1, <2>2 DEF CodeOf
<1> QED  BY <1>1 DEF DefinitionOf

LEMMA NoCommitFits == Fits(NoCommit)
<1>1. NoCommit \in Seq(Changes) /\ Len(NoCommit) = 0  BY DEF NoCommit
<1> QED  BY <1>1, BoundsAssumption DEF Fits, Commit

\* The commit of a job that has generated is Evidence, fits, and is genuine.
LEMMA DescribedFacts ==
    ASSUME TypeOK, CommitsFit, Describes, SameDefinition(codeSha, trusted)
    PROVE  /\ Fits(local) /\ IsEvidence(local) /\ Genuine(local) /\ DefinitionOf(local) \in 0..base
           /\ Parent(local) = read /\ IsPrefix(read, local) /\ Len(local) = Len(read) + 1
           /\ read \in Seq(Changes)
<1>1. PICK t \in 0..MaxPushes : local = Append(read, Snapshot("publisher", TRUE, t))
  BY DEF Describes
<1>2. /\ Snapshot("publisher", TRUE, t) \in Changes
      /\ Snapshot("publisher", TRUE, t).kind = "evidence"
      /\ Snapshot("publisher", TRUE, t).by = "publisher"
  BY SnapshotFacts
<1>3. read \in Seq(Changes) /\ Len(read) \in Nat /\ Len(read) <= MaxCommits
  <2>1. Fits(read) /\ ~IsEvidence(read)  BY DEF CommitsFit, Describes
  <2>2. read \in Seq(Changes) /\ Len(read) <= MaxCommits + 1 /\ Len(read) # MaxCommits + 1
    BY <2>1 DEF Fits, Commit
  <2> QED  BY <2>2, BoundsAssumption
<1>4. /\ local \in Seq(Changes) /\ Len(local) = Len(read) + 1 /\ local # NoCommit
      /\ Last(local) = Snapshot("publisher", TRUE, t)
      /\ Parent(local) = read /\ IsPrefix(read, local)
  BY <1>1, <1>2, <1>3, AppendFacts
<1>5. IsEvidence(local)  BY <1>2, <1>4 DEF IsEvidence
<1>6. Fits(local)  BY <1>3, <1>4, <1>5, BoundsAssumption DEF Fits, Commit
<1>7. DefinitionOf(local) = trusted
  BY <1>1, <1>2, <1>3, EvidenceIsNoCode DEF Describes, SameDefinition
<1>8. trusted \in 0..base /\ trusted <= base  BY DEF TypeOK
<1>9. Genuine(local)  BY <1>2, <1>4, <1>7, <1>8 DEF Genuine, Describes
<1> QED  BY <1>3, <1>4, <1>5, <1>6, <1>7, <1>8, <1>9

-----------------------------------------------------------------------------
(* The type invariant in parts. *)

CommitTypes ==
    \A e \in {head, codeSha, local, read, pending, opinion, vread} \cup passed \cup valid
                 \cup green \cup red : Commit(e)

OtherTypes ==
    /\ passed \subseteq everPassed
    /\ green \cap red = {}
    /\ base \in 0..MaxDefinition /\ trusted \in 0..base /\ fetched \in 0..base /\ vbase \in 0..base
    /\ step \in {"idle", "candidate", "generate", "fetch", "build", "push",
                 "verify", "refetch", "ci", "attest", "post", "postcode"}
    /\ vstep \in {"idle", "fetch", "verify", "refetch", "ci", "attest", "accept"}
    /\ pushes \in 0..MaxPushes /\ runs \in 0..MaxRuns /\ faults \in 0..MaxFaults

Flags == again \in BOOLEAN /\ overtaken \in BOOLEAN

LEMMA TypeParts == /\ TypeOK <=> CommitTypes /\ OtherTypes /\ Flags
                   /\ TypeOK' <=> CommitTypes' /\ OtherTypes' /\ Flags'
<1>1. ASSUME NEW a, NEW b, NEW c, NEW S
      PROVE  {a, b, c} \subseteq S <=> a \in S /\ b \in S /\ c \in S
  OBVIOUS
<1>2. /\ {trusted, fetched, vbase} \subseteq 0..base
            <=> trusted \in 0..base /\ fetched \in 0..base /\ vbase \in 0..base
      /\ {trusted', fetched', vbase'} \subseteq 0..base'
            <=> trusted' \in 0..base' /\ fetched' \in 0..base' /\ vbase' \in 0..base'
  BY <1>1
<1> QED  BY <1>2, Zenon DEF TypeOK, CommitTypes, OtherTypes, Flags

LEMMA Preserved == ASSUME IInv, Next PROVE IInv'
<1> USE DEF github, status, facts, job, validation, advice, bounds, Goto
<1>a. /\ CommitTypes /\ OtherTypes /\ CommitsFit /\ JobHonest /\ OnlyGenuineAttested
      /\ DefinitionsReached /\ LastLook /\ SeenAttested /\ Bound /\ Flags /\ TypeOK
  BY TypeParts DEF IInv
<1>b. Fits(NoCommit) /\ Commit(NoCommit)  BY NoCommitFits DEF Fits
<1>c. HasGenerated => Fits(local) /\ Commit(local) /\ IsEvidence(local) /\ Genuine(local)
         /\ DefinitionOf(local) \in 0..base /\ Parent(local) = read /\ ~IsEvidence(codeSha)
  BY <1>a, DescribedFacts DEF JobHonest, HasGenerated, Describes, Fits
<1>d. HeadMoves => overtaken' \in BOOLEAN
  <2>1. (vstep \in {"ci", "attest", "accept"}) \in BOOLEAN  OBVIOUS
  <2> QED  BY <2>1 DEF HeadMoves
<1>1. CASE AuthorPush
  <2>0. Commit(head') /\ Fits(head')
    <3>1. head \in Seq(Changes) /\ Len(head) \in Nat /\ Len(head) <= MaxCommits + 1
      BY <1>a DEF CommitTypes, Commit
    <3>2. ASSUME Len(head) < MaxCommits, NEW x \in Changes, head' = Append(head, x)
          PROVE  Commit(head') /\ Fits(head')
      <4>1. head' \in Seq(Changes) /\ Len(head') = Len(head) + 1  BY <3>1, <3>2, AppendFacts
      <4>2. Len(head') <= MaxCommits  BY <3>1, <3>2, <4>1, BoundsAssumption
      <4> QED  BY <4>1, <4>2, BoundsAssumption DEF Fits, Commit
    <3>3. ASSUME NEW n \in 1..(Len(head) - 1), head' = SubSeq(head, 1, n)
          PROVE  Commit(head') /\ Fits(head')
      <4>1. head' \in Seq(Changes) /\ Len(head') = n  BY <3>1, <3>3, ResetFacts
      <4>2. Len(head') <= MaxCommits  BY <3>1, <3>3, <4>1, BoundsAssumption
      <4> QED  BY <4>1, <4>2, BoundsAssumption DEF Fits, Commit
    <3>4. {Code(c) : c \in Codes} \cup {Snapshot("author", exact, pushes) : exact \in BOOLEAN}
             \subseteq Changes
      <4>1. pushes \in 0..MaxPushes  BY <1>a DEF OtherTypes
      <4> QED  BY <4>1 DEF Changes
    <3> QED  BY <1>1, <3>2, <3>3, <3>4 DEF AuthorPush
  <2>1. CommitTypes'  BY <1>1, <1>a, <2>0 DEF CommitTypes, AuthorPush, HeadMoves
  <2>2. OtherTypes'
    BY <1>1, <1>a, BoundsAssumption, CodesAssumption DEF OtherTypes, AuthorPush, HeadMoves
  <2>3. CommitsFit'  BY <1>1, <1>a, <2>0 DEF CommitsFit, HasGenerated, AuthorPush, HeadMoves
  <2>4. JobHonest'
    BY <1>1, <1>a DEF JobHonest, HasGenerated, Describes, SameDefinition, OtherTypes, AuthorPush,
       HeadMoves
  <2>5. OnlyGenuineAttested' /\ DefinitionsReached'
    BY <1>1, <1>a, <1>c DEF OnlyGenuineAttested, DefinitionsReached, Genuine, OtherTypes,
       HasGenerated, AuthorPush, HeadMoves
  <2>6. LastLook' /\ SeenAttested' /\ Bound'
    BY <1>1, <1>a DEF LastLook, SeenAttested, Bound, Genuine, OtherTypes, AuthorPush, HeadMoves
  <2>7. Flags'  BY <1>1, <1>a, <1>d, Zenon DEF Flags, AuthorPush
  <2> QED  BY <2>1, <2>2, <2>3, <2>4, <2>5, <2>6, <2>7, TypeParts DEF IInv
<1>2. CASE CiCompletes
  <2>1. CommitTypes'  BY <1>2, <1>a, <1>b, <1>c DEF CommitTypes, CiCompletes
  <2>2. OtherTypes'  BY <1>2, <1>a, BoundsAssumption, CodesAssumption DEF OtherTypes, CiCompletes
  <2>3. CommitsFit'  BY <1>2, <1>a, <1>b, <1>c DEF CommitsFit, HasGenerated, CiCompletes
  <2>4. JobHonest'
    BY <1>2, <1>a DEF JobHonest, HasGenerated, Describes, SameDefinition, OtherTypes, CiCompletes
  <2>5. OnlyGenuineAttested' /\ DefinitionsReached'
    BY <1>2, <1>a, <1>c DEF OnlyGenuineAttested, DefinitionsReached, Genuine, OtherTypes,
       HasGenerated, CiCompletes
  <2>6. LastLook' /\ SeenAttested' /\ Bound'
    BY <1>2, <1>a DEF LastLook, SeenAttested, Bound, Genuine, OtherTypes, CiCompletes
  <2>7. Flags'  BY <1>2, <1>a, Zenon DEF Flags, CiCompletes
  <2> QED  BY <2>1, <2>2, <2>3, <2>4, <2>5, <2>6, <2>7, TypeParts DEF IInv
<1>3. CASE BaseMoves
  <2>1. CommitTypes'  BY <1>3, <1>a, <1>b, <1>c DEF CommitTypes, BaseMoves
  <2>2. OtherTypes'  BY <1>3, <1>a, BoundsAssumption, CodesAssumption DEF OtherTypes, BaseMoves
  <2>3. CommitsFit'  BY <1>3, <1>a, <1>b, <1>c DEF CommitsFit, HasGenerated, BaseMoves
  <2>4. JobHonest'
    BY <1>3, <1>a DEF JobHonest, HasGenerated, Describes, SameDefinition, OtherTypes, BaseMoves
  <2>5. OnlyGenuineAttested' /\ DefinitionsReached'
    BY <1>3, <1>a, <1>c DEF OnlyGenuineAttested, DefinitionsReached, Genuine, OtherTypes,
       HasGenerated, BaseMoves
  <2>6. LastLook' /\ SeenAttested' /\ Bound'
    BY <1>3, <1>a DEF LastLook, SeenAttested, Bound, Genuine, OtherTypes, BaseMoves
  <2>7. Flags'  BY <1>3, <1>a, Zenon DEF Flags, BaseMoves
  <2> QED  BY <2>1, <2>2, <2>3, <2>4, <2>5, <2>6, <2>7, TypeParts DEF IInv
<1>4. CASE StartJob
  <2>1. CommitTypes'  BY <1>4, <1>a, <1>b, <1>c DEF CommitTypes, StartJob
  <2>2. OtherTypes'  BY <1>4, <1>a, BoundsAssumption, CodesAssumption DEF OtherTypes, StartJob
  <2>3. CommitsFit'  BY <1>4, <1>a, <1>b, <1>c DEF CommitsFit, HasGenerated, StartJob
  <2>4. JobHonest'
    BY <1>4, <1>a DEF JobHonest, HasGenerated, Describes, SameDefinition, OtherTypes, StartJob
  <2>5. OnlyGenuineAttested' /\ DefinitionsReached'
    BY <1>4, <1>a, <1>c DEF OnlyGenuineAttested, DefinitionsReached, Genuine, OtherTypes,
       HasGenerated, StartJob
  <2>6. LastLook' /\ SeenAttested' /\ Bound'
    BY <1>4, <1>a DEF LastLook, SeenAttested, Bound, Genuine, OtherTypes, StartJob
  <2>7. Flags'  BY <1>4, <1>a, Zenon DEF Flags, StartJob
  <2> QED  BY <2>1, <2>2, <2>3, <2>4, <2>5, <2>6, <2>7, TypeParts DEF IInv
<1>5. CASE VerifyDefinition
  <2>1. CommitTypes'
    BY <1>5, <1>a, <1>b, <1>c DEF CommitTypes, VerifyDefinition, JobFails, JobOver, Post
  <2>2. OtherTypes'
    BY <1>5, <1>a, BoundsAssumption, CodesAssumption DEF OtherTypes, VerifyDefinition, JobFails,
       JobOver, Post
  <2>3. CommitsFit'
    BY <1>5, <1>a, <1>b, <1>c DEF CommitsFit, HasGenerated, VerifyDefinition, JobFails, JobOver,
       Post
  <2>4. JobHonest'
    BY <1>5, <1>a DEF JobHonest, HasGenerated, Describes, SameDefinition, OtherTypes,
       VerifyDefinition, JobFails, JobOver, Post
  <2>5. OnlyGenuineAttested' /\ DefinitionsReached'
    BY <1>5, <1>a, <1>c DEF OnlyGenuineAttested, DefinitionsReached, Genuine, OtherTypes,
       HasGenerated, VerifyDefinition, JobFails, JobOver, Post
  <2>6. LastLook' /\ SeenAttested' /\ Bound'
    BY <1>5, <1>a DEF LastLook, SeenAttested, Bound, Genuine, OtherTypes, VerifyDefinition,
       JobFails, JobOver, Post
  <2>7. Flags'  BY <1>5, <1>a, Zenon DEF Flags, VerifyDefinition, JobFails, JobOver, Post
  <2> QED  BY <2>1, <2>2, <2>3, <2>4, <2>5, <2>6, <2>7, TypeParts DEF IInv
<1>6. CASE ReadPullRequest
  <2>1. CommitTypes'  BY <1>6, <1>a, <1>b, <1>c DEF CommitTypes, ReadPullRequest, EvidenceOnlyHead
  <2>2. OtherTypes'
    BY <1>6, <1>a, BoundsAssumption, CodesAssumption DEF OtherTypes, ReadPullRequest,
       EvidenceOnlyHead
  <2>3. CommitsFit'
    BY <1>6, <1>a, <1>b, <1>c DEF CommitsFit, HasGenerated, ReadPullRequest, EvidenceOnlyHead
  <2>4. JobHonest'
    BY <1>6, <1>a DEF JobHonest, HasGenerated, Describes, SameDefinition, OtherTypes,
       ReadPullRequest, EvidenceOnlyHead
  <2>5. OnlyGenuineAttested' /\ DefinitionsReached'
    BY <1>6, <1>a, <1>c DEF OnlyGenuineAttested, DefinitionsReached, Genuine, OtherTypes,
       HasGenerated, ReadPullRequest, EvidenceOnlyHead
  <2>6. LastLook' /\ SeenAttested' /\ Bound'
    BY <1>6, <1>a DEF LastLook, SeenAttested, Bound, Genuine, OtherTypes, ReadPullRequest,
       EvidenceOnlyHead
  <2>7. Flags'  BY <1>6, <1>a, Zenon DEF Flags, ReadPullRequest, EvidenceOnlyHead
  <2> QED  BY <2>1, <2>2, <2>3, <2>4, <2>5, <2>6, <2>7, TypeParts DEF IInv
<1>7. CASE GenerateFetches
  <2>1. CommitTypes'
    BY <1>7, <1>a, <1>b, <1>c DEF CommitTypes, GenerateFetches, JobFails, JobOver, Post, CheckedOut
  <2>2. OtherTypes'
    BY <1>7, <1>a, BoundsAssumption, CodesAssumption DEF OtherTypes, GenerateFetches, JobFails,
       JobOver, Post, CheckedOut
  <2>3. CommitsFit'
    BY <1>7, <1>a, <1>b, <1>c DEF CommitsFit, HasGenerated, GenerateFetches, JobFails, JobOver,
       Post, CheckedOut
  <2>4. JobHonest'
    BY <1>7, <1>a DEF JobHonest, HasGenerated, Describes, SameDefinition, OtherTypes,
       GenerateFetches, JobFails, JobOver, Post, CheckedOut
  <2>5. OnlyGenuineAttested' /\ DefinitionsReached'
    BY <1>7, <1>a, <1>c DEF OnlyGenuineAttested, DefinitionsReached, Genuine, OtherTypes,
       HasGenerated, GenerateFetches, JobFails, JobOver, Post, CheckedOut
  <2>6. LastLook' /\ SeenAttested' /\ Bound'
    BY <1>7, <1>a DEF LastLook, SeenAttested, Bound, Genuine, OtherTypes, GenerateFetches, JobFails,
       JobOver, Post, CheckedOut
  <2>7. Flags'  BY <1>7, <1>a, Zenon DEF Flags, GenerateFetches, JobFails, JobOver, Post, CheckedOut
  <2> QED  BY <2>1, <2>2, <2>3, <2>4, <2>5, <2>6, <2>7, TypeParts DEF IInv
<1>8. CASE Generate
  <2>0. CASE step' = "push"
    <3>1. /\ local' = Append(read, Snapshot("publisher", TRUE, pushes))
          /\ read = codeSha /\ codeSha \in passed /\ read = local /\ step = "build"
          /\ UNCHANGED <<head, base, passed, everPassed, pending, green, red, codeSha, trusted, read,
                          fetched, again>>
          /\ UNCHANGED <<opinion, vstep, vread, vbase, valid, overtaken, pushes, runs, faults>>
      BY <1>8, <1>a, <2>0 DEF JobHonest, Generate, SuccessfulCi, JobFails, JobOver
    <3>2. Describes' /\ SameDefinition(codeSha, trusted)
      BY <1>a, <3>1 DEF JobHonest, Describes, OtherTypes
    <3>3. JobHonest'  BY <2>0, <3>1, <3>2 DEF JobHonest, HasGenerated, SameDefinition
    <3>4. CommitsFit'  BY <1>a, <3>1 DEF CommitsFit
    <3>5. OtherTypes'  BY <1>a, <2>0, <3>1 DEF OtherTypes
    <3>6. Commit(local')
      <4>1. Snapshot("publisher", TRUE, pushes) \in Changes  BY <1>a, SnapshotFacts DEF OtherTypes
      <4>2. Fits(read) /\ ~IsEvidence(read)  BY <1>a, <3>1 DEF CommitsFit, JobHonest
      <4>3. read \in Seq(Changes) /\ Len(read) \in Nat /\ Len(read) <= MaxCommits
        BY <4>2, BoundsAssumption DEF Fits, Commit
      <4>4. local' \in Seq(Changes) /\ Len(local') = Len(read) + 1
        BY <3>1, <4>1, <4>3, AppendFacts
      <4> QED  BY <4>3, <4>4, BoundsAssumption DEF Commit
    <3>7. CommitTypes'
      <4>1. SUFFICES ASSUME NEW e \in {head, codeSha, local', read, pending, opinion, vread}
                                       \cup passed \cup valid \cup green \cup red
                     PROVE  Commit(e)
        BY <3>1 DEF CommitTypes
      <4>2. CASE e = local'  BY <3>6, <4>2
      <4>3. CASE e # local'  BY <1>a, <4>3 DEF CommitTypes
      <4> QED  BY <4>2, <4>3
    <3>8. OnlyGenuineAttested' /\ DefinitionsReached' /\ LastLook' /\ SeenAttested' /\ Bound'
      BY <1>a, <3>1 DEF OnlyGenuineAttested, DefinitionsReached, Genuine, LastLook, SeenAttested, Bound
    <3>9. Flags'  BY <1>a, <3>1, Zenon DEF Flags
    <3> QED  BY <3>3, <3>4, <3>5, <3>7, <3>8, <3>9, TypeParts DEF IInv
  <2>a. CASE step' # "push"
    <3>1. JobFails /\ UNCHANGED <<head, base, passed, everPassed, pending>>
          /\ UNCHANGED <<opinion, vstep, vread, vbase, valid, overtaken, pushes, runs, faults>>
      BY <1>8, <2>a DEF Generate
    <3>2. CommitTypes'  BY <1>a, <1>b, <3>1 DEF CommitTypes, JobFails, JobOver, Post
    <3>3. OtherTypes'  BY <1>a, <3>1 DEF OtherTypes, JobFails, JobOver, Post
    <3>4. CommitsFit'  BY <1>a, <1>b, <3>1 DEF CommitsFit, JobFails, JobOver
    <3>5. JobHonest'  BY <3>1 DEF JobHonest, HasGenerated, JobFails, JobOver
    <3>6. OnlyGenuineAttested' /\ DefinitionsReached' /\ LastLook' /\ SeenAttested' /\ Bound'
      BY <1>a, <3>1 DEF OnlyGenuineAttested, DefinitionsReached, Genuine, LastLook, SeenAttested,
         Bound, JobFails, Post
    <3>7. Flags'  BY <1>a, <3>1, Zenon DEF Flags, JobFails, JobOver
    <3> QED  BY <3>2, <3>3, <3>4, <3>5, <3>6, <3>7, TypeParts DEF IInv
  <2> QED  BY <2>0, <2>a
<1>9. CASE Push
  <2>1. CommitTypes'
    BY <1>9, <1>a, <1>b, <1>c DEF CommitTypes, Push, JobFails, JobOver, Post, HeadMoves
  <2>2. OtherTypes'
    BY <1>9, <1>a, BoundsAssumption, CodesAssumption DEF OtherTypes, Push, JobFails, JobOver, Post,
       HeadMoves
  <2>3. CommitsFit'
    BY <1>9, <1>a, <1>b, <1>c DEF CommitsFit, HasGenerated, Push, JobFails, JobOver, Post, HeadMoves
  <2>4. JobHonest'
    BY <1>9, <1>a DEF JobHonest, HasGenerated, Describes, SameDefinition, OtherTypes, Push,
       JobFails, JobOver, Post, HeadMoves
  <2>5. OnlyGenuineAttested' /\ DefinitionsReached'
    BY <1>9, <1>a, <1>c DEF OnlyGenuineAttested, DefinitionsReached, Genuine, OtherTypes,
       HasGenerated, Push, JobFails, JobOver, Post, HeadMoves
  <2>6. LastLook' /\ SeenAttested' /\ Bound'
    BY <1>9, <1>a DEF LastLook, SeenAttested, Bound, Genuine, OtherTypes, Push, JobFails, JobOver,
       Post, HeadMoves
  <2>7. Flags'  BY <1>9, <1>a, <1>d, Zenon DEF Flags, Push, JobFails, JobOver, Post
  <2> QED  BY <2>1, <2>2, <2>3, <2>4, <2>5, <2>6, <2>7, TypeParts DEF IInv
<1>10. CASE VerifyReadsHead
  <2>1. CommitTypes'
    BY <1>10, <1>a, <1>b, <1>c DEF CommitTypes, VerifyReadsHead, JobFails, JobOver, Post
  <2>2. OtherTypes'
    BY <1>10, <1>a, BoundsAssumption, CodesAssumption DEF OtherTypes, VerifyReadsHead, JobFails,
       JobOver, Post
  <2>3. CommitsFit'
    BY <1>10, <1>a, <1>b, <1>c DEF CommitsFit, HasGenerated, VerifyReadsHead, JobFails, JobOver,
       Post
  <2>4. JobHonest'
    BY <1>10, <1>a DEF JobHonest, HasGenerated, Describes, SameDefinition, OtherTypes,
       VerifyReadsHead, JobFails, JobOver, Post
  <2>5. OnlyGenuineAttested' /\ DefinitionsReached'
    BY <1>10, <1>a, <1>c DEF OnlyGenuineAttested, DefinitionsReached, Genuine, OtherTypes,
       HasGenerated, VerifyReadsHead, JobFails, JobOver, Post
  <2>6. LastLook' /\ SeenAttested' /\ Bound'
    BY <1>10, <1>a DEF LastLook, SeenAttested, Bound, Genuine, OtherTypes, VerifyReadsHead,
       JobFails, JobOver, Post
  <2>7. Flags'  BY <1>10, <1>a, Zenon DEF Flags, VerifyReadsHead, JobFails, JobOver, Post
  <2> QED  BY <2>1, <2>2, <2>3, <2>4, <2>5, <2>6, <2>7, TypeParts DEF IInv
<1>11. CASE VerifyFetches
  <2>1. CommitTypes'
    BY <1>11, <1>a, <1>b, <1>c DEF CommitTypes, VerifyFetches, JobFails, JobOver, Post
  <2>2. OtherTypes'
    BY <1>11, <1>a, BoundsAssumption, CodesAssumption DEF OtherTypes, VerifyFetches, JobFails,
       JobOver, Post
  <2>3. CommitsFit'
    BY <1>11, <1>a, <1>b, <1>c DEF CommitsFit, HasGenerated, VerifyFetches, JobFails, JobOver, Post
  <2>4. JobHonest'
    BY <1>11, <1>a DEF JobHonest, HasGenerated, Describes, SameDefinition, OtherTypes,
       VerifyFetches, JobFails, JobOver, Post
  <2>5. OnlyGenuineAttested' /\ DefinitionsReached'
    BY <1>11, <1>a, <1>c DEF OnlyGenuineAttested, DefinitionsReached, Genuine, OtherTypes,
       HasGenerated, VerifyFetches, JobFails, JobOver, Post
  <2>6. LastLook' /\ SeenAttested' /\ Bound'
    BY <1>11, <1>a DEF LastLook, SeenAttested, Bound, Genuine, OtherTypes, VerifyFetches, JobFails,
       JobOver, Post
  <2>7. Flags'  BY <1>11, <1>a, Zenon DEF Flags, VerifyFetches, JobFails, JobOver, Post
  <2> QED  BY <2>1, <2>2, <2>3, <2>4, <2>5, <2>6, <2>7, TypeParts DEF IInv
<1>12. CASE VerifyReconstructs
  <2>1. CommitTypes'
    BY <1>12, <1>a, <1>b, <1>c DEF CommitTypes, VerifyReconstructs, JobFails, JobOver, Post
  <2>2. OtherTypes'
    BY <1>12, <1>a, BoundsAssumption, CodesAssumption DEF OtherTypes, VerifyReconstructs, JobFails,
       JobOver, Post
  <2>3. CommitsFit'
    BY <1>12, <1>a, <1>b, <1>c DEF CommitsFit, HasGenerated, VerifyReconstructs, JobFails, JobOver,
       Post
  <2>4. JobHonest'
    BY <1>12, <1>a DEF JobHonest, HasGenerated, Describes, SameDefinition, OtherTypes,
       VerifyReconstructs, JobFails, JobOver, Post
  <2>5. OnlyGenuineAttested' /\ DefinitionsReached'
    BY <1>12, <1>a, <1>c DEF OnlyGenuineAttested, DefinitionsReached, Genuine, OtherTypes,
       HasGenerated, VerifyReconstructs, JobFails, JobOver, Post
  <2>6. LastLook' /\ SeenAttested' /\ Bound'
    BY <1>12, <1>a DEF LastLook, SeenAttested, Bound, Genuine, OtherTypes, VerifyReconstructs,
       JobFails, JobOver, Post
  <2>7. Flags'  BY <1>12, <1>a, Zenon DEF Flags, VerifyReconstructs, JobFails, JobOver, Post
  <2> QED  BY <2>1, <2>2, <2>3, <2>4, <2>5, <2>6, <2>7, TypeParts DEF IInv
<1>13. CASE VerifyAttested
  <2>1. CommitTypes'
    BY <1>13, <1>a, <1>b, <1>c DEF CommitTypes, VerifyAttested, JobFails, JobOver, Post
  <2>2. OtherTypes'
    BY <1>13, <1>a, BoundsAssumption, CodesAssumption DEF OtherTypes, VerifyAttested, JobFails,
       JobOver, Post
  <2>3. CommitsFit'
    BY <1>13, <1>a, <1>b, <1>c DEF CommitsFit, HasGenerated, VerifyAttested, JobFails, JobOver, Post
  <2>4. JobHonest'
    BY <1>13, <1>a DEF JobHonest, HasGenerated, Describes, SameDefinition, OtherTypes,
       VerifyAttested, JobFails, JobOver, Post
  <2>5. OnlyGenuineAttested' /\ DefinitionsReached'
    BY <1>13, <1>a, <1>c DEF OnlyGenuineAttested, DefinitionsReached, Genuine, OtherTypes,
       HasGenerated, VerifyAttested, JobFails, JobOver, Post
  <2>6. LastLook' /\ SeenAttested' /\ Bound'
    BY <1>13, <1>a DEF LastLook, SeenAttested, Bound, Genuine, OtherTypes, VerifyAttested, JobFails,
       JobOver, Post
  <2>7. Flags'  BY <1>13, <1>a, Zenon DEF Flags, VerifyAttested, JobFails, JobOver, Post
  <2> QED  BY <2>1, <2>2, <2>3, <2>4, <2>5, <2>6, <2>7, TypeParts DEF IInv
<1>14. CASE PostEvidence
  <2>1. CommitTypes'  BY <1>14, <1>a, <1>b, <1>c DEF CommitTypes, PostEvidence, Post
  <2>2. OtherTypes'
    BY <1>14, <1>a, BoundsAssumption, CodesAssumption DEF OtherTypes, PostEvidence, Post
  <2>3. CommitsFit'  BY <1>14, <1>a, <1>b, <1>c DEF CommitsFit, HasGenerated, PostEvidence, Post
  <2>4. JobHonest'
    BY <1>14, <1>a DEF JobHonest, HasGenerated, Describes, SameDefinition, OtherTypes, PostEvidence,
       Post
  <2>5. OnlyGenuineAttested' /\ DefinitionsReached'
    BY <1>14, <1>a, <1>c DEF OnlyGenuineAttested, DefinitionsReached, Genuine, OtherTypes,
       HasGenerated, PostEvidence, Post
  <2>6. LastLook' /\ SeenAttested' /\ Bound'
    BY <1>14, <1>a DEF LastLook, SeenAttested, Bound, Genuine, OtherTypes, PostEvidence, Post
  <2>7. Flags'  BY <1>14, <1>a, Zenon DEF Flags, PostEvidence, Post
  <2> QED  BY <2>1, <2>2, <2>3, <2>4, <2>5, <2>6, <2>7, TypeParts DEF IInv
<1>15. CASE PostCode
  <2>1. CommitTypes'  BY <1>15, <1>a, <1>b, <1>c DEF CommitTypes, PostCode, JobOver, Post
  <2>2. OtherTypes'
    BY <1>15, <1>a, BoundsAssumption, CodesAssumption DEF OtherTypes, PostCode, JobOver, Post
  <2>3. CommitsFit'
    BY <1>15, <1>a, <1>b, <1>c DEF CommitsFit, HasGenerated, PostCode, JobOver, Post
  <2>4. JobHonest'
    BY <1>15, <1>a DEF JobHonest, HasGenerated, Describes, SameDefinition, OtherTypes, PostCode,
       JobOver, Post
  <2>5. OnlyGenuineAttested' /\ DefinitionsReached'
    BY <1>15, <1>a, <1>c DEF OnlyGenuineAttested, DefinitionsReached, Genuine, OtherTypes,
       HasGenerated, PostCode, JobOver, Post
  <2>6. LastLook' /\ SeenAttested' /\ Bound'
    BY <1>15, <1>a DEF LastLook, SeenAttested, Bound, Genuine, OtherTypes, PostCode, JobOver, Post
  <2>7. Flags'  BY <1>15, <1>a, Zenon DEF Flags, PostCode, JobOver, Post
  <2> QED  BY <2>1, <2>2, <2>3, <2>4, <2>5, <2>6, <2>7, TypeParts DEF IInv
<1>16. CASE CallFails
  <2>1. CommitTypes'  BY <1>16, <1>a, <1>b, <1>c DEF CommitTypes, CallFails, JobOver, Post, Fault
  <2>2. OtherTypes'
    BY <1>16, <1>a, BoundsAssumption, CodesAssumption DEF OtherTypes, CallFails, JobOver, Post,
       Fault
  <2>3. CommitsFit'
    BY <1>16, <1>a, <1>b, <1>c DEF CommitsFit, HasGenerated, CallFails, JobOver, Post, Fault
  <2>4. JobHonest'
    BY <1>16, <1>a DEF JobHonest, HasGenerated, Describes, SameDefinition, OtherTypes, CallFails,
       JobOver, Post, Fault
  <2>5. OnlyGenuineAttested' /\ DefinitionsReached'
    BY <1>16, <1>a, <1>c DEF OnlyGenuineAttested, DefinitionsReached, Genuine, OtherTypes,
       HasGenerated, CallFails, JobOver, Post, Fault
  <2>6. LastLook' /\ SeenAttested' /\ Bound'
    BY <1>16, <1>a DEF LastLook, SeenAttested, Bound, Genuine, OtherTypes, CallFails, JobOver, Post,
       Fault
  <2>7. Flags'  BY <1>16, <1>a, Zenon DEF Flags, CallFails, JobOver, Post, Fault
  <2> QED  BY <2>1, <2>2, <2>3, <2>4, <2>5, <2>6, <2>7, TypeParts DEF IInv
<1>17. CASE Advise
  <2>1. CommitTypes'  BY <1>17, <1>a, <1>b, <1>c DEF CommitTypes, Advise
  <2>2. OtherTypes'  BY <1>17, <1>a, BoundsAssumption, CodesAssumption DEF OtherTypes, Advise
  <2>3. CommitsFit'  BY <1>17, <1>a, <1>b, <1>c DEF CommitsFit, HasGenerated, Advise
  <2>4. JobHonest'
    BY <1>17, <1>a DEF JobHonest, HasGenerated, Describes, SameDefinition, OtherTypes, Advise
  <2>5. OnlyGenuineAttested' /\ DefinitionsReached'
    BY <1>17, <1>a, <1>c DEF OnlyGenuineAttested, DefinitionsReached, Genuine, OtherTypes,
       HasGenerated, Advise
  <2>6. LastLook' /\ SeenAttested' /\ Bound'
    BY <1>17, <1>a DEF LastLook, SeenAttested, Bound, Genuine, OtherTypes, Advise
  <2>7. Flags'  BY <1>17, <1>a, Zenon DEF Flags, Advise
  <2> QED  BY <2>1, <2>2, <2>3, <2>4, <2>5, <2>6, <2>7, TypeParts DEF IInv
<1>18. CASE ValidateRead
  <2>1. CommitTypes'  BY <1>18, <1>a, <1>b, <1>c DEF CommitTypes, ValidateRead
  <2>2. OtherTypes'  BY <1>18, <1>a, BoundsAssumption, CodesAssumption DEF OtherTypes, ValidateRead
  <2>3. CommitsFit'  BY <1>18, <1>a, <1>b, <1>c DEF CommitsFit, HasGenerated, ValidateRead
  <2>4. JobHonest'
    BY <1>18, <1>a DEF JobHonest, HasGenerated, Describes, SameDefinition, OtherTypes, ValidateRead
  <2>5. OnlyGenuineAttested' /\ DefinitionsReached'
    BY <1>18, <1>a, <1>c DEF OnlyGenuineAttested, DefinitionsReached, Genuine, OtherTypes,
       HasGenerated, ValidateRead
  <2>6. LastLook' /\ SeenAttested' /\ Bound'
    BY <1>18, <1>a DEF LastLook, SeenAttested, Bound, Genuine, OtherTypes, ValidateRead
  <2>7. Flags'  BY <1>18, <1>a, Zenon DEF Flags, ValidateRead
  <2> QED  BY <2>1, <2>2, <2>3, <2>4, <2>5, <2>6, <2>7, TypeParts DEF IInv
<1>19. CASE ValidateFetch
  <2>1. CommitTypes'  BY <1>19, <1>a, <1>b, <1>c DEF CommitTypes, ValidateFetch, Reading
  <2>2. OtherTypes'
    BY <1>19, <1>a, BoundsAssumption, CodesAssumption DEF OtherTypes, ValidateFetch, Reading
  <2>3. CommitsFit'  BY <1>19, <1>a, <1>b, <1>c DEF CommitsFit, HasGenerated, ValidateFetch, Reading
  <2>4. JobHonest'
    BY <1>19, <1>a DEF JobHonest, HasGenerated, Describes, SameDefinition, OtherTypes,
       ValidateFetch, Reading
  <2>5. OnlyGenuineAttested' /\ DefinitionsReached'
    BY <1>19, <1>a, <1>c DEF OnlyGenuineAttested, DefinitionsReached, Genuine, OtherTypes,
       HasGenerated, ValidateFetch, Reading
  <2>6. LastLook' /\ SeenAttested' /\ Bound'
    BY <1>19, <1>a DEF LastLook, SeenAttested, Bound, Genuine, OtherTypes, ValidateFetch, Reading
  <2>7. Flags'  BY <1>19, <1>a, Zenon DEF Flags, ValidateFetch, Reading
  <2> QED  BY <2>1, <2>2, <2>3, <2>4, <2>5, <2>6, <2>7, TypeParts DEF IInv
<1>20. CASE ValidateReadsHead
  <2>1. CommitTypes'  BY <1>20, <1>a, <1>b, <1>c DEF CommitTypes, ValidateReadsHead, Reading
  <2>2. OtherTypes'
    BY <1>20, <1>a, BoundsAssumption, CodesAssumption DEF OtherTypes, ValidateReadsHead, Reading
  <2>3. CommitsFit'
    BY <1>20, <1>a, <1>b, <1>c DEF CommitsFit, HasGenerated, ValidateReadsHead, Reading
  <2>4. JobHonest'
    BY <1>20, <1>a DEF JobHonest, HasGenerated, Describes, SameDefinition, OtherTypes,
       ValidateReadsHead, Reading
  <2>5. OnlyGenuineAttested' /\ DefinitionsReached'
    BY <1>20, <1>a, <1>c DEF OnlyGenuineAttested, DefinitionsReached, Genuine, OtherTypes,
       HasGenerated, ValidateReadsHead, Reading
  <2>6. LastLook' /\ SeenAttested' /\ Bound'
    BY <1>20, <1>a DEF LastLook, SeenAttested, Bound, Genuine, OtherTypes, ValidateReadsHead,
       Reading
  <2>7. Flags'  BY <1>20, <1>a, Zenon DEF Flags, ValidateReadsHead, Reading
  <2> QED  BY <2>1, <2>2, <2>3, <2>4, <2>5, <2>6, <2>7, TypeParts DEF IInv
<1>21. CASE ValidateFetches
  <2>1. CommitTypes'
    BY <1>21, <1>a, <1>b, <1>c DEF CommitTypes, ValidateFetches, Reading, FetchedHeadIs
  <2>2. OtherTypes'
    BY <1>21, <1>a, BoundsAssumption, CodesAssumption DEF OtherTypes, ValidateFetches, Reading,
       FetchedHeadIs
  <2>3. CommitsFit'
    BY <1>21, <1>a, <1>b, <1>c DEF CommitsFit, HasGenerated, ValidateFetches, Reading, FetchedHeadIs
  <2>4. JobHonest'
    BY <1>21, <1>a DEF JobHonest, HasGenerated, Describes, SameDefinition, OtherTypes,
       ValidateFetches, Reading, FetchedHeadIs
  <2>5. OnlyGenuineAttested' /\ DefinitionsReached'
    BY <1>21, <1>a, <1>c DEF OnlyGenuineAttested, DefinitionsReached, Genuine, OtherTypes,
       HasGenerated, ValidateFetches, Reading, FetchedHeadIs
  <2>6. LastLook' /\ SeenAttested' /\ Bound'
    BY <1>21, <1>a DEF LastLook, SeenAttested, Bound, Genuine, OtherTypes, ValidateFetches, Reading,
       FetchedHeadIs
  <2>7. Flags'  BY <1>21, <1>a, Zenon DEF Flags, ValidateFetches, Reading, FetchedHeadIs
  <2> QED  BY <2>1, <2>2, <2>3, <2>4, <2>5, <2>6, <2>7, TypeParts DEF IInv
<1>22. CASE ValidateReconstructs
  <2>1. CommitTypes'
    BY <1>22, <1>a, <1>b, <1>c DEF CommitTypes, ValidateReconstructs, Reading, Refused
  <2>2. OtherTypes'
    BY <1>22, <1>a, BoundsAssumption, CodesAssumption DEF OtherTypes, ValidateReconstructs, Reading,
       Refused
  <2>3. CommitsFit'
    BY <1>22, <1>a, <1>b, <1>c DEF CommitsFit, HasGenerated, ValidateReconstructs, Reading, Refused
  <2>4. JobHonest'
    BY <1>22, <1>a DEF JobHonest, HasGenerated, Describes, SameDefinition, OtherTypes,
       ValidateReconstructs, Reading, Refused
  <2>5. OnlyGenuineAttested' /\ DefinitionsReached'
    BY <1>22, <1>a, <1>c DEF OnlyGenuineAttested, DefinitionsReached, Genuine, OtherTypes,
       HasGenerated, ValidateReconstructs, Reading, Refused
  <2>6. LastLook' /\ SeenAttested' /\ Bound'
    BY <1>22, <1>a DEF LastLook, SeenAttested, Bound, Genuine, OtherTypes, ValidateReconstructs,
       Reading, Refused
  <2>7. Flags'  BY <1>22, <1>a, Zenon DEF Flags, ValidateReconstructs, Reading, Refused
  <2> QED  BY <2>1, <2>2, <2>3, <2>4, <2>5, <2>6, <2>7, TypeParts DEF IInv
<1>23. CASE ValidateAttested
  <2>1. CommitTypes'
    BY <1>23, <1>a, <1>b, <1>c DEF CommitTypes, ValidateAttested, Reading, Refused, Attested
  <2>2. OtherTypes'
    BY <1>23, <1>a, BoundsAssumption, CodesAssumption DEF OtherTypes, ValidateAttested, Reading,
       Refused, Attested
  <2>3. CommitsFit'
    BY <1>23, <1>a, <1>b, <1>c DEF CommitsFit, HasGenerated, ValidateAttested, Reading, Refused,
       Attested
  <2>4. JobHonest'
    BY <1>23, <1>a DEF JobHonest, HasGenerated, Describes, SameDefinition, OtherTypes,
       ValidateAttested, Reading, Refused, Attested
  <2>5. OnlyGenuineAttested' /\ DefinitionsReached'
    BY <1>23, <1>a, <1>c DEF OnlyGenuineAttested, DefinitionsReached, Genuine, OtherTypes,
       HasGenerated, ValidateAttested, Reading, Refused, Attested
  <2>6. LastLook' /\ SeenAttested' /\ Bound'
    BY <1>23, <1>a DEF LastLook, SeenAttested, Bound, Genuine, OtherTypes, OnlyGenuineAttested,
       DefinitionsReached, ValidateAttested, Reading, Refused, Attested
  <2>7. Flags'  BY <1>23, <1>a, Zenon DEF Flags, ValidateAttested, Reading, Refused, Attested
  <2> QED  BY <2>1, <2>2, <2>3, <2>4, <2>5, <2>6, <2>7, TypeParts DEF IInv
<1>24. CASE Accept
  <2>1. CommitTypes'  BY <1>24, <1>a, <1>b, <1>c DEF CommitTypes, Accept, Refused
  <2>2. OtherTypes'
    BY <1>24, <1>a, BoundsAssumption, CodesAssumption DEF OtherTypes, Accept, Refused
  <2>3. CommitsFit'  BY <1>24, <1>a, <1>b, <1>c DEF CommitsFit, HasGenerated, Accept, Refused
  <2>4. JobHonest'
    BY <1>24, <1>a DEF JobHonest, HasGenerated, Describes, SameDefinition, OtherTypes, Accept,
       Refused
  <2>5. OnlyGenuineAttested' /\ DefinitionsReached'
    BY <1>24, <1>a, <1>c DEF OnlyGenuineAttested, DefinitionsReached, Genuine, OtherTypes,
       HasGenerated, SeenAttested, Accept, Refused
  <2>6. LastLook' /\ SeenAttested' /\ Bound'
    BY <1>24, <1>a DEF LastLook, SeenAttested, Bound, Genuine, OtherTypes, Accept, Refused
  <2>7. Flags'  BY <1>24, <1>a, Zenon DEF Flags, Accept, Refused
  <2> QED  BY <2>1, <2>2, <2>3, <2>4, <2>5, <2>6, <2>7, TypeParts DEF IInv
<1>25. CASE ValidateFails
  <2>1. CommitTypes'  BY <1>25, <1>a, <1>b, <1>c DEF CommitTypes, ValidateFails, Reading, Refused
  <2>2. OtherTypes'
    BY <1>25, <1>a, BoundsAssumption, CodesAssumption DEF OtherTypes, ValidateFails, Reading,
       Refused
  <2>3. CommitsFit'
    BY <1>25, <1>a, <1>b, <1>c DEF CommitsFit, HasGenerated, ValidateFails, Reading, Refused
  <2>4. JobHonest'
    BY <1>25, <1>a DEF JobHonest, HasGenerated, Describes, SameDefinition, OtherTypes,
       ValidateFails, Reading, Refused
  <2>5. OnlyGenuineAttested' /\ DefinitionsReached'
    BY <1>25, <1>a, <1>c DEF OnlyGenuineAttested, DefinitionsReached, Genuine, OtherTypes,
       HasGenerated, ValidateFails, Reading, Refused
  <2>6. LastLook' /\ SeenAttested' /\ Bound'
    BY <1>25, <1>a DEF LastLook, SeenAttested, Bound, Genuine, OtherTypes, ValidateFails, Reading,
       Refused
  <2>7. Flags'  BY <1>25, <1>a, Zenon DEF Flags, ValidateFails, Reading, Refused
  <2> QED  BY <2>1, <2>2, <2>3, <2>4, <2>5, <2>6, <2>7, TypeParts DEF IInv
<1> QED
  BY <1>1, <1>2, <1>3, <1>4, <1>5, <1>6, <1>7, <1>8, <1>9, <1>10, <1>11, <1>12, <1>13, <1>14, <1>15,
     <1>16, <1>17, <1>18, <1>19, <1>20, <1>21, <1>22, <1>23, <1>24, <1>25 DEF Next, Publish,
     Validate

-----------------------------------------------------------------------------
(* The theorems. *)

\* The inductive invariant holds in every reachable state.
THEOREM Invariance == Spec => []IInv
<1>1. Init => IInv
  <2> SUFFICES ASSUME Init PROVE IInv  OBVIOUS
  <2>1. PICK c \in Codes : head = <<Code(c)>>  BY DEF Init
  <2>2. head \in Seq(Changes) /\ Len(head) = 1  BY <2>1 DEF Changes
  <2>3. Commit(head) /\ Fits(head)
    <3>1. Commit(head)  BY <2>2, BoundsAssumption DEF Commit
    <3>2. Len(head) # MaxCommits + 1  BY <2>2, BoundsAssumption
    <3> QED  BY <3>1, <3>2 DEF Fits
  <2>4. CommitTypes  BY <2>3, NoCommitFits DEF Init, CommitTypes, Fits
  <2>5. OtherTypes  BY BoundsAssumption, CodesAssumption DEF Init, OtherTypes
  <2>6. CommitsFit  BY <2>3, NoCommitFits DEF Init, CommitsFit
  <2>7. JobHonest /\ OnlyGenuineAttested /\ DefinitionsReached /\ LastLook /\ SeenAttested /\ Bound
    BY DEF Init, JobHonest, HasGenerated, OnlyGenuineAttested, DefinitionsReached, LastLook,
       SeenAttested, Bound
  <2>8. Flags  BY Zenon DEF Init, Flags
  <2> QED  BY <2>4, <2>5, <2>6, <2>7, <2>8, TypeParts DEF IInv
<1>2. IInv /\ [Next]_vars => IInv'
  <2> SUFFICES ASSUME IInv, UNCHANGED vars PROVE IInv'  BY Preserved
  <2> USE DEF vars, github, status, facts, job, validation, advice, bounds
  <2>1. TypeOK'  BY DEF IInv, TypeOK
  <2>2. CommitsFit' /\ JobHonest'
    BY DEF IInv, CommitsFit, JobHonest, HasGenerated, Describes, SameDefinition
  <2>3. OnlyGenuineAttested' /\ DefinitionsReached' /\ LastLook' /\ SeenAttested'
        /\ Bound'
    BY DEF IInv, OnlyGenuineAttested, DefinitionsReached, Genuine, LastLook, SeenAttested, Bound
  <2> QED  BY <2>1, <2>2, <2>3 DEF IInv
<1> QED  BY <1>1, <1>2, PTL DEF Spec

\* Commits, statuses and the job keep their types; no branch outgrows what the
\* author may push and one commit of the publisher.
THEOREM TypeCorrect == Spec => []TypeOK
<1>1. IInv => TypeOK  BY DEF IInv
<1> QED  BY <1>1, Invariance, PTL

\* Nothing but a publisher's snapshot of tested code under a definition that the
\* default branch had is ever green or carries an accepted opinion, however the
\* author pushes meanwhile (verify_evidence_head, validate_advisor_opinion).
THEOREM AttestedIsGenuine == Spec => []OnlyGenuineAttested
<1>1. IInv => OnlyGenuineAttested  BY DEF IInv
<1> QED  BY <1>1, Invariance, PTL

\* The publisher's push loses no commit of the branch as it is, and what it adds
\* ends in a snapshot of tested code (generate, the push without --force).
THEOREM PublisherOnlyAdds == Spec => PublisherOnlyAddsToTestedCode
<1> DEFINE A == head' # head /\ pushes' = pushes =>
                   /\ IsPrefix(head, head')
                   /\ IsEvidence(head') /\ ~IsEvidence(Parent(head')) /\ Parent(head') \in everPassed
<1>1. IInv /\ [Next]_vars => [A]_vars
  <2> SUFFICES ASSUME IInv, Next, head' # head, pushes' = pushes
               PROVE  /\ IsPrefix(head, head')
                      /\ IsEvidence(head') /\ ~IsEvidence(Parent(head'))
                      /\ Parent(head') \in everPassed
    OBVIOUS
  <2>1. pushes \in Nat  BY BoundsAssumption DEF IInv, TypeOK
  <2>2. ~AuthorPush  BY <2>1 DEF AuthorPush
  <2>3. Push /\ step = "push" /\ IsPrefix(head, local) /\ head' = local
    BY <2>2 DEF Next, Publish, Validate, CiCompletes, BaseMoves, StartJob, VerifyDefinition,
       ReadPullRequest, GenerateFetches, Generate, Push, VerifyReadsHead, VerifyFetches,
       VerifyReconstructs, VerifyAttested, PostEvidence, PostCode, CallFails, Advise, ValidateRead,
       ValidateFetch, ValidateReadsHead, ValidateFetches, ValidateReconstructs, ValidateAttested,
       Accept, ValidateFails, Reading, github
  <2>4. Describes /\ SameDefinition(codeSha, trusted)
    BY <2>3 DEF IInv, JobHonest, HasGenerated
  <2>5. IsEvidence(local) /\ Parent(local) = read
    BY <2>4, DescribedFacts DEF IInv
  <2> QED  BY <2>3, <2>4, <2>5 DEF Describes
<1>2. [][A]_vars <=> PublisherOnlyAddsToTestedCode  BY DEF PublisherOnlyAddsToTestedCode
<1> QED  BY <1>1, <1>2, Invariance, PTL DEF Spec

\* An opinion is accepted on the code the pull request has, or a push landed after
\* the validation's last look at the branch (validate_advisor_opinion).
THEOREM AcceptedIsCurrent == Spec => AcceptedUnlessOvertaken
<1> DEFINE A == \A e \in valid' \ valid : CodeOf(head) = CodeOf(e) \/ overtaken
<1>1. IInv /\ [Next]_vars => [A]_vars
  <2> SUFFICES ASSUME IInv, Next, NEW e \in valid' \ valid
               PROVE  CodeOf(head) = CodeOf(e) \/ overtaken
    OBVIOUS
  <2>0. valid' # valid  OBVIOUS
  <2>1. Accept
    BY <2>0 DEF Next, Publish, Validate, AuthorPush, CiCompletes, BaseMoves, StartJob,
       VerifyDefinition, ReadPullRequest, GenerateFetches, Generate, Push, VerifyReadsHead,
       VerifyFetches, VerifyReconstructs, VerifyAttested, PostEvidence, PostCode, CallFails, Advise,
       ValidateRead, ValidateFetch, ValidateReadsHead, ValidateFetches, ValidateReconstructs,
       ValidateAttested, ValidateFails, Reading, validation, advice
  <2>2. e = opinion /\ vstep = "accept"  BY <2>1 DEF Accept
  <2>3. head = opinion \/ overtaken  BY <2>2 DEF IInv, LastLook
  <2> QED  BY <2>2, <2>3
<1>2. [][A]_vars <=> AcceptedUnlessOvertaken  BY DEF AcceptedUnlessOvertaken
<1> QED  BY <1>1, <1>2, Invariance, PTL DEF Spec
=============================================================================
