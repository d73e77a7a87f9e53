---------------------------- MODULE MCReviewGate ----------------------------
(***************************************************************************)
(* ReviewGate with one source file, which may also be moved below          *)
(* docs/evidence/, and the trees that they make up.                        *)
(***************************************************************************)
EXTENDS ReviewGate

CONSTANTS src, doc, v1, v2, none

SomeTrees ==
    {[p \in {src, doc} |-> IF p = src THEN t[1] ELSE t[2]] :
        t \in {<<v1, none>>, <<v2, none>>, <<none, none>>, <<none, v1>>}}
StartTree == [p \in {src, doc} |-> IF p = src THEN v1 ELSE none]
SomeOpinions ==
    {[trusted |-> TRUE, verdict |-> v] : v \in {"approved", "changes_requested"}} \cup
    {[trusted |-> FALSE, verdict |-> "approved"]}
=============================================================================
