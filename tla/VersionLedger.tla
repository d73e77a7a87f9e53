---------------------------- MODULE VersionLedger ----------------------------
(***************************************************************************)
(* What version management promises to the rest of the system, with no     *)
(* transactions, locks, files or requests: every product has an            *)
(* append-only history of PDF contents and shows one of them.              *)
(* PdfVersions is shown to implement this specification.                   *)
(***************************************************************************)
EXTENDS Sequences, Naturals

CONSTANTS Products, Contents,
          NoContent      \* what a product shows before its first upload

VARIABLES catalog,       \* the products that exist
          status,        \* "active" or "disabled", per product
          history,       \* the contents of the product's versions, oldest first
          shown          \* the content of the current version

ledgerVars == <<catalog, status, history, shown>>

LedgerInit ==
    /\ catalog = {}
    /\ status  = [p \in Products |-> "active"]
    /\ history = [p \in Products |-> << >>]
    /\ shown   = [p \in Products |-> NoContent]

\* A product enters the catalog active and without a version.
Create(p) ==
    /\ p \notin catalog
    /\ catalog' = catalog \cup {p}
    /\ UNCHANGED <<status, history, shown>>

\* An upload appends one version and shows it; the content that is already
\* shown is never appended again.
Upload(p, c) ==
    /\ p \in catalog
    /\ c # shown[p]
    /\ history' = [history EXCEPT ![p] = Append(@, c)]
    /\ shown'   = [shown EXCEPT ![p] = c]
    /\ UNCHANGED <<catalog, status>>

\* A restore shows a content of the product's own history, which it leaves alone.
Restore(p, i) ==
    /\ p \in catalog
    /\ i \in DOMAIN history[p]
    /\ shown' = [shown EXCEPT ![p] = history[p][i]]
    /\ UNCHANGED <<catalog, status, history>>

SetStatus(p, s) ==
    /\ p \in catalog
    /\ status' = [status EXCEPT ![p] = s]
    /\ UNCHANGED <<catalog, history, shown>>

LedgerNext ==
    \E p \in Products :
        \/ Create(p)
        \/ \E c \in Contents : Upload(p, c)
        \/ \E i \in DOMAIN history[p] : Restore(p, i)
        \/ \E s \in {"active", "disabled"} : SetStatus(p, s)

LedgerSpec == LedgerInit /\ [][LedgerNext]_ledgerVars
=============================================================================
