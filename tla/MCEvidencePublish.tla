-------------------------- MODULE MCEvidencePublish --------------------------
(***************************************************************************)
(* EvidencePublish with one ordinary code change and one that brings a CI  *)
(* definition of its own, which reaches the default branch later.          *)
(***************************************************************************)
EXTENDS EvidencePublish

CONSTANTS plain, gate

DefinitionOfChange == [c \in {plain, gate} |-> IF c = gate THEN 1 ELSE 0]
=============================================================================
