---------------------------- MODULE MCPdfVersions ----------------------------
(***************************************************************************)
(* PdfVersions on small instances.  Requests, products and contents are    *)
(* interchangeable, so the safety runs identify states up to a permutation *)
(* of them; the liveness run does not.                                     *)
(***************************************************************************)
EXTENDS PdfVersions, TLC

Interchangeable ==
    Permutations(Requests) \cup Permutations(Products) \cup Permutations(Contents)
=============================================================================
