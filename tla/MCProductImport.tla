--------------------------- MODULE MCProductImport ---------------------------
(***************************************************************************)
(* ProductImport on small instances: two codes, one of them with a second  *)
(* spelling, and one spelling that is not a code.                          *)
(***************************************************************************)
EXTENDS ProductImport, TLC

CONSTANTS A, B

Normalized == [x \in {"a", "A ", "b", "?"} |->
                  CASE x \in {"a", "A "} -> A [] x = "b" -> B [] OTHER -> Invalid]

Interchangeable == Permutations(Requests) \cup Permutations(Tokens)
=============================================================================
