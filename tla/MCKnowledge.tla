----------------------------- MODULE MCKnowledge -----------------------------
(***************************************************************************)
(* A small instance of Knowledge for TLC: three requests on an entry with  *)
(* a title and a category.                                                 *)
(***************************************************************************)
EXTENDS Knowledge, TLC

\* Requests, and likewise texts, differ in their names only.
Symmetry == Permutations(Sessions) \cup Permutations(Texts)

=============================================================================
