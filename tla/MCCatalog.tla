----------------------------- MODULE MCCatalog -----------------------------
(* Two rows at most, two requests at a time, one fault. *)
EXTENDS Catalog, TLC

\* Requests, ids and files are interchangeable, and every property of the run is
\* one of safety.
Symmetry == Permutations(Requests) \cup Permutations(Ids) \cup Permutations(Files)

=============================================================================
