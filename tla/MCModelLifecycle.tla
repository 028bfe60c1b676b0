------------------------- MODULE MCModelLifecycle -------------------------
(* Runs of increasing accuracy. *)
EXTENDS ModelLifecycle, TLC

CONSTANTS m1, m2, m3

MCAccuracy == [r \in Runs |-> IF r = m1 THEN 1 ELSE IF r = m2 THEN 2 ELSE 3]

\* Tasks and threads of one kind are interchangeable, and every property of the
\* run is one of safety.
Symmetry == Permutations(Trainers) \cup Permutations(Loaders) \cup Permutations(Promoters)

=============================================================================
