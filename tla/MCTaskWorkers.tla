---------------------------- MODULE MCTaskWorkers ----------------------------
(* Four tasks: c is behind a and b, d behind c; a and c may be retried once. *)
(* Sorted by priority and age: a, b, c, d.                                    *)
EXTENDS TaskWorkers

CONSTANTS a, b, c, d

MCTasks      == {a, b, c, d}
MCDeps       == [t \in MCTasks |-> CASE t = c -> {a, b} [] t = d -> {c} [] OTHER -> {}]
MCMaxRetries == [t \in MCTasks |-> IF t \in {a, c} THEN 1 ELSE 0]
MCRank       == [t \in MCTasks |-> CASE t = a -> 1 [] t = b -> 2 [] t = c -> 3 [] t = d -> 4]
MCBefore(t, u) == MCRank[t] < MCRank[u]
=============================================================================
