------------------------------ MODULE Sovereign ------------------------------
(***************************************************************************)
(* The Sovereign of src/agent/sovereign: the swarm's loop, the manager that  *)
(* sends it goals, the pulse that finds goals, and the memory graph.  All    *)
(* its calls are synchronous and none is made in a thread, so each is one    *)
(* step.  An implementation, a critique, a lesson is known by the goal it    *)
(* was made for, or by its node.                                             *)
(***************************************************************************)
EXTENDS Naturals, SequencesExt, FiniteSetsExt

CONSTANTS
    Goals,
    NoGoal,
    MaxIterations,  \* max_iterations
    MaxGoals,       \* bound: goals in all
    Nodes,          \* ids of memory nodes
    Tags

ASSUME IterationsAssumption == MaxIterations \in Nat

Tiers == {"episodic", "semantic"}

VARIABLES
    iterations,     \* iteration_count
    context,        \* current_context: last_implementation and last_critique
    nodes,          \* _nodes: the nodes stored, with tier and tags
    byTag,          \* _index_by_tag: the nodes of each tag
    links,          \* related_nodes
    goals,          \* how many goals were given
    result,         \* history: what the last run_loop returned, with its goal
    invoked         \* history: invocations of the Executor

sovereign == <<iterations, context, nodes, byTag, links, goals, result, invoked>>

engine == <<iterations, context, goals, result, invoked>>
graph  == <<nodes, byTag, links>>

SovereignInit ==
    /\ iterations = 0
    /\ context = [implementation |-> NoGoal, critique |-> NoGoal]
    /\ nodes = <<>>
    /\ byTag = [t \in Tags |-> {}]
    /\ links = [n \in Nodes |-> <<>>]
    /\ goals = 0
    /\ result = [goal |-> NoGoal, implementation |-> NoGoal, critique |-> NoGoal]
    /\ invoked = 0

-----------------------------------------------------------------------------
(* SwarmEngine. *)

\* The Critic finds flaws in the first iteration and in no other.
Flawed(i) == i < 2

\* Mutant: an iteration that is approved is not counted.
IterateBeforeCount(from) ==
    IF from >= MaxIterations THEN <<from, from>>
    ELSE LET ends == {i \in from + 1 .. MaxIterations : ~Flawed(i) \/ i = MaxIterations}
         IN <<Min(ends) - 1, Min(ends)>>

\* The count after the loop, and the iteration it ends in: the first one approved,
\* or the last that is left of all the goals' iterations.
Iterate(from) ==
    IF from >= MaxIterations THEN <<from, from>>
    ELSE LET ends == {i \in from + 1 .. MaxIterations : ~Flawed(i) \/ i = MaxIterations}
         IN <<Min(ends), Min(ends)>>

\* What run_loop does to the engine.  Neither the count nor the context is reset.
Loop(g) ==
    LET last == Iterate(iterations)[2] IN
    /\ goals < MaxGoals
    /\ goals' = goals + 1
    /\ iterations' = Iterate(iterations)[1]
    /\ invoked' = invoked + (last - iterations)
    /\ context' = [implementation |-> IF last > iterations THEN g ELSE context.implementation,
                   critique |-> IF \E i \in iterations + 1 .. last : Flawed(i) THEN g
                                ELSE context.critique]

RunLoop(g) ==
    /\ Loop(g)
    /\ result' = [goal |-> g, implementation |-> context'.implementation,
                  critique |-> context'.critique]
    /\ UNCHANGED graph

-----------------------------------------------------------------------------
(* SovereignManager and IntentGenerator. *)

\* The verifier's answer has three parts and is unpacked into two: the task ends
\* in ValueError once the swarm has run, before the Judge and the memory.
ExecuteOmegaTask(g) ==
    /\ Loop(g)
    /\ UNCHANGED <<graph, result>>

\* The pulse finds a goal in slow calls, one out of curiosity, or both; failures
\* are looked for with Python's `not`, which finds none.  The first goal's error
\* ends the cycle.
RunAutonomousCycle(found) ==
    /\ found # <<>>
    /\ ExecuteOmegaTask(Head(found))

-----------------------------------------------------------------------------
(* SovereignMemory. *)

Stored == DOMAIN nodes

\* Mutant: only the first nodes of a tag are put in the index.
IndexedFirst(new, tags) ==
    [t \in Tags |-> IF byTag[t] = {} THEN {n \in new : t \in tags[n]} ELSE byTag[t]]

\* The index with the new nodes under their tags.
Indexed(new, tags) == [t \in Tags |-> byTag[t] \cup {n \in new : t \in tags[n]}]

\* The node's id is random, of 32 bits, taken to be new.
Commit(n, tier, tags) ==
    /\ n \notin Stored
    /\ nodes' = [m \in Stored \cup {n} |-> IF m = n THEN [tier |-> tier, tags |-> tags] ELSE nodes[m]]
    /\ byTag' = Indexed({n}, [m \in {n} |-> tags])
    /\ UNCHANGED <<links, engine>>

\* A node linked to itself is entered twice.
LinkNodes(a, b) ==
    /\ {a, b} \subseteq Stored
    /\ Len(links[a]) + Len(links[b]) < 4
    /\ LET one == [links EXCEPT ![a] = Append(@, b)]
       IN links' = [one EXCEPT ![b] = Append(@, a)]
    /\ UNCHANGED <<nodes, byTag, engine>>

\* The rules that a model distils from episodic nodes are committed one by one,
\* under the tags it gives them; an exception on the way keeps those before it.
DistillLessons(rules, tags) ==
    /\ rules # <<>>
    /\ ToSet(rules) \cap Stored = {}
    /\ \E k \in 0 .. Len(rules) :
          LET kept == {rules[i] : i \in 1 .. k} IN
          /\ nodes' = [m \in Stored \cup kept |->
                          IF m \in kept THEN [tier |-> "semantic", tags |-> tags[m]] ELSE nodes[m]]
          /\ byTag' = Indexed(kept, tags)
    /\ UNCHANGED <<links, engine>>

\* The nodes that a query by tags, and by tier if one is given, chooses from.
Candidates(tags, tiers) ==
    {n \in UNION {byTag[t] : t \in tags} : nodes[n].tier \in tiers}

SovereignNext ==
    \/ \E g \in Goals : RunLoop(g) \/ ExecuteOmegaTask(g)
    \/ \E found \in Goals \X Goals : RunAutonomousCycle(found)
    \/ \E n \in Nodes, tier \in Tiers, tags \in SUBSET Tags : Commit(n, tier, tags)
    \/ \E a, b \in Nodes : LinkNodes(a, b)
    \/ \E rules \in {r \in UNION {[1 .. k -> Nodes] : k \in 1 .. 2} : IsInjective(r)},
          tags \in [Nodes -> SUBSET Tags] : DistillLessons(rules, tags)

SovereignSpec == SovereignInit /\ [][SovereignNext]_sovereign

-----------------------------------------------------------------------------
\* The Executor is invoked at most MaxIterations times in the life of the engine,
\* and an answer holds the implementation of another goal only when they are used
\* up: no goal is passed over while there are iterations left.
SwarmBudget ==
    /\ invoked <= MaxIterations
    /\ result.implementation # result.goal => iterations = MaxIterations

\* A query by tags chooses from the nodes that carry one of them, of the tier
\* asked for, all of them and no others, whatever was committed or distilled, or
\* half distilled.
TagsFind ==
    \A tags \in SUBSET Tags, tiers \in SUBSET Tiers :
       Candidates(tags, tiers) = {n \in Stored : nodes[n].tags \cap tags # {} /\ nodes[n].tier \in tiers}

=============================================================================
