------------------------------ MODULE MCSandbox ------------------------------
(* The two places where the code of an agent is run, which share nothing, so  *)
(* that a behaviour is of one or of the other.  Sandbox: three threads of the  *)
(* pool that make four calls between them, four boxes and two wrappers: one    *)
(* box a call, and one reset.  Forge: two threads, two temporary files, calls  *)
(* with up to two test cases.                                                  *)
EXTENDS Sandbox, Forge, TLC

VARIABLE part        \* which of the two the behaviour is of

BothInit == SandboxInit /\ ForgeInit /\ part \in {"sandbox", "forge"}

BothNext ==
    /\ part' = part
    /\ \/ part = "sandbox" /\ SandboxNext /\ UNCHANGED forge
       \/ part = "forge" /\ ForgeNext /\ UNCHANGED sandbox

BothSpec == BothInit /\ [][BothNext]_<<sandbox, forge, part>>

Symmetry == Permutations(Threads) \cup Permutations(Callers)
=============================================================================
