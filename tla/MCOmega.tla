------------------------------ MODULE MCOmega ------------------------------
(* The two parts of Omega-Prime that wait for goals and events, which share    *)
(* nothing, so that a behaviour is of one or of the other.  Nerve: two events   *)
(* of two types, two callbacks with two registrations, two dispatch loops.      *)
(* Sovereign: six goals, one more than there are iterations, and two nodes      *)
(* under two tags.                                                              *)
EXTENDS Nerve, Sovereign

CONSTANTS e1, a, b

VARIABLE part        \* which of the two the behaviour is of

MCTypeOf == [e \in Events |-> IF e = e1 THEN a ELSE b]

OmegaInit == NerveInit /\ SovereignInit /\ part \in {"nerve", "sovereign"}

OmegaNext ==
    /\ part' = part
    /\ \/ part = "nerve" /\ NerveNext /\ UNCHANGED sovereign
       \/ part = "sovereign" /\ SovereignNext /\ UNCHANGED nerve

OmegaSpec == OmegaInit /\ [][OmegaNext]_<<nerve, sovereign, part>> /\ NerveFairness
=============================================================================
