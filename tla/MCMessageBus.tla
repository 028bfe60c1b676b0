---------------------------- MODULE MCMessageBus ----------------------------
(* Two subscribers of one pattern, and topics agent.x, agents.x, agent.x.y.   *)
EXTENDS MessageBus

CONSTANTS m1, m2, m3, s1, s2

MCWords  == {"agent", "agents", "x", "y"}
MCBegins == [p \in MCWords \X MCWords |-> p[1] = p[2] \/ p = <<"agent", "agents">>]
MCTopic  == [m \in Messages |-> CASE m = m1 -> <<"agent", "x">>
                                  [] m = m2 -> <<"agents", "x">>
                                  [] m = m3 -> <<"agent", "x", "y">>]
\* Both follow agent.**, which all three topics match.
MCPattern == [s \in Subs |-> [kind |-> "deep", prefix |-> <<"agent">>]]

MCAccept == [p \in Subs \X Messages |-> "accepts"]
\* s2's filter rejects m1, and raises on m2
MCFaulty == [p \in Subs \X Messages |->
                CASE p = <<s2, m1>> -> "rejects" [] p = <<s2, m2>> -> "raises" [] OTHER -> "accepts"]
=============================================================================
