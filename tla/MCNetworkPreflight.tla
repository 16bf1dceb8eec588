-------------------------- MODULE MCNetworkPreflight --------------------------
(* Two callers through both sessions.  The other configuration changes the   *)
(* route of conversations, and of the application only what tools get.       *)
EXTENDS NetworkPreflight

MCRoute ==
    [c \in Configs |-> [s \in Scopes |->
        IF c # Default /\ s = "conversation" THEN "proxy" ELSE "direct"]]
MCEffective ==
    [c \in Configs |-> [s \in Scopes |->
        IF c # Default /\ s = "application" THEN "direct and tools" ELSE MCRoute[c][s]]]
MCNeeds == [c \in Callers |-> Scopes]
=============================================================================
