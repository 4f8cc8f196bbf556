------------------------------ MODULE MCBrowser -----------------------------
(* Instances of Browser for TLC.                                           *)
EXTENDS Browser, TLC

CONSTANTS c1, c2, t1, t2

MCPlacements ==
    {[tab |-> c1 :> t1 @@ c2 :> t2, kind |-> [c \in Call |-> "plain"]]}
    \cup {[tab |-> [c \in Call |-> t1], kind |-> c1 :> "plain" @@ c2 :> k] :
            k \in {"password", "code"}}
=============================================================================
