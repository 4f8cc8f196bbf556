---------------------------- MODULE MCRateLimit -----------------------------
(* Instances of RateLimit for TLC.                                         *)
EXTENDS RateLimit, TLC

MCLimit == "login" :> 2 @@ "verify" :> 1
MCWindow == "login" :> 3 @@ "verify" :> 2
=============================================================================
