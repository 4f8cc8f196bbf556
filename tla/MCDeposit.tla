----------------------------- MODULE MCDeposit ------------------------------
(* Instances of Deposit for TLC.                                           *)
EXTENDS Deposit

MCQuota == [p \in Plan |-> IF p = "FREE" THEN 2 ELSE 3]
=============================================================================
