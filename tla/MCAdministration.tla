-------------------------- MODULE MCAdministration --------------------------
(* Instances of Administration for TLC.                                    *)
EXTENDS Administration, TLC
CONSTANTS a1, a2, a3
MCDemoAccounts == <<a1, a2>>
MCDemoRole == [a \in Account |-> IF a = a1 THEN "ADMIN" ELSE "USER"]
MCDemoPlan == [a \in Account |-> IF a = a1 THEN "PREMIUM" ELSE "FREE"]
RequestSymmetry == Permutations(Request)
=============================================================================
