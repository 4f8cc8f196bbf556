----------------------------- MODULE MCOwnerPage ----------------------------
(* Model values for OwnerPage. *)
EXTENDS OwnerPage

CONSTANTS a, b, f1, f2, l1, l2, c1, c2

MCEarlier == [f \in File |-> IF f = f1 THEN a ELSE None]
=============================================================================
