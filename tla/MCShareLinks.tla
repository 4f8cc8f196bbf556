---------------------------- MODULE MCShareLinks ----------------------------
(* Instances of ShareLinks for TLC.                                        *)
EXTENDS ShareLinks, TLC

MCCreatedAt == [f \in File |-> 0]
MCRetention == [f \in File |-> 1]
EraseSymmetry == Permutations(File) \cup Permutations(Share)
=============================================================================
