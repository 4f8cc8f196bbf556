----------------------------- MODULE SingleUse ------------------------------
(***************************************************************************)
(* What single-use links promise, whatever the requests do: each file of a *)
(* link is a slot that one recipient at a time may hold and one recipient  *)
(* at most receives.  A recipient who fails gives the slot back; one who   *)
(* vanishes leaves it lost; an erased file takes its slot away.            *)
(***************************************************************************)
CONSTANTS Share, File, Download

VARIABLES
    slot,   \* slot[s, f]: what became of file f on link s
    got     \* got[s, f]: the requests that received all of f through s

vars == <<slot, got>>

Cell  == Share \X File
State == {"none", "free", "held", "sent", "lost", "gone"}

TypeOK ==
    /\ slot \in [Cell -> State]
    /\ got \in [Cell -> SUBSET Download]

Init ==
    /\ slot = [x \in Cell |-> "none"]
    /\ got = [x \in Cell |-> {}]

(* A link comes into being over some of the files.                         *)
Offer(s) ==
    /\ \A f \in File : slot[<<s, f>>] = "none"
    /\ \E files \in SUBSET File :
         slot' = [x \in Cell |-> IF x[1] # s THEN slot[x]
                                 ELSE IF x[2] \in files THEN "free" ELSE "gone"]
    /\ UNCHANGED got

Become(x, state) == slot' = [slot EXCEPT ![x] = state]

Reserve(x) == slot[x] = "free" /\ Become(x, "held") /\ UNCHANGED got

Receive(x, d) == got' = [got EXCEPT ![x] = {d}]

(* The recipient has everything: for good, and nobody else ever does.      *)
Deliver(x, d) == slot[x] = "held" /\ Become(x, "sent") /\ Receive(x, d)

(* A failed transfer: free again, unless the file has gone in between.     *)
GiveBack(x) ==
    /\ slot[x] = "held"
    /\ \E state \in {"free", "gone"} : Become(x, state)
    /\ UNCHANGED got

Vanish(x) ==
    /\ slot[x] = "held"
    /\ \E state \in {"lost", "gone"} : Become(x, state)
    /\ UNCHANGED got

(* A file is erased: from every link, save what is under way or done.      *)
Erase(f) ==
    /\ slot' = [x \in Cell |->
                  IF x[2] = f /\ slot[x] \in {"free", "lost"} THEN "gone" ELSE slot[x]]
    /\ UNCHANGED got

Next ==
    \/ \E s \in Share : Offer(s)
    \/ \E x \in Cell : Reserve(x) \/ GiveBack(x) \/ Vanish(x)
    \/ \E x \in Cell, d \in Download : Deliver(x, d)
    \/ \E f \in File : Erase(f)

Spec == Init /\ [][Next]_vars
=============================================================================
