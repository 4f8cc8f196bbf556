------------------------ MODULE Administration_proofs ------------------------
(***************************************************************************)
(* Proofs about Administration, for any number of accounts, requests,      *)
(* plans and executions of the demonstration script.                       *)
(***************************************************************************)
EXTENDS Administration, TLAPS

(* A request that is about to lower a role is not its target's own.        *)
NotOneself == \A r \in Request : pc[r] = "update" => MayWrite(r)

IInv == TypeOK /\ NotOneself /\ LastAdminStays /\ WithdrawalHolds

(* Every account written by a demonstration script is one of the accounts. *)
LEMMA DemoWrites ==
  ASSUME NEW s \in Seed, TypeOK, next[s] <= Len(DemoAccounts)
  PROVE  DemoAccounts[next[s]] \in Account /\ DemoAccounts[1] \in Account
BY AdministrationAssumption DEF TypeOK

LEMMA TypeInit == Init => TypeOK
<1>1. SUFFICES ASSUME Init PROVE TypeOK
  OBVIOUS
<1>2. users \subseteq Account /\ role \in [Account -> Role] /\ plan \in [Account -> Plan]
  BY <1>1, AdministrationAssumption, PlanAssumption DEF Init, Role
<1>3. wish \in [Request -> Wish]
  <2>1. [column |-> "plan", value |-> "FREE"] \in Wish
    BY PlanAssumption DEF Wish
  <2>2. QED
    BY <1>1, <2>1 DEF Init
<1>4. pc \in [Request -> {"idle", "guard", "require", "update", "refused", "done"}]
  BY <1>1 DEF Init
<1>5. actor \in [Request -> Account \cup {None}] /\ target \in [Request -> Account \cup {None}]
  BY <1>1 DEF Init
<1>6. next \in [Seed -> Nat \ {0}] /\ overtaken \subseteq Request /\ crossed \in BOOLEAN
  <2>1. 1 \in Nat \ {0}
    OBVIOUS
  <2>2. next = [s \in Seed |-> 1] /\ overtaken = {} /\ crossed = FALSE
    BY <1>1 DEF Init
  <2>3. next \in [Seed -> Nat \ {0}]
    BY <2>1, <2>2
  <2>4. QED
    BY <2>2, <2>3
<1>7. QED
  BY <1>2, <1>3, <1>4, <1>5, <1>6 DEF TypeOK

LEMMA TypeStep == TypeOK /\ [Next]_vars => TypeOK'
<1> SUFFICES ASSUME TypeOK, [Next]_vars PROVE TypeOK'
  OBVIOUS
<1>1. ASSUME NEW a \in Account, Register(a) PROVE TypeOK'
  BY <1>1, PlanAssumption DEF Register, TypeOK, Role, request, hist
<1>2. ASSUME NEW r \in Request, Call(r) PROVE TypeOK'
  BY <1>2 DEF Call, Goto, TypeOK, table, hist
<1>3. ASSUME NEW r \in Request, Admit(r) PROVE TypeOK'
  BY <1>3 DEF Admit, Goto, TypeOK, table, hist
<1>4. ASSUME NEW r \in Request, Require(r) PROVE TypeOK'
  BY <1>4 DEF Require, Goto, TypeOK, table, hist
<1>5. ASSUME NEW r \in Request, Update(r) PROVE TypeOK'
  <2>1. pc' \in [Request -> {"idle", "guard", "require", "update", "refused", "done"}]
    BY <1>5 DEF Update, Goto, TypeOK
  <2>2. CASE wish[r].column = "role"
    <3>1. wish[r].value \in Role
      BY <2>2 DEF TypeOK, Wish
    <3>2. Lower(target[r]) \subseteq Request
      BY DEF Lower, TypeOK
    <3>3. QED
      BY <1>5, <2>1, <2>2, <3>1, <3>2 DEF Update, TypeOK
  <2>3. CASE wish[r].column # "role"
    <3>1. wish[r].value \in Plan
      BY <2>3 DEF TypeOK, Wish
    <3>2. QED
      BY <1>5, <2>1, <2>3, <3>1 DEF Update, TypeOK, hist
  <2>4. QED
    BY <2>2, <2>3
<1>6. ASSUME NEW s \in Seed, Demo(s) PROVE TypeOK'
  <2> DEFINE a == DemoAccounts[next[s]]
  <2>1. a \in Account /\ DemoRole[a] \in Role /\ DemoPlan[a] \in Plan
    BY <1>6, DemoWrites, AdministrationAssumption DEF Demo
  <2>2. Lower(a) \subseteq Request
    BY DEF Lower, TypeOK
  <2>3. next' \in [Seed -> Nat \ {0}]
    BY <1>6 DEF Demo, After, TypeOK
  <2>4. QED
    BY <1>6, <2>1, <2>2, <2>3 DEF Demo, TypeOK, request
<1>7. CASE UNCHANGED vars
  BY <1>7 DEF vars, TypeOK
<1>8. QED
  BY <1>1, <1>2, <1>3, <1>4, <1>5, <1>6, <1>7 DEF Next, Handle

(* The role of a request that stands at its update was checked before, and *)
(* its actor, target and wish have not moved since.                        *)
LEMMA NotOneselfStep == IInv /\ [Next]_vars => NotOneself'
<1> SUFFICES ASSUME IInv, [Next]_vars PROVE NotOneself'
  OBVIOUS
<1> USE DEF IInv
<1>1. ASSUME NEW a \in Account, Register(a) PROVE NotOneself'
  BY <1>1 DEF Register, NotOneself, MayWrite, request
<1>2. ASSUME NEW r \in Request, Call(r) PROVE NotOneself'
  BY <1>2 DEF Call, Goto, NotOneself, MayWrite, TypeOK
<1>3. ASSUME NEW r \in Request, Admit(r) PROVE NotOneself'
  BY <1>3 DEF Admit, Goto, NotOneself, MayWrite, TypeOK
<1>4. ASSUME NEW r \in Request, Require(r) PROVE NotOneself'
  BY <1>4 DEF Require, Goto, NotOneself, MayWrite, TypeOK
<1>5. ASSUME NEW r \in Request, Update(r) PROVE NotOneself'
  BY <1>5 DEF Update, Goto, NotOneself, MayWrite, TypeOK
<1>6. ASSUME NEW s \in Seed, Demo(s) PROVE NotOneself'
  BY <1>6 DEF Demo, NotOneself, MayWrite, request
<1>7. CASE UNCHANGED vars
  BY <1>7 DEF vars, NotOneself, MayWrite
<1>8. QED
  BY <1>1, <1>2, <1>3, <1>4, <1>5, <1>6, <1>7 DEF Next, Handle

(* Who lowers a role, without having been crossed, stays an administrator. *)
LEMMA LastAdminStep == IInv /\ [Next]_vars => LastAdminStays'
<1> SUFFICES ASSUME IInv, [Next]_vars, ~crossed'
             PROVE  \E a \in Account : Administrator(a)'
  BY DEF LastAdminStays
<1> USE DEF IInv
<1>0. crossed' = crossed => \E a \in Account : Administrator(a)
  BY DEF LastAdminStays
<1>1. ASSUME NEW a \in Account, Register(a) PROVE \E b \in Account : Administrator(b)'
  <2>1. PICK b \in Account : Administrator(b)
    BY <1>0, <1>1 DEF Register, hist
  <2>2. Administrator(b)'
    BY <1>1, <2>1 DEF Register, Administrator, TypeOK
  <2>3. QED
    BY <2>2
<1>2. ASSUME UNCHANGED <<users, role, crossed>> PROVE \E b \in Account : Administrator(b)'
  BY <1>0, <1>2 DEF Administrator
<1>3. ASSUME NEW r \in Request, Update(r) PROVE \E b \in Account : Administrator(b)'
  <2>0. users' = users
    BY <1>3 DEF Update
  <2>1. CASE wish[r].column # "role"
    BY <1>2, <1>3, <2>1 DEF Update, hist
  <2>2. CASE wish[r].column = "role" /\ wish[r].value = "ADMIN"
    <3>1. crossed' = crossed
      BY <1>3, <2>2 DEF Update, TypeOK
    <3>2. PICK b \in Account : Administrator(b)
      BY <1>0, <3>1
    <3>3. Administrator(b)'
      BY <1>3, <2>0, <2>2, <3>2 DEF Update, Administrator, TypeOK
    <3>4. QED
      BY <3>3
  <2>3. CASE wish[r].column = "role" /\ wish[r].value # "ADMIN"
    <3>1. Administrator(actor[r])
      BY <1>3, <2>3 DEF Update, TypeOK
    <3>2. actor[r] # target[r] /\ actor[r] \in Account
      BY <1>3, <2>3, <3>1 DEF NotOneself, MayWrite, Update, Administrator, TypeOK
    <3>3. Administrator(actor[r])'
      BY <1>3, <2>0, <2>3, <3>1, <3>2 DEF Update, Administrator, TypeOK
    <3>4. (users' = users /\ role'[actor[r]] = "ADMIN" /\ actor[r] \in users)
      BY <1>3, <2>0, <2>3, <3>1, <3>2 DEF Update, Administrator, TypeOK
    <3>5. QED
      BY <3>2, <3>4 DEF Administrator
  <2>4. QED
    BY <2>1, <2>2, <2>3
<1>4. ASSUME NEW s \in Seed, Demo(s) PROVE \E b \in Account : Administrator(b)'
  <2> DEFINE a == DemoAccounts[next[s]]
             first == DemoAccounts[1]
  <2>1. a \in Account /\ first \in Account
    BY <1>4, DemoWrites DEF Demo
  <2>2. users' = users \cup {a} /\ role' = [role EXCEPT ![a] = DemoRole[a]]
    BY <1>4 DEF Demo
  <2>3. CASE DemoRole[a] = "ADMIN"
    BY <2>1, <2>2, <2>3 DEF Administrator, TypeOK
  <2>4. CASE DemoRole[a] # "ADMIN"
    <3>1. Administrator(first)
      BY <1>4, <2>4 DEF Demo, TypeOK
    <3>2. a # first
      BY <2>4, AdministrationAssumption
    <3>3. first \in users' /\ role'[first] = "ADMIN"
      BY <2>1, <2>2, <3>1, <3>2 DEF Administrator, TypeOK
    <3>4. QED
      BY <2>1, <3>3 DEF Administrator
  <2>5. QED
    BY <2>3, <2>4
<1>5. ASSUME NEW r \in Request, Call(r) \/ Admit(r) \/ Require(r)
      PROVE  UNCHANGED <<users, role, crossed>>
  BY <1>5 DEF Call, Admit, Require, table, hist
<1>6. QED
  BY <1>1, <1>2, <1>3, <1>4, <1>5 DEF Next, Handle, vars

(* Whatever lowers a role marks the requests its owner has past the guard. *)
LEMMA WithdrawalStep == IInv /\ [Next]_vars => WithdrawalHolds'
<1> SUFFICES ASSUME IInv, [Next]_vars, NEW r \in Request,
                    (pc[r])' \in {"require", "update"}, ~Administrator(actor[r])'
             PROVE  r \in overtaken'
  BY DEF WithdrawalHolds
<1> USE DEF IInv
<1>1. ASSUME pc'[r] = pc[r], actor'[r] = actor[r], overtaken \subseteq overtaken',
             Administrator(actor[r]) => Administrator(actor[r])' PROVE r \in overtaken'
  BY <1>1 DEF WithdrawalHolds
<1>2. ASSUME NEW a \in Account, Register(a) PROVE r \in overtaken'
  <2>1. pc' = pc /\ actor' = actor /\ overtaken' = overtaken
    BY <1>2 DEF Register, request, hist
  <2>2. Administrator(actor[r]) => actor[r] # a
    BY <1>2 DEF Register, Administrator
  <2>3. Administrator(actor[r]) => actor[r] \in users' /\ role'[actor[r]] = "ADMIN"
    BY <1>2, <2>2 DEF Register, Administrator, TypeOK
  <2>4. QED
    BY <2>1, <2>3 DEF Administrator, WithdrawalHolds
<1>3. ASSUME NEW q \in Request, Call(q) PROVE r \in overtaken'
  <2>1. q # r
    BY <1>3 DEF Call, Goto, TypeOK
  <2>2. QED
    BY <1>3, <2>1 DEF Call, Goto, TypeOK, Administrator, WithdrawalHolds, table, hist
<1>4. ASSUME NEW q \in Request, Admit(q) PROVE r \in overtaken'
  <2>1. CASE q = r
    BY <1>4, <2>1 DEF Admit, Goto, TypeOK, Administrator, table
  <2>2. CASE q # r
    BY <1>4, <2>2 DEF Admit, Goto, TypeOK, Administrator, WithdrawalHolds, table, hist
  <2>3. QED
    BY <2>1, <2>2
<1>5. ASSUME NEW q \in Request, Require(q) PROVE r \in overtaken'
  <2>1. pc[r] \in {"require", "update"}
    BY <1>5 DEF Require, Goto, TypeOK
  <2>2. QED
    BY <1>5, <2>1 DEF Require, Administrator, WithdrawalHolds, table, hist
<1>6. ASSUME NEW q \in Request, Update(q) PROVE r \in overtaken'
  <2>1. q # r /\ pc[r] \in {"require", "update"} /\ actor' = actor /\ users' = users
    BY <1>6 DEF Update, Goto, TypeOK
  <2>2. CASE wish[q].column # "role"
    BY <1>6, <2>1, <2>2 DEF Update, Administrator, WithdrawalHolds, hist
  <2>3. CASE wish[q].column = "role" /\ wish[q].value = "ADMIN"
    <3>1. Administrator(actor[r]) => actor[r] \in users' /\ role'[actor[r]] = "ADMIN"
      BY <1>6, <2>1, <2>3 DEF Update, Administrator, TypeOK
    <3>2. QED
      BY <1>6, <2>1, <2>3, <3>1 DEF Update, Administrator, WithdrawalHolds
  <2>4. CASE wish[q].column = "role" /\ wish[q].value # "ADMIN"
    <3>1. overtaken' = Lower(target[q])
      BY <1>6, <2>4 DEF Update
    <3>2. CASE actor[r] = target[q]
      BY <2>1, <3>1, <3>2 DEF Lower
    <3>3. CASE actor[r] # target[q]
      <4>1. Administrator(actor[r]) => actor[r] \in users' /\ role'[actor[r]] = "ADMIN"
        BY <1>6, <2>1, <2>4, <3>3 DEF Update, Administrator, TypeOK
      <4>2. ~Administrator(actor[r])
        BY <2>1, <4>1 DEF Administrator
      <4>3. QED
        BY <2>1, <3>1, <4>2 DEF Lower, WithdrawalHolds
    <3>4. QED
      BY <3>2, <3>3
  <2>5. QED
    BY <2>2, <2>3, <2>4
<1>7. ASSUME NEW s \in Seed, Demo(s) PROVE r \in overtaken'
  <2> DEFINE a == DemoAccounts[next[s]]
  <2>1. pc' = pc /\ actor' = actor
    BY <1>7 DEF Demo, request
  <2>2. users' = users \cup {a} /\ role' = [role EXCEPT ![a] = DemoRole[a]]
    BY <1>7 DEF Demo
  <2>3. CASE DemoRole[a] # "ADMIN" /\ actor[r] = a
    BY <1>7, <2>1, <2>3 DEF Demo, Lower
  <2>4. CASE ~(DemoRole[a] # "ADMIN" /\ actor[r] = a)
    <3>1. Administrator(actor[r]) => actor[r] \in users' /\ role'[actor[r]] = "ADMIN"
      BY <2>2, <2>4 DEF Administrator, TypeOK
    <3>2. r \in overtaken
      BY <2>1, <3>1 DEF Administrator, WithdrawalHolds
    <3>3. QED
      BY <1>7, <3>2 DEF Demo, Lower
  <2>5. QED
    BY <2>3, <2>4
<1>8. CASE UNCHANGED vars
  BY <1>8 DEF vars, Administrator, WithdrawalHolds
<1>9. QED
  BY <1>2, <1>3, <1>4, <1>5, <1>6, <1>7, <1>8 DEF Next, Handle

LEMMA Inductive == Spec => []IInv
<1>1. Init => IInv
  <2>1. Init => LastAdminStays
    BY AdministrationAssumption DEF Init, LastAdminStays, Administrator
  <2>2. QED
    BY <2>1, TypeInit DEF IInv, Init, NotOneself, WithdrawalHolds
<1>2. IInv /\ [Next]_vars => IInv'
  BY TypeStep, NotOneselfStep, LastAdminStep, WithdrawalStep DEF IInv
<1>3. QED
  BY <1>1, <1>2, PTL DEF Spec

(* Every variable keeps its type, for any accounts, requests and scripts.  *)
THEOREM TypeCorrect == Spec => []TypeOK
<1>1. IInv => TypeOK
  BY DEF IInv
<1>2. QED
  BY <1>1, Inductive, PTL

(* admin.service.ts, setRole: whatever the number of administrators and of *)
(* requests under way, one administrator is left unless two crossed.       *)
THEOREM OneAdminLeft == Spec => []LastAdminStays
<1>1. IInv => LastAdminStays
  BY DEF IInv
<1>2. QED
  BY <1>1, Inductive, PTL

(* roles.guard.ts: the only requests a former administrator has past the   *)
(* guard are those it had there when it was lowered.                       *)
THEOREM WithdrawnAtOnce == Spec => []WithdrawalHolds
<1>1. IInv => WithdrawalHolds
  BY DEF IInv
<1>2. QED
  BY <1>1, Inductive, PTL
=============================================================================
