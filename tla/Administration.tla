--------------------------- MODULE Administration ---------------------------
(***************************************************************************)
(* Roles and plans: the administration routes, behind the guard that reads *)
(* the role again at each call, and the demonstration accounts.  A request *)
(* gives up the processor at each await, so requests of several            *)
(* administrators interleave between the guard, the check that the account *)
(* exists and the update.  The session (JwtAuthGuard) is module Sessions:  *)
(* an account here is one whose owner is connected.                        *)
(***************************************************************************)
EXTENDS Naturals, FiniteSets, Sequences

CONSTANTS
    Account,       \* the accounts there may be
    Admins,        \* those made administrators in the database at the start
    Members,       \* the other accounts registered at the start
    Request,       \* requests PATCH /admin/users/:id/role and .../plan
    Seed,          \* executions of the demonstration script, none in production
    DemoAccounts,  \* the accounts it writes, in order
    DemoRole,      \* DemoRole[a]: the role it gives a
    DemoPlan,      \* DemoPlan[a]: the plan
    Plan,          \* plans
    None           \* no account

Role == {"USER", "ADMIN"}

ASSUME AdministrationAssumption ==
    /\ Admins \subseteq Account /\ Admins # {} /\ Members \subseteq Account \ Admins
    /\ Request \cap Seed = {}
    /\ DemoAccounts \in Seq(Account) /\ DemoAccounts # <<>>
    /\ DemoRole \in [Account -> Role] /\ DemoPlan \in [Account -> Plan]
    /\ DemoRole[DemoAccounts[1]] = "ADMIN"

ASSUME PlanAssumption == "FREE" \in Plan /\ None \notin Account

VARIABLES
    users,         \* table users
    role, plan,    \* its columns, meaningful for users
    pc,            \* where a request stands
    actor, target, \* who calls, about whom
    wish,          \* the column and value asked for
    next,          \* the account a demonstration script writes next
    overtaken,     \* history: requests admitted, whose actor has been lowered since
    crossed        \* history: an account lowered by an actor who was no longer an
                   \* administrator, or by a script whose own one was not any more

table   == <<users, role, plan>>
request == <<pc, actor, target, wish>>
hist    == <<overtaken, crossed>>
vars    == <<users, role, plan, pc, actor, target, wish, next, overtaken, crossed>>

Wish == [column : {"role"}, value : Role] \cup [column : {"plan"}, value : Plan]

Administrator(a) == a \in users /\ role[a] = "ADMIN"

Goto(r, label) == pc' = [pc EXCEPT ![r] = label]

Init ==
    /\ users = Admins \cup Members
    /\ role = [a \in Account |-> IF a \in Admins THEN "ADMIN" ELSE "USER"]
    /\ plan = [a \in Account |-> "FREE"]
    /\ pc = [r \in Request |-> "idle"]
    /\ actor = [r \in Request |-> None] /\ target = [r \in Request |-> None]
    /\ wish = [r \in Request |-> [column |-> "plan", value |-> "FREE"]]
    /\ next = [s \in Seed |-> 1]
    /\ overtaken = {} /\ crossed = FALSE

(* A role written: what that makes of the requests of a under way.         *)
Lower(a) == overtaken \cup {r \in Request : actor[r] = a /\ pc[r] \in {"require", "update"}}

-----------------------------------------------------------------------------
(* Registration leaves the columns at their defaults.                      *)
Register(a) ==
    /\ a \notin users
    /\ users' = users \cup {a}
    /\ role' = [role EXCEPT ![a] = "USER"]
    /\ plan' = [plan EXCEPT ![a] = "FREE"]
    /\ UNCHANGED <<request, next, hist>>

(* A connected account calls a route that exists: JwtAuthGuard lets it in. *)
Call(r) ==
    /\ pc[r] = "idle"
    /\ \E a \in users, t \in Account, w \in Wish :
         /\ actor' = [actor EXCEPT ![r] = a]
         /\ target' = [target EXCEPT ![r] = t]
         /\ wish' = [wish EXCEPT ![r] = w]
    /\ Goto(r, "guard")
    /\ UNCHANGED <<table, next, hist>>

(* Mutant: any session will do.                                            *)
AdmitAny(r) ==
    /\ pc[r] = "guard"
    /\ Goto(r, "require")
    /\ UNCHANGED <<table, actor, target, wish, next, hist>>

(* RolesGuard: the role as it is in the database now.                      *)
Admit(r) ==
    /\ pc[r] = "guard"
    /\ Goto(r, IF Administrator(actor[r]) THEN "require" ELSE "refused")
    /\ UNCHANGED <<table, actor, target, wish, next, hist>>

(* Mutant: the refusal to lower oneself forgotten.                         *)
MayWriteAny(r) == TRUE

(* One does not lower oneself.                                             *)
MayWrite(r) ==
    wish[r].column = "role" /\ wish[r].value # "ADMIN" => actor[r] # target[r]

(* requireUser, then the check on the actor.                               *)
Require(r) ==
    /\ pc[r] = "require"
    /\ Goto(r, IF target[r] \in users /\ MayWrite(r) THEN "update" ELSE "refused")
    /\ UNCHANGED <<table, actor, target, wish, next, hist>>

(* The update, by id and without a condition on what was read before.      *)
Update(r) ==
    LET a == target[r] IN
    /\ pc[r] = "update"
    /\ IF wish[r].column = "role"
       THEN /\ role' = [role EXCEPT ![a] = wish[r].value]
            /\ overtaken' = IF wish[r].value = "ADMIN" THEN overtaken ELSE Lower(a)
            /\ crossed' = (crossed \/ (wish[r].value # "ADMIN" /\ ~Administrator(actor[r])))
            /\ UNCHANGED plan
       ELSE /\ plan' = [plan EXCEPT ![a] = wish[r].value]
            /\ UNCHANGED <<role, hist>>
    /\ Goto(r, "done")
    /\ UNCHANGED <<users, actor, target, wish, next>>

After(s) == next[s] + 1

(* The script writes its accounts one after the other, whatever they have  *)
(* become; the administrator first.                                        *)
Demo(s) ==
    LET a == DemoAccounts[next[s]] IN
    /\ next[s] <= Len(DemoAccounts)
    /\ users' = users \cup {a}
    /\ role' = [role EXCEPT ![a] = DemoRole[a]]
    /\ plan' = [plan EXCEPT ![a] = DemoPlan[a]]
    /\ next' = [next EXCEPT ![s] = After(s)]
    /\ overtaken' = IF DemoRole[a] = "ADMIN" THEN overtaken ELSE Lower(a)
    /\ crossed' = (crossed \/ (DemoRole[a] # "ADMIN" /\ ~Administrator(DemoAccounts[1])))
    /\ UNCHANGED request

Handle(r) == Call(r) \/ Admit(r) \/ Require(r) \/ Update(r)

Next ==
    \/ \E a \in Account : Register(a)
    \/ \E r \in Request : Handle(r)
    \/ \E s \in Seed : Demo(s)

Spec == Init /\ [][Next]_vars

-----------------------------------------------------------------------------
TypeOK ==
    /\ users \subseteq Account
    /\ role \in [Account -> Role] /\ plan \in [Account -> Plan]
    /\ pc \in [Request -> {"idle", "guard", "require", "update", "refused", "done"}]
    /\ actor \in [Request -> Account \cup {None}] /\ target \in [Request -> Account \cup {None}]
    /\ wish \in [Request -> Wish]
    /\ next \in [Seed -> Nat \ {0}]
    /\ overtaken \subseteq Request /\ crossed \in BOOLEAN

(* The service is never left without an administrator, unless two requests *)
(* crossed: one lowered the actor of the other between its guard and its   *)
(* update (or a demonstration script, between two of its accounts).  It is *)
(* what the refusal to lower oneself is for.                               *)
LastAdminStays == crossed \/ \E a \in Account : Administrator(a)

(* A withdrawal takes effect at once: past the guard, a request whose      *)
(* actor is not an administrator was let in before the withdrawal.         *)
WithdrawalHolds ==
    \A r \in Request :
       pc[r] \in {"require", "update"} /\ ~Administrator(actor[r]) => r \in overtaken
=============================================================================
