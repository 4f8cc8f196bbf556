--------------------------- MODULE Browser_proofs ---------------------------
(***************************************************************************)
(* Proofs about Sessions, the service, for any number of requests, any     *)
(* life of the tokens, any clock and any number of failures; then about    *)
(* Browser, the tabs that call it, for any number of tabs, calls, logins,  *)
(* refreshes, logouts and losses.                                          *)
(***************************************************************************)
EXTENDS Browser, TLAPS

-----------------------------------------------------------------------------
(* Sessions.                                                               *)
USE DEF tokens, hist

(* A client holds only tokens whose request is over; a request that has    *)
(* issued nothing has no family; a family is that of a login, which is     *)
(* over too.                                                               *)
FamilyInv ==
    /\ \A t \in given : pc[t] = "done" /\ family[t] \in Request
    /\ \A r \in Request : pc[r] \in {"breach", "issue", "retire", "find", "cut"}
                            => using[r] \in given
    /\ \A r \in Request : pc[r] \in {"idle", "breach", "issue"} => family[r] = None
    /\ \A r \in Request : pc[r] = "retire" => family[r] = family[using[r]]
    /\ \A t \in Request : family[t] # None => /\ family[family[t]] = family[t]
                                             /\ pc[family[t]] = "done"

LEMMA Start == Init => TypeOK /\ FamilyInv
BY SessionsAssumption DEF Init, TypeOK, FamilyInv, Label

LEMMA TypeStep == TypeOK /\ FamilyInv /\ [Next]_vars => TypeOK'
<1> SUFFICES ASSUME TypeOK, FamilyInv, [Next]_vars PROVE TypeOK'
  OBVIOUS
<1> USE SessionsAssumption DEF TypeOK, Label, Goto
<1>1. ASSUME NEW r \in Request, OpenSession(r) PROVE TypeOK'
  BY <1>1 DEF OpenSession, IssuePair
<1>2. ASSUME NEW r \in Request, ReadToken(r) PROVE TypeOK'
  <2>1. using' \in [Request -> Request \cup {None}] /\ pc' \in [Request -> Label]
    BY <1>2 DEF ReadToken
  <2>2. forked' \subseteq Request
    BY <1>2 DEF ReadToken, FamilyInv
  <2>3. QED
    BY <1>2, <2>1, <2>2 DEF ReadToken
<1>3. ASSUME NEW r \in Request, Breach(r) PROVE TypeOK'
  BY <1>3 DEF Breach, RevokeFamily, CutOff
<1>4. ASSUME NEW r \in Request, Issue(r) PROVE TypeOK'
  BY <1>4 DEF Issue, IssuePair, FamilyInv
<1>5. ASSUME NEW r \in Request, Retire(r) PROVE TypeOK'
  BY <1>5 DEF Retire
<1>6. ASSUME NEW r \in Request, LogoutRead(r) PROVE TypeOK'
  BY <1>6 DEF LogoutRead
<1>7. ASSUME NEW r \in Request, LogoutFind(r) PROVE TypeOK'
  BY <1>7 DEF LogoutFind
<1>8. ASSUME NEW r \in Request, LogoutCut(r) PROVE TypeOK'
  BY <1>8 DEF LogoutCut, RevokeFamily, CutOff
<1>9. ASSUME NEW r \in Request, LogoutDeny(r) PROVE TypeOK'
  BY <1>9 DEF LogoutDeny
<1>10. ASSUME NEW r \in Request, Fault(r) PROVE TypeOK'
  BY <1>10 DEF Fault
<1>11. CASE RevokeSessions
  BY <1>11 DEF RevokeSessions, CutOff
<1>12. CASE PurgeRefreshTokens
  BY <1>12 DEF PurgeRefreshTokens
<1>13. CASE PurgeDenied
  BY <1>13 DEF PurgeDenied
<1>14. CASE Tick
  BY <1>14 DEF Tick
<1>15. CASE UNCHANGED vars
  BY <1>15 DEF vars
<1>16. QED
  BY <1>1, <1>2, <1>3, <1>4, <1>5, <1>6, <1>7, <1>8,
     <1>9, <1>10, <1>11, <1>12, <1>13, <1>14, <1>15 DEF Next

LEMMA FamilyStep == TypeOK /\ FamilyInv /\ [Next]_vars => FamilyInv'
<1> SUFFICES ASSUME TypeOK, FamilyInv, [Next]_vars PROVE FamilyInv'
  OBVIOUS
<1> USE SessionsAssumption DEF TypeOK, FamilyInv, Goto
<1>1. ASSUME NEW r \in Request, OpenSession(r) PROVE FamilyInv'
  BY <1>1 DEF OpenSession, IssuePair
<1>2. ASSUME NEW r \in Request, ReadToken(r) PROVE FamilyInv'
  BY <1>2 DEF ReadToken
<1>3. ASSUME NEW r \in Request, Breach(r) PROVE FamilyInv'
  BY <1>3 DEF Breach, RevokeFamily, CutOff
<1>4. ASSUME NEW r \in Request, Issue(r) PROVE FamilyInv'
  BY <1>4 DEF Issue, IssuePair
<1>5. ASSUME NEW r \in Request, Retire(r) PROVE FamilyInv'
  BY <1>5 DEF Retire
<1>6. ASSUME NEW r \in Request, LogoutRead(r) PROVE FamilyInv'
  BY <1>6 DEF LogoutRead
<1>7. ASSUME NEW r \in Request, LogoutFind(r) PROVE FamilyInv'
  BY <1>7 DEF LogoutFind
<1>8. ASSUME NEW r \in Request, LogoutCut(r) PROVE FamilyInv'
  BY <1>8 DEF LogoutCut, RevokeFamily, CutOff
<1>9. ASSUME NEW r \in Request, LogoutDeny(r) PROVE FamilyInv'
  BY <1>9 DEF LogoutDeny
<1>10. ASSUME NEW r \in Request, Fault(r) PROVE FamilyInv'
  BY <1>10 DEF Fault
<1>11. CASE RevokeSessions
  BY <1>11 DEF RevokeSessions
<1>12. CASE PurgeRefreshTokens
  BY <1>12 DEF PurgeRefreshTokens
<1>13. CASE PurgeDenied
  BY <1>13 DEF PurgeDenied
<1>14. CASE Tick
  BY <1>14 DEF Tick
<1>15. CASE UNCHANGED vars
  BY <1>15 DEF vars
<1>16. QED
  BY <1>1, <1>2, <1>3, <1>4, <1>5, <1>6, <1>7, <1>8,
     <1>9, <1>10, <1>11, <1>12, <1>13, <1>14, <1>15 DEF Next

LEMMA Known == Spec => [](TypeOK /\ FamilyInv)
BY Start, TypeStep, FamilyStep, PTL DEF Spec

(* Every reachable state is well typed: a revoked token is in the table,   *)
(* whatever the purge has deleted.                                         *)
THEOREM TypeCorrect == Spec => []TypeOK
BY Known, PTL

-----------------------------------------------------------------------------
(* The list forgets an access token only once it has expired.              *)
ClosedInv ==
    /\ \A a \in closed : a \in given /\ (a \in denied \/ accessEnd[a] <= now)
    /\ \A r \in Request : access[r] \in given \cup {None}

LEMMA ClosedInit == Init => ClosedInv
BY DEF Init, ClosedInv

LEMMA ClosedStep == TypeOK /\ FamilyInv /\ ClosedInv /\ [Next]_vars => ClosedInv'
<1> SUFFICES ASSUME TypeOK, FamilyInv, ClosedInv, [Next]_vars PROVE ClosedInv'
  OBVIOUS
<1> USE SessionsAssumption DEF TypeOK, ClosedInv
<1>1. ASSUME NEW r \in Request, OpenSession(r) PROVE ClosedInv'
  BY <1>1 DEF OpenSession, IssuePair, FamilyInv
<1>2. ASSUME NEW r \in Request, ReadToken(r) PROVE ClosedInv'
  BY <1>2 DEF ReadToken
<1>3. ASSUME NEW r \in Request, Breach(r) PROVE ClosedInv'
  BY <1>3 DEF Breach, RevokeFamily
<1>4. ASSUME NEW r \in Request, Issue(r) PROVE ClosedInv'
  BY <1>4 DEF Issue, IssuePair, FamilyInv
<1>5. ASSUME NEW r \in Request, Retire(r) PROVE ClosedInv'
  BY <1>5 DEF Retire
<1>6. ASSUME NEW r \in Request, LogoutRead(r) PROVE ClosedInv'
  BY <1>6 DEF LogoutRead
<1>7. ASSUME NEW r \in Request, LogoutFind(r) PROVE ClosedInv'
  BY <1>7 DEF LogoutFind
<1>8. ASSUME NEW r \in Request, LogoutCut(r) PROVE ClosedInv'
  BY <1>8 DEF LogoutCut, RevokeFamily
<1>9. ASSUME NEW r \in Request, LogoutDeny(r) PROVE ClosedInv'
  BY <1>9 DEF LogoutDeny
<1>10. ASSUME NEW r \in Request, Fault(r) PROVE ClosedInv'
  BY <1>10 DEF Fault
<1>11. CASE RevokeSessions
  BY <1>11 DEF RevokeSessions
<1>12. CASE PurgeRefreshTokens
  BY <1>12 DEF PurgeRefreshTokens
<1>13. CASE PurgeDenied
  BY <1>13 DEF PurgeDenied
<1>14. CASE Tick
  BY <1>14 DEF Tick
<1>15. CASE UNCHANGED vars
  BY <1>15 DEF vars
<1>16. QED
  BY <1>1, <1>2, <1>3, <1>4, <1>5, <1>6, <1>7, <1>8,
     <1>9, <1>10, <1>11, <1>12, <1>13, <1>14, <1>15 DEF Next

(* An access token that a logout has put on the list is refused for good,  *)
(* although the purge empties the list: by ClosedInv, what the purge takes *)
(* off the list has expired.                                               *)
THEOREM LoggedOutRefused == Spec => []LoggedOutAccessRefused
<1>1. TypeOK /\ ClosedInv => LoggedOutAccessRefused
  BY DEF TypeOK, ClosedInv, LoggedOutAccessRefused, Accepts
<1>2. QED
  BY <1>1, Known, ClosedInit, ClosedStep, PTL DEF Spec

-----------------------------------------------------------------------------
(* A refresh under way, in a family no two refreshes forked, is the only   *)
(* one there, and holds the only token of it a client may still use.       *)
Rotating(r) == pc[r] \in {"issue", "retire"}

RotationInv ==
    \A r \in Request : Rotating(r) /\ family[using[r]] \notin forked =>
      /\ given \cap Live(family[using[r]]) \subseteq {using[r]}
      /\ \A q \in Request : Rotating(q) /\ family[using[q]] = family[using[r]] => q = r

LEMMA RotationInit == Init => RotationInv /\ OneLiveToken
BY DEF Init, RotationInv, OneLiveToken, Rotating, Live

LEMMA RotationStep ==
  TypeOK /\ FamilyInv /\ RotationInv /\ OneLiveToken /\ [Next]_vars
    => RotationInv' /\ OneLiveToken'
<1> SUFFICES ASSUME TypeOK, FamilyInv, RotationInv, OneLiveToken, [Next]_vars
             PROVE  RotationInv' /\ OneLiveToken'
  OBVIOUS
<1> USE SessionsAssumption DEF TypeOK, RotationInv, OneLiveToken, Rotating, Live, Goto
<1>1. ASSUME NEW r \in Request, OpenSession(r) PROVE RotationInv' /\ OneLiveToken'
  BY <1>1 DEF OpenSession, IssuePair, FamilyInv
<1>2. ASSUME NEW r \in Request, ReadToken(r) PROVE RotationInv' /\ OneLiveToken'
  BY <1>2 DEF ReadToken, FamilyInv
<1>3. ASSUME NEW r \in Request, Breach(r) PROVE RotationInv' /\ OneLiveToken'
  BY <1>3 DEF Breach, RevokeFamily, FamilyInv
<1>4. ASSUME NEW r \in Request, Issue(r) PROVE RotationInv' /\ OneLiveToken'
  BY <1>4 DEF Issue, IssuePair, FamilyInv
<1>5. ASSUME NEW r \in Request, Retire(r) PROVE RotationInv' /\ OneLiveToken'
  BY <1>5 DEF Retire, FamilyInv
<1>6. ASSUME NEW r \in Request, LogoutRead(r) PROVE RotationInv' /\ OneLiveToken'
  BY <1>6 DEF LogoutRead
<1>7. ASSUME NEW r \in Request, LogoutFind(r) PROVE RotationInv' /\ OneLiveToken'
  BY <1>7 DEF LogoutFind
<1>8. ASSUME NEW r \in Request, LogoutCut(r) PROVE RotationInv' /\ OneLiveToken'
  BY <1>8 DEF LogoutCut, RevokeFamily
<1>9. ASSUME NEW r \in Request, LogoutDeny(r) PROVE RotationInv' /\ OneLiveToken'
  BY <1>9 DEF LogoutDeny
<1>10. ASSUME NEW r \in Request, Fault(r) PROVE RotationInv' /\ OneLiveToken'
  BY <1>10 DEF Fault
<1>11. CASE RevokeSessions
  BY <1>11 DEF RevokeSessions
<1>12. CASE PurgeRefreshTokens
  BY <1>12 DEF PurgeRefreshTokens
<1>13. CASE PurgeDenied
  BY <1>13 DEF PurgeDenied
<1>14. CASE Tick
  BY <1>14 DEF Tick
<1>15. CASE UNCHANGED vars
  BY <1>15 DEF vars
<1>16. QED
  BY <1>1, <1>2, <1>3, <1>4, <1>5, <1>6, <1>7, <1>8,
     <1>9, <1>10, <1>11, <1>12, <1>13, <1>14, <1>15 DEF Next

(* In a family that no two refreshes forked, clients hold one live token   *)
(* at most, whatever the replays, failures and logouts.                    *)
THEOREM OneLive == Spec => []OneLiveToken
BY Known, RotationInit, RotationStep, PTL DEF Spec

-----------------------------------------------------------------------------
LEMMA ExtinctStep ==
  ASSUME TypeOK, FamilyInv, [Next]_vars, NEW f \in Request, Extinct(f)
  PROVE  Extinct(f)'
<1> USE SessionsAssumption DEF TypeOK, Extinct, Live, Goto
<1>1. ASSUME NEW r \in Request, OpenSession(r) PROVE Extinct(f)'
  BY <1>1 DEF OpenSession, IssuePair, FamilyInv
<1>2. ASSUME NEW r \in Request, ReadToken(r) PROVE Extinct(f)'
  BY <1>2 DEF ReadToken, FamilyInv
<1>3. ASSUME NEW r \in Request, Breach(r) PROVE Extinct(f)'
  BY <1>3 DEF Breach, RevokeFamily
<1>4. ASSUME NEW r \in Request, Issue(r) PROVE Extinct(f)'
  BY <1>4 DEF Issue, IssuePair, FamilyInv
<1>5. ASSUME NEW r \in Request, Retire(r) PROVE Extinct(f)'
  BY <1>5 DEF Retire
<1>6. ASSUME NEW r \in Request, LogoutRead(r) PROVE Extinct(f)'
  BY <1>6 DEF LogoutRead
<1>7. ASSUME NEW r \in Request, LogoutFind(r) PROVE Extinct(f)'
  BY <1>7 DEF LogoutFind
<1>8. ASSUME NEW r \in Request, LogoutCut(r) PROVE Extinct(f)'
  BY <1>8 DEF LogoutCut, RevokeFamily
<1>9. ASSUME NEW r \in Request, LogoutDeny(r) PROVE Extinct(f)'
  BY <1>9 DEF LogoutDeny
<1>10. ASSUME NEW r \in Request, Fault(r) PROVE Extinct(f)'
  BY <1>10 DEF Fault
<1>11. CASE RevokeSessions
  BY <1>11 DEF RevokeSessions
<1>12. CASE PurgeRefreshTokens
  BY <1>12 DEF PurgeRefreshTokens
<1>13. CASE PurgeDenied
  BY <1>13 DEF PurgeDenied
<1>14. CASE Tick
  BY <1>14 DEF Tick
<1>15. CASE UNCHANGED vars
  BY <1>15 DEF vars
<1>16. QED
  BY <1>1, <1>2, <1>3, <1>4, <1>5, <1>6, <1>7, <1>8,
     <1>9, <1>10, <1>11, <1>12, <1>13, <1>14, <1>15 DEF Next

(* Nothing revives a family that has no live token and no refresh under    *)
(* way: neither a replay, nor a refresh, nor the purge.                    *)
THEOREM ExtinctStays == Spec => ExtinctForGood
<1>1. TypeOK /\ FamilyInv /\ [Next]_vars => [\A f \in Request : Extinct(f) => Extinct(f)']_vars
  BY ExtinctStep
<1>2. QED
  BY <1>1, Known, PTL DEF Spec, ExtinctForGood

(* What descends from a set of requests: the set, whatever presents a      *)
(* token of it, and all the more once more requests have presented one.    *)
LEMMA LineHolds ==
  ASSUME NEW C \in SUBSET Request
  PROVE  /\ C \subseteq Line(C)
         /\ \A r \in Request : using[r] \in Line(C) => r \in Line(C)
BY DEF Line

LEMMA LineGrows ==
  ASSUME TypeOK, crossed' = crossed, NEW f \in Request,
         \A q \in Request : using'[q] = using[q] \/ using[q] = None
  PROVE  Line(crossed[f]) \subseteq Line(crossed[f])'
<1> SUFFICES ASSUME NEW r \in Line(crossed[f]), NEW S \in SUBSET Request, crossed[f] \subseteq S,
                    \A q \in Request : using'[q] \in S => q \in S
             PROVE  r \in S
  BY DEF Line
<1>1. \A q \in Request : using[q] \in S => q \in S
  BY SessionsAssumption
<1>2. QED
  BY <1>1 DEF Line

(* A family nobody opened was never cut off; a refresh under way in one    *)
(* that was is among those that crossed, or presents a token of their line; *)
(* every row has a family.                                                 *)
CutInv ==
    /\ \A t \in rows : family[t] # None
    /\ \A f \in Request : family[f] # f => crossed[f] = Request
    /\ \A r \in Request : pc[r] = "issue" => r \in Line(crossed[family[using[r]]])

(* The requests that have not presented a token.                           *)
FreshInv == \A r \in Request : pc[r] = "idle" => using[r] = None

LEMMA FreshStep == TypeOK /\ FreshInv /\ [Next]_vars => FreshInv'
<1> SUFFICES ASSUME TypeOK, FreshInv, [Next]_vars, NEW q \in Request, pc'[q] = "idle"
             PROVE  using'[q] = None
  BY DEF FreshInv
<1> USE DEF TypeOK, FreshInv, Goto
<1>1. ASSUME NEW r \in Request,
             OpenSession(r) \/ Breach(r) \/ Issue(r) \/ Retire(r) \/ LogoutFind(r)
               \/ LogoutCut(r) \/ LogoutDeny(r) \/ Fault(r)
      PROVE  using'[q] = None
  BY <1>1 DEF OpenSession, Breach, Issue, Retire, LogoutFind, LogoutCut, LogoutDeny, Fault
<1>2. ASSUME NEW r \in Request, ReadToken(r) \/ LogoutRead(r) PROVE using'[q] = None
  BY <1>2 DEF ReadToken, LogoutRead
<1>3. CASE RevokeSessions \/ PurgeRefreshTokens \/ PurgeDenied \/ Tick
  BY <1>3 DEF RevokeSessions, PurgeRefreshTokens, PurgeDenied, Tick
<1>4. CASE UNCHANGED vars
  BY <1>4 DEF vars
<1>5. QED
  BY <1>1, <1>2, <1>3, <1>4 DEF Next

(* Whatever is cut off leaves no live token behind.                        *)
LEMMA CutStep ==
  ASSUME TypeOK, FamilyInv, CutInv, SurvivorsCrossed, NEW F \in SUBSET Request, CutOff(F),
         \A f \in F : family[f] = f,
         revoked' = revoked \cup {t \in rows : family[t] \in F},
         UNCHANGED <<rows, family, using>>,
         \A q \in Request : pc'[q] = "issue" => pc[q] = "issue"
  PROVE  CutInv' /\ SurvivorsCrossed'
<1>1. \A f \in Request :
        crossed'[f] = IF f \in F
                      THEN {q \in Request : pc[q] = "issue" /\ family[using[q]] = f}
                      ELSE crossed[f]
  BY DEF CutOff
<1>2. \A C : Line(C)' = Line(C)
  BY DEF Line
<1>3. \A f \in Request : crossed[f] \in SUBSET Request /\ crossed'[f] \in SUBSET Request
  BY <1>1 DEF TypeOK
<1>4. ASSUME NEW r \in Request, pc'[r] = "issue" PROVE r \in Line(crossed'[family[using[r]]])
  <2>1. pc[r] = "issue" /\ family[using[r]] \in Request
    BY <1>4 DEF FamilyInv
  <2>2. CASE family[using[r]] \in F
    BY <1>1, <1>3, <2>1, <2>2, LineHolds
  <2>3. CASE family[using[r]] \notin F
    BY <1>1, <2>1, <2>3 DEF CutInv
  <2>4. QED
    BY <2>2, <2>3
<1>5. CutInv'
  BY <1>1, <1>2, <1>4 DEF CutInv
<1>6. ASSUME NEW f \in Request PROVE Live(f)' \subseteq Line(crossed'[f])
  <2>1. CASE f \in F
    BY <2>1 DEF Live
  <2>2. CASE f \notin F
    BY <1>1, <2>2 DEF Live, SurvivorsCrossed
  <2>3. QED
    BY <2>1, <2>2
<1>7. QED
  BY <1>2, <1>5, <1>6 DEF SurvivorsCrossed

LEMMA FamilyHeld ==
  ASSUME FamilyInv, NEW r \in Request, pc[r] = "issue"
  PROVE  using[r] \in given /\ family[using[r]] \in Request
BY DEF FamilyInv

(* What cuts nothing off, and lets no refresh pass.                        *)
LEMMA UncutStep ==
  ASSUME TypeOK, FamilyInv, CutInv, SurvivorsCrossed,
         UNCHANGED <<family, crossed>>, rows' \subseteq rows,
         \A t \in rows' : t \in revoked => t \in revoked',
         \A q \in Request : using'[q] = using[q] \/ using[q] = None,
         \A q \in Request : pc'[q] = "issue" => pc[q] = "issue" /\ using'[q] = using[q]
  PROVE  CutInv' /\ SurvivorsCrossed'
<1>1. \A f \in Request : Line(crossed[f]) \subseteq Line(crossed[f])'
  BY LineGrows
<1>2. \A r \in Request : (pc[r] = "issue" => r \in Line(crossed[family[using[r]]]))'
  <2> SUFFICES ASSUME NEW r \in Request, pc'[r] = "issue"
               PROVE  (r \in Line(crossed[family[using[r]]]))'
    OBVIOUS
  <2>1. pc[r] = "issue" /\ using'[r] = using[r] /\ family[using[r]] \in Request
    BY FamilyHeld
  <2>2. r \in Line(crossed[family[using[r]]])
    BY <2>1 DEF CutInv
  <2>3. QED
    BY <1>1, <2>1, <2>2 DEF Line
<1>3. CutInv'
  BY <1>2 DEF CutInv
<1>4. \A f \in Request : Live(f)' \subseteq Live(f)
  BY DEF Live
<1>5. \A f \in Request : (Live(f) \subseteq Line(crossed[f]))'
  BY <1>1, <1>4 DEF SurvivorsCrossed
<1>6. QED
  BY <1>3, <1>5 DEF SurvivorsCrossed

LEMMA SurvivorStep ==
  ASSUME TypeOK, FamilyInv, FreshInv, CutInv, SurvivorsCrossed, [Next]_vars
  PROVE  CutInv' /\ SurvivorsCrossed'
<1>1. ASSUME NEW r \in Request, OpenSession(r) PROVE CutInv' /\ SurvivorsCrossed'
  <2>1. /\ family[r] = None /\ family' = [family EXCEPT ![r] = r] /\ rows' = rows \cup {r}
        /\ UNCHANGED <<revoked, using, crossed>>
        /\ \A q \in Request : pc'[q] = "issue" => pc[q] = "issue"
    BY <1>1 DEF OpenSession, IssuePair, FamilyInv, Goto, TypeOK
  <2>2. crossed[r] = Request /\ Request \subseteq Line(Request)
    BY <2>1, LineHolds, SessionsAssumption DEF CutInv
  <2>3. \A C : Line(C)' = Line(C)
    BY <2>1 DEF Line
  <2>4. \A q \in Request : pc[q] = "issue" => using[q] # r
    BY <1>1 DEF FamilyInv, OpenSession
  <2>5. CutInv'
    BY <2>1, <2>3, <2>4, SessionsAssumption DEF CutInv, TypeOK, FamilyInv
  <2>6. \A f \in Request : Live(f)' \subseteq Live(f) \cup (IF f = r THEN {r} ELSE {})
    BY <2>1 DEF Live, TypeOK
  <2>7. QED
    BY <2>1, <2>2, <2>3, <2>5, <2>6 DEF SurvivorsCrossed
<1>2. ASSUME NEW r \in Request, ReadToken(r) PROVE CutInv' /\ SurvivorsCrossed'
  <2>1. PICK t \in given : /\ using' = [using EXCEPT ![r] = t]
                           /\ pc'[r] = "issue" => t \in rows \ revoked
    BY <1>2 DEF ReadToken, Goto, TypeOK
  <2>2. /\ UNCHANGED <<rows, revoked, family, crossed>> /\ using[r] = None
        /\ \A q \in Request \ {r} : pc'[q] = pc[q]
    BY <1>2 DEF ReadToken, Goto, TypeOK, FreshInv
  <2>3. \A f \in Request : Line(crossed[f]) \subseteq Line(crossed[f])'
    BY <2>1, <2>2, LineGrows DEF TypeOK
  <2>4. \A q \in Request : (pc[q] = "issue" => q \in Line(crossed[family[using[q]]]))'
    <3> SUFFICES ASSUME NEW q \in Request, pc'[q] = "issue"
                 PROVE  (q \in Line(crossed[family[using[q]]]))'
      OBVIOUS
    <3>1. CASE q = r
      <4>1. t \in Request /\ family[t] \in Request /\ using'[r] = t /\ t \in Live(family[t])
        BY <2>1, <3>1 DEF TypeOK, FamilyInv, Live
      <4>2. t \in Line(crossed[family[t]])
        BY <4>1 DEF SurvivorsCrossed
      <4>3. (t \in Line(crossed[family[t]]))'
        BY <2>2, <2>3, <4>1, <4>2 DEF Line
      <4>4. QED
        BY <2>2, <3>1, <4>1, <4>3 DEF Line
    <3>2. CASE q # r
      <4>1. pc[q] = "issue" /\ using'[q] = using[q] /\ family[using[q]] \in Request
        BY <2>1, <2>2, <3>2, FamilyHeld DEF TypeOK
      <4>2. q \in Line(crossed[family[using[q]]])
        BY <4>1 DEF CutInv
      <4>3. QED
        BY <2>2, <2>3, <4>1, <4>2 DEF Line
    <3>3. QED
      BY <3>1, <3>2
  <2>5. CutInv'
    BY <2>2, <2>4 DEF CutInv
  <2>6. QED
    BY <2>2, <2>3, <2>5 DEF SurvivorsCrossed, Live
<1>3. ASSUME NEW r \in Request, Breach(r) \/ LogoutCut(r) PROVE CutInv' /\ SurvivorsCrossed'
  <2>1. using[r] \in given /\ family[using[r]] \in Request
        /\ family[family[using[r]]] = family[using[r]]
    BY <1>3, SessionsAssumption DEF Breach, LogoutCut, FamilyInv, TypeOK
  <2>2. /\ CutOff({family[using[r]]}) /\ UNCHANGED <<rows, family, using>>
        /\ revoked' = revoked \cup {t \in rows : family[t] \in {family[using[r]]}}
        /\ \A q \in Request : pc'[q] = "issue" => pc[q] = "issue"
    BY <1>3 DEF Breach, LogoutCut, RevokeFamily, Goto, TypeOK
  <2>3. QED
    BY <2>1, <2>2, CutStep
<1>4. ASSUME NEW r \in Request, Issue(r) PROVE CutInv' /\ SurvivorsCrossed'
  <2> DEFINE f0 == family[using[r]]
  <2>1. /\ pc[r] = "issue" /\ family[r] = None /\ family' = [family EXCEPT ![r] = f0]
        /\ rows' = rows \cup {r} /\ UNCHANGED <<revoked, using, crossed>> /\ f0 \in Request
        /\ \A q \in Request : pc'[q] = "issue" => pc[q] = "issue"
    BY <1>4 DEF Issue, IssuePair, FamilyInv, Goto, TypeOK
  <2>2. r \in Line(crossed[f0])
    BY <2>1 DEF CutInv
  <2>3. \A C : Line(C)' = Line(C)
    BY <2>1 DEF Line
  <2>4. /\ \A q \in Request : pc[q] = "issue" => using[q] # r
        /\ f0 # r
    BY <2>1, SessionsAssumption DEF FamilyInv, TypeOK
  <2>5. CutInv'
    BY <2>1, <2>3, <2>4, SessionsAssumption DEF CutInv, TypeOK, FamilyInv
  <2>6. \A f \in Request : Live(f)' \subseteq Live(f) \cup (IF f = f0 THEN {r} ELSE {})
    BY <2>1 DEF Live, TypeOK
  <2>7. QED
    BY <2>1, <2>2, <2>3, <2>5, <2>6 DEF SurvivorsCrossed
<1>5. ASSUME NEW r \in Request,
             Retire(r) \/ LogoutFind(r) \/ LogoutDeny(r) \/ Fault(r) \/ LogoutRead(r)
      PROVE  CutInv' /\ SurvivorsCrossed'
  <2>1. /\ UNCHANGED <<rows, family, crossed>> /\ revoked \subseteq revoked'
        /\ \A q \in Request : pc'[q] = "issue" => pc[q] = "issue" /\ using'[q] = using[q]
        /\ \A q \in Request : using'[q] = using[q] \/ using[q] = None
    BY <1>5
       DEF Retire, LogoutFind, LogoutDeny, Fault, LogoutRead, Goto, TypeOK, FreshInv
  <2>2. QED
    BY <2>1, UncutStep
<1>6. CASE RevokeSessions
  <2>1. /\ CutOff({f \in Request : family[f] = f}) /\ UNCHANGED <<rows, family, using, pc>>
        /\ revoked' = rows
    BY <1>6 DEF RevokeSessions
  <2>2. \A t \in rows : family[t] # None => family[t] \in {f \in Request : family[f] = f}
    BY SessionsAssumption DEF FamilyInv, TypeOK
  <2>3. revoked' = revoked \cup {t \in rows : family[t] \in {f \in Request : family[f] = f}}
    BY <2>1, <2>2 DEF CutInv, TypeOK
  <2>4. QED
    BY <2>1, <2>3, CutStep
<1>7. CASE PurgeRefreshTokens \/ PurgeDenied \/ Tick \/ UNCHANGED vars
  <2>1. /\ UNCHANGED <<family, crossed, using, pc>> /\ rows' \subseteq rows
        /\ \A t \in rows' : t \in revoked => t \in revoked'
    BY <1>7 DEF PurgeRefreshTokens, PurgeDenied, Tick, vars, TypeOK
  <2>2. QED
    BY <2>1, UncutStep
<1>8. QED
  BY <1>1, <1>2, <1>3, <1>4, <1>5, <1>6, <1>7 DEF Next

(* A family that was cut off lives on only through the refreshes that      *)
(* crossed the cut, whatever is presented, replayed or purged since: the   *)
(* race of a logout with a refresh, and no more than it.                   *)
THEOREM OnlyCrossedSurvive == Spec => []SurvivorsCrossed
<1>1. Init => FreshInv /\ CutInv /\ SurvivorsCrossed
  BY SessionsAssumption DEF Init, FreshInv, CutInv, SurvivorsCrossed, Live
<1>2. TypeOK /\ FamilyInv /\ FreshInv /\ CutInv /\ SurvivorsCrossed /\ [Next]_vars
        => FreshInv' /\ CutInv' /\ SurvivorsCrossed'
  BY FreshStep, SurvivorStep
<1>3. QED
  BY <1>1, <1>2, Known, PTL DEF Spec

-----------------------------------------------------------------------------
(* Browser.                                                                *)
USE DEF service, client, excuses

-----------------------------------------------------------------------------
(* The client only composes what the service does by itself.               *)
LEMMA Composes == [BrowserNext]_all => [Next]_vars
<1> SUFFICES ASSUME [BrowserNext]_all PROVE [Next]_vars
  OBVIOUS
<1>1. ASSUME NEW c \in Call, Send(c) \/ Serve(c) \/ Refused(c) \/ LoseCall(c)
      PROVE  UNCHANGED vars
  BY <1>1 DEF Send, Serve, Refused, LoseCall
<1>2. CASE SendAuth
  <2>1. UNCHANGED vars
    BY <1>2 DEF SendAuth
  <2>2. QED
    BY <2>1
<1>3. ASSUME NEW r \in Request, Arrive(r) PROVE [Next]_vars
  BY <1>3 DEF Arrive, Next
<1>4. ASSUME NEW r \in Request, Serves(r) PROVE [Next]_vars
  BY <1>4 DEF Serves, ServiceStep, Next
<1>5. ASSUME NEW r \in Request, Deliver(r) \/ Lose(r) PROVE UNCHANGED vars
  BY <1>5 DEF Deliver, Lose
<1>6. CASE Background
  BY <1>6 DEF Background, Next
<1>7. CASE UNCHANGED all
  <2>1. UNCHANGED vars
    BY <1>7 DEF all
  <2>2. QED
    BY <2>1
<1>8. CASE BrowserNext
  <2>1. CASE \E c \in Call : Send(c) \/ Serve(c) \/ Refused(c) \/ LoseCall(c)
    BY <1>1, <2>1
  <2>2. CASE \E r \in Request : Arrive(r) \/ Serves(r) \/ Deliver(r) \/ Lose(r)
    BY <1>3, <1>4, <1>5, <2>2
  <2>3. QED
    BY <1>2, <1>6, <1>8, <2>1, <2>2 DEF BrowserNext
<1>9. QED
  BY <1>7, <1>8

LEMMA Starts == BrowserSpec => BrowserInit /\ [][BrowserNext]_all
BY PTL DEF BrowserSpec

(* Whatever the tabs send and the network loses, the service goes through  *)
(* states of its own: each theorem about it holds of the composition       *)
(* (auth.controller.ts behind request() of api.ts).                        *)
THEOREM ServiceUnderneath == BrowserSpec => Spec
<1>1. BrowserInit => Init
  BY DEF BrowserInit
<1>2. QED
  BY <1>1, Composes, Starts, PTL DEF Spec

-----------------------------------------------------------------------------
Abroad(r) == wire[r] \in {"sent", "served"}

(* Where a request stands in the service, by its route and its journey.    *)
WireInv ==
    \A r \in Request :
       /\ wire[r] \in {"unused", "sent"} => pc[r] = "idle"
       /\ wire[r] = "answered" => pc[r] \in {"idle", "done", "loggedOut", "aborted"}
       /\ r \in Login => pc[r] \in {"idle", "done"} /\ using[r] = None
       /\ r \in Refresh => pc[r] \in {"idle", "breach", "issue", "retire", "done", "aborted"}
       /\ r \in Logout => pc[r] \in {"idle", "find", "cut", "deny", "loggedOut", "aborted"}
       /\ pc[r] = "idle" => using[r] = None
       /\ wire[r] = "served" /\ r \notin Login => using[r] = carried[r].refresh

(* The two cookies are of one pair, that the client was given and has had. *)
Pair(x) ==
    /\ x.access = x.refresh
    /\ x.refresh # None => x.refresh \in given /\ wire[x.refresh] = "answered"

CookieInv ==
    /\ Pair(jar)
    /\ \A r \in Request : /\ Pair(carried[r])
                          /\ wire[r] = "unused" => carried[r] = NoCookies

(* A family is that of a login the client has had the answer of.           *)
DescentInv ==
    \A t \in Request : family[t] # None =>
       /\ family[t] \in Login
       /\ \/ t \in Login /\ family[t] = t
          \/ /\ t \in Refresh /\ wire[family[t]] = "answered"
             /\ using[t] # None /\ wire[using[t]] = "answered"
             /\ family[using[t]] = family[t]

FlightInv == \A q \in Refresh : Abroad(q) => \E t \in Tab : flight[t] = q

CallInv ==
    \A c \in Call :
       /\ call[c] = "idle" => c \notin again /\ runs[c] = 0
       /\ call[c] = "waiting" => c \notin again
       /\ call[c] = "sent" /\ c \in again => Refresh \cap given # {}
       /\ call[c] = "sent" => runs[c] <= 1 /\ (c \notin again => runs[c] = 0)
       /\ c \notin again => runs[c] <= 1
       /\ call[c] \in {"sent", "refused", "waiting"} /\ kind[c] = "plain" => runs[c] = 0

(* Two refreshes that carry one token are excused.                         *)
AloneInv ==
    \A q, r \in Refresh :
       q # r /\ Abroad(q) /\ Abroad(r) /\ carried[q].refresh # None
             /\ carried[q].refresh = carried[r].refresh
          => family[carried[q].refresh] \in excused

(* A token whose exchange the client knows of is not presented again.      *)
SpentInv ==
    \A q \in Refresh \cap given :
       wire[q] = "answered" /\ family[using[q]] \notin excused =>
          /\ jar.refresh # using[q]
          /\ \A r \in Refresh : Abroad(r) => carried[r].refresh # using[q]

(* What a logout closes, no refresh brings back, and no cookie is of.      *)
PartingInv ==
    \A r \in Logout :
       LET f == family[carried[r].refresh] IN
       /\ carried[r].refresh # None /\ f \notin parting
       /\ Abroad(r) \/ (wire[r] = "answered" /\ pc[r] = "loggedOut")
       => /\ \A q \in Refresh : Abroad(q) /\ carried[q].refresh # None
                                  => family[carried[q].refresh] # f
          /\ wire[r] = "answered" /\ jar.refresh # None => family[jar.refresh] # f

BInv ==
    /\ BrowserTypeOK /\ FamilyInv
    /\ WireInv /\ CookieInv /\ DescentInv /\ FlightInv
    /\ CallInv /\ RunsOnce /\ AloneInv /\ SpentInv /\ PartingInv

LEMMA BInit == BrowserInit => BInv
<1> SUFFICES ASSUME BrowserInit PROVE BInv
  OBVIOUS
<1> USE BrowserAssumption, SessionsAssumption
<1>1. TypeOK /\ FamilyInv
  BY Start DEF BrowserInit
<1>2. tabOf \in [Call -> Tab] /\ kind \in [Call -> Kind]
  BY DEF BrowserInit
<1>3. BrowserTypeOK
  BY <1>1, <1>2 DEF BrowserInit, BrowserTypeOK, NoCookies, Cookies
<1>4. WireInv /\ CookieInv /\ DescentInv /\ FlightInv
  BY DEF BrowserInit, Init, WireInv, CookieInv, Pair, DescentInv, FlightInv, Abroad, NoCookies
<1>5. CallInv /\ RunsOnce
  BY DEF BrowserInit, CallInv, RunsOnce
<1>6. AloneInv /\ SpentInv /\ PartingInv
  BY DEF BrowserInit, Init, AloneInv, SpentInv, PartingInv, Abroad, NoCookies
<1>7. QED
  BY <1>1, <1>3, <1>4, <1>5, <1>6 DEF BInv

(* What the client holds was given: it is issued, and stays as it is.      *)
LEMMA Held ==
  ASSUME BInv
  PROVE  /\ given \subseteq Login \cup Refresh
         /\ \A t \in given : pc[t] = "done" /\ family[t] # None
         /\ jar.refresh # None => jar.refresh \in given
         /\ \A r \in Request : carried[r].refresh # None => carried[r].refresh \in given
         /\ \A r \in Request : family[r] # None => family[r] \in Login
         /\ \A q \in Refresh \cap given :
              /\ using[q] # None /\ wire[using[q]] = "answered"
              /\ family[using[q]] = family[q]
<1> USE BrowserAssumption, SessionsAssumption DEF BInv, BrowserTypeOK, TypeOK
<1>1. given \subseteq Login \cup Refresh
  BY DEF WireInv, FamilyInv
<1>2. \A t \in given : pc[t] = "done" /\ family[t] # None
  BY DEF FamilyInv
<1>3. /\ jar.refresh # None => jar.refresh \in given
      /\ \A r \in Request : carried[r].refresh # None => carried[r].refresh \in given
  BY DEF CookieInv, Pair
<1>4. \A r \in Request : family[r] # None => family[r] \in Login
  BY DEF DescentInv
<1>5. \A q \in Refresh \cap given : /\ using[q] # None /\ wire[using[q]] = "answered"
                                   /\ family[using[q]] = family[q]
  BY <1>2 DEF DescentInv
<1>6. QED
  BY <1>1, <1>2, <1>3, <1>4, <1>5

-----------------------------------------------------------------------------
(* The service takes a request one step further.                           *)
Moves(r) ==
    /\ UNCHANGED <<jar, carried, tabOf, kind, flight, call, held, again, runs, excused, parting>>
    /\ lost' \in 0..MaxLost
    /\ Abroad(r) /\ wire' = [wire EXCEPT ![r] = "served"]
    /\ \A q \in Request \ {r} : pc'[q] = pc[q] /\ using'[q] = using[q]
    /\ r \in Login => pc'[r] = "done" /\ using'[r] = None
    /\ r \in Refresh => /\ pc'[r] \in {"idle", "breach", "issue", "retire", "done", "aborted"}
                        /\ using'[r] = carried[r].refresh
    /\ r \in Logout => /\ pc'[r] \in {"find", "cut", "deny", "loggedOut", "aborted"}
                       /\ using'[r] = carried[r].refresh
    /\ pc'[r] = "idle" => using'[r] = None
    /\ given \subseteq given' /\ given' \subseteq given \cup {r}
    /\ \A t \in Request \ {r} : family'[t] = family[t]
    /\ \/ family'[r] = family[r]
       \/ r \in Login /\ family[r] = None /\ family'[r] = r
       \/ /\ r \in Refresh /\ family[r] = None /\ using'[r] \in given
          /\ family'[r] = family[using'[r]]

LEMMA ArriveMoves ==
  ASSUME BInv, NEW r \in Request, Arrive(r)
  PROVE  Moves(r)
<1> USE BrowserAssumption, SessionsAssumption DEF BInv, BrowserTypeOK, TypeOK
<1>1. /\ wire[r] = "sent" /\ pc[r] = "idle" /\ using[r] = None /\ family[r] = None
      /\ wire' = [wire EXCEPT ![r] = "served"]
      /\ UNCHANGED <<jar, carried, tabOf, kind, flight, call, held, again, runs, excused, parting>>
      /\ lost' = lost
  BY DEF Arrive, Travels, WireInv, FamilyInv
<1>2. CASE r \in Login /\ OpenSession(r)
  BY <1>1, <1>2 DEF Moves, Abroad, OpenSession, IssuePair, Goto
<1>3. CASE r \in Refresh /\ carried[r].refresh = None /\ UNCHANGED service
  <2>1. UNCHANGED <<pc, using, given, family>>
    BY <1>3 DEF vars
  <2>2. QED
    BY <1>1, <1>3, <2>1 DEF Moves, Abroad
<1>4. CASE r \in Refresh /\ ReadToken(r) /\ using'[r] = carried[r].refresh
  <2>1. /\ given' = given /\ family' = family
        /\ \A q \in Request \ {r} : pc'[q] = pc[q] /\ using'[q] = using[q]
        /\ pc'[r] \in {"breach", "done", "issue"}
    BY <1>4 DEF ReadToken, Goto
  <2>2. QED
    BY <1>1, <1>4, <2>1 DEF Moves, Abroad
<1>5. CASE r \in Logout /\ LogoutRead(r) /\ using'[r] = carried[r].refresh
  <2>1. /\ given' = given /\ family' = family
        /\ \A q \in Request \ {r} : pc'[q] = pc[q] /\ using'[q] = using[q]
        /\ pc'[r] \in {"deny", "find"}
    BY <1>5 DEF LogoutRead, Goto
  <2>2. QED
    BY <1>1, <1>5, <2>1 DEF Moves, Abroad
<1>6. QED
  BY <1>2, <1>3, <1>4, <1>5 DEF Arrive

LEMMA ServesMoves ==
  ASSUME BInv, NEW r \in Request, Serves(r)
  PROVE  Moves(r)
<1> USE BrowserAssumption, SessionsAssumption DEF BInv, BrowserTypeOK, TypeOK
<1>1. /\ wire' = wire
      /\ UNCHANGED <<jar, carried, tabOf, kind, flight, call, held, again, runs, excused, parting>>
      /\ lost' \in 0..MaxLost
  BY DEF Serves
<1>2. /\ pc[r] \in {"breach", "issue", "retire", "find", "cut", "deny"}
      /\ using' = using
      /\ \A q \in Request \ {r} : pc'[q] = pc[q]
      /\ given \subseteq given' /\ given' \subseteq given \cup {r}
      /\ \A t \in Request \ {r} : family'[t] = family[t]
  <2>1. pc[r] \in {"breach", "issue", "retire", "find", "cut", "deny"} /\ using' = using
    BY DEF Serves, ServiceStep, Breach, Issue, Retire, LogoutFind, LogoutCut, LogoutDeny, Fault,
           Label
  <2>2. \A q \in Request \ {r} : pc'[q] = pc[q]
    BY DEF Serves, ServiceStep, Breach, Issue, Retire, LogoutFind, LogoutCut, LogoutDeny, Fault,
           Goto
  <2>3. given \subseteq given' /\ given' \subseteq given \cup {r}
    BY DEF Serves, ServiceStep, Breach, Issue, Retire, LogoutFind, LogoutCut, LogoutDeny, Fault
  <2>4. \A t \in Request \ {r} : family'[t] = family[t]
    BY DEF Serves, ServiceStep, Breach, Issue, Retire, LogoutFind, LogoutCut, LogoutDeny, Fault,
           IssuePair, RevokeFamily
  <2>5. QED
    BY <2>1, <2>2, <2>3, <2>4
<1>3. wire[r] = "served" /\ r \notin Login /\ using[r] = carried[r].refresh
  BY <1>2 DEF WireInv
<1>4. /\ r \in Refresh => pc'[r] \in {"retire", "done", "aborted"}
      /\ r \in Logout => pc'[r] \in {"cut", "deny", "loggedOut", "aborted"}
  <2>1. /\ r \in Refresh => pc[r] \in {"breach", "issue", "retire"}
        /\ r \in Logout => pc[r] \in {"find", "cut", "deny"}
    BY <1>2 DEF WireInv
  <2>2. QED
    BY <2>1 DEF Serves, ServiceStep, Breach, Issue, Retire, LogoutFind, LogoutCut, LogoutDeny,
                Fault, Goto
<1>5. \/ family'[r] = family[r]
      \/ r \in Refresh /\ family[r] = None /\ using[r] \in given /\ family'[r] = family[using[r]]
  <2>1. CASE Issue(r)
    BY <2>1 DEF Issue, IssuePair, FamilyInv, WireInv
  <2>2. CASE ~Issue(r)
    BY <2>2 DEF Serves, ServiceStep, Breach, Retire, LogoutFind, LogoutCut, LogoutDeny, Fault,
                RevokeFamily
  <2>3. QED
    BY <2>1, <2>2
<1>6. QED
  BY <1>1, <1>2, <1>3, <1>4, <1>5 DEF Moves, Abroad

LEMMA MovesKeeps ==
  ASSUME BInv, NEW r \in Request, Moves(r), TypeOK', FamilyInv'
  PROVE  BInv'
<1> USE BrowserAssumption, SessionsAssumption
<1>1. /\ \A t \in given : family'[t] = family[t] /\ t \in given'
      /\ \A q \in Request : Abroad(q)' = Abroad(q) /\ (wire[q] = "answered") = (wire'[q] = "answered")
      /\ UNCHANGED <<jar, carried, tabOf, kind, flight, call, held, again, runs, excused, parting>>
  <2>1. \A t \in given : family'[t] = family[t] /\ t \in given'
    BY Held DEF Moves, BInv, BrowserTypeOK, TypeOK
  <2>2. \A q \in Request : Abroad(q)' = Abroad(q) /\ (wire[q] = "answered") = (wire'[q] = "answered")
    BY DEF Moves, Abroad, BInv, BrowserTypeOK
  <2>3. QED
    BY <2>1, <2>2 DEF Moves
<1>2. BrowserTypeOK'
  BY DEF BInv, BrowserTypeOK, Moves
<1>3. WireInv'
  BY <1>1 DEF BInv, BrowserTypeOK, WireInv, Moves, Abroad
<1>4. CookieInv'
  BY <1>1 DEF BInv, BrowserTypeOK, Cookies, CookieInv, Pair, Moves, Abroad
<1>5. DescentInv'
  <2> SUFFICES ASSUME NEW t \in Request, family'[t] # None
               PROVE  /\ family'[t] \in Login
                      /\ \/ t \in Login /\ family'[t] = t
                         \/ /\ t \in Refresh /\ wire'[family'[t]] = "answered"
                            /\ using'[t] # None /\ wire'[using'[t]] = "answered"
                            /\ family'[using'[t]] = family'[t]
    BY DEF DescentInv
  <2>1. CASE family'[t] = family[t] /\ t # r
    <3>1. using'[t] = using[t]
      BY <2>1 DEF Moves
    <3>2. using[t] # None /\ family[using[t]] # None /\ using[t] \in Request
            => family'[using[t]] = family[using[t]]
      BY DEF Moves
    <3>3. QED
      BY <1>1, <2>1, <3>1, <3>2 DEF BInv, BrowserTypeOK, TypeOK, DescentInv
  <2>2. CASE family'[t] = family[t] /\ t = r
    <3>1. using[r] # None => using'[r] = using[r]
      BY DEF Moves, BInv, WireInv, Abroad
    <3>2. using[t] # None /\ family[using[t]] # None /\ using[t] \in Request
            => family'[using[t]] = family[using[t]]
      BY DEF Moves
    <3>3. QED
      BY <1>1, <2>2, <3>1, <3>2 DEF BInv, BrowserTypeOK, TypeOK, DescentInv
  <2>3. CASE t = r /\ r \in Login /\ family'[r] = r
    BY <2>3
  <2>4. CASE /\ t = r /\ r \in Refresh /\ family[r] = None /\ using'[r] \in given
             /\ family'[r] = family[using'[r]]
    <3> DEFINE u == using'[r]
    <3>1. u \in given /\ u = carried[r].refresh /\ u # r /\ u # None
      BY <2>4, Held DEF Moves, BInv, BrowserTypeOK, TypeOK
    <3>2. wire[u] = "answered" /\ family[u] # None /\ family[u] \in Login
      BY <3>1, Held DEF BInv, CookieInv, Pair, BrowserTypeOK, TypeOK
    <3>3. wire[family[u]] = "answered"
      <4>1. u \in Request
        BY <3>1 DEF BInv, BrowserTypeOK, TypeOK
      <4>2. family[u] = u \/ wire[family[u]] = "answered"
        BY <3>2, <4>1 DEF BInv, DescentInv
      <4>3. QED
        BY <3>2, <4>2
    <3>4. u \in Request /\ family[u] \in Request
      BY <3>1, <3>2 DEF BInv, BrowserTypeOK, TypeOK
    <3>5. wire'[u] = "answered" /\ wire'[family[u]] = "answered" /\ family'[u] = family[u]
      BY <1>1, <3>1, <3>2, <3>3, <3>4
    <3>6. QED
      BY <2>4, <3>1, <3>2, <3>5
  <2>5. QED
    BY <2>1, <2>2, <2>3, <2>4 DEF Moves
<1>6. FlightInv'
  BY <1>1 DEF BInv, FlightInv
<1>7. CallInv' /\ RunsOnce'
  <2>1. given \subseteq given'
    BY DEF Moves
  <2>2. Refresh \cap given # {} => Refresh \cap given' # {}
    BY <2>1
  <2>3. CallInv'
    BY <1>1, <2>2 DEF BInv, CallInv
  <2>4. RunsOnce'
    BY <1>1, <2>2 DEF BInv, RunsOnce
  <2>5. QED
    BY <2>3, <2>4
<1>8. AloneInv'
  BY <1>1, Held DEF BInv, AloneInv
<1>9. SpentInv'
  <2>1. \A q \in Refresh \cap given' :
          wire'[q] = "answered" => /\ q \in given /\ using'[q] = using[q]
                                   /\ family'[using[q]] = family[using[q]]
    <3>1. SUFFICES ASSUME NEW q \in Refresh \cap given', wire'[q] = "answered"
                   PROVE  /\ q \in given /\ using'[q] = using[q]
                          /\ family'[using[q]] = family[using[q]]
      OBVIOUS
    <3>2. q # r
      BY <3>1 DEF Moves, BInv, BrowserTypeOK
    <3>3. q \in given /\ using'[q] = using[q]
      BY <3>2 DEF Moves
    <3>4. using[q] # None /\ using[q] \in Request /\ family[using[q]] # None
      BY <3>3, Held DEF BInv, BrowserTypeOK, TypeOK
    <3>5. QED
      BY <3>3, <3>4 DEF Moves
  <2>2. QED
    BY <1>1, <2>1 DEF BInv, SpentInv
<1>10. PartingInv'
  <2>1. \A q \in Request : wire'[q] = "answered" => pc'[q] = pc[q]
    BY DEF Moves, BInv, BrowserTypeOK
  <2>2. QED
    BY <1>1, <2>1, Held DEF BInv, PartingInv
<1>11. QED
  BY <1>2, <1>3, <1>4, <1>5, <1>6, <1>7, <1>8, <1>9, <1>10 DEF BInv

LEMMA BackgroundKeeps ==
  ASSUME BInv, Background, TypeOK', FamilyInv'
  PROVE  BInv'
<1>1. /\ UNCHANGED <<jar, wire, carried, tabOf, kind, flight, call, held, again, runs, lost,
                     excused, parting>>
      /\ UNCHANGED <<family, pc, using, given>>
  BY DEF Background, RevokeSessions, PurgeRefreshTokens, PurgeDenied, Tick
<1>2. BrowserTypeOK'
  BY <1>1 DEF BInv, BrowserTypeOK
<1>3. WireInv' /\ CookieInv' /\ DescentInv' /\ FlightInv'
  BY <1>1 DEF BInv, WireInv, CookieInv, Pair, DescentInv, FlightInv, Abroad
<1>4. CallInv' /\ RunsOnce'
  BY <1>1 DEF BInv, CallInv, RunsOnce
<1>5. AloneInv' /\ SpentInv' /\ PartingInv'
  BY <1>1 DEF BInv, AloneInv, SpentInv, PartingInv, Abroad
<1>6. QED
  BY <1>2, <1>3, <1>4, <1>5 DEF BInv

-----------------------------------------------------------------------------
(* The calls: each of their steps but the start of a refresh.              *)
LEMMA CallTypes ==
  ASSUME BInv, UNCHANGED <<service, jar, wire, carried, tabOf, kind, flight, excuses>>,
         lost' \in 0..MaxLost,
         call' \in [Call -> {"idle", "sent", "refused", "waiting", "ok", "failed"}],
         held' \in [Call -> Request \cup {None}],
         runs' \in [Call -> 0..2], again' = again, CallInv', RunsOnce'
  PROVE  BInv'
<1>1. UNCHANGED <<rows, revoked, family, expires, accessEnd, denied, now, pc, using, access,
                  faults, given, closed, forked, crossed>>
  BY DEF vars
<1>2. TypeOK' /\ FamilyInv'
  BY <1>1 DEF BInv, BrowserTypeOK, TypeOK, FamilyInv
<1>3. BrowserTypeOK'
  BY <1>2 DEF BInv, BrowserTypeOK
<1>4. WireInv' /\ CookieInv' /\ DescentInv' /\ FlightInv'
  BY <1>1 DEF BInv, WireInv, CookieInv, Pair, DescentInv, FlightInv, Abroad
<1>5. AloneInv' /\ SpentInv' /\ PartingInv'
  BY <1>1 DEF BInv, AloneInv, SpentInv, PartingInv, Abroad
<1>6. QED
  BY <1>2, <1>3, <1>4, <1>5 DEF BInv

LEMMA CallKeeps ==
  ASSUME BInv, NEW c \in Call, Send(c) \/ Serve(c) \/ LoseCall(c)
  PROVE  BInv'
<1> USE BrowserAssumption, SessionsAssumption DEF BInv, BrowserTypeOK
<1>1. CASE Send(c)
  <2>1. /\ call' \in [Call -> {"idle", "sent", "refused", "waiting", "ok", "failed"}]
        /\ held' \in [Call -> Request \cup {None}]
    BY <1>1 DEF Send, Cookies
  <2>2. CallInv' /\ RunsOnce'
    BY <1>1 DEF Send, CallInv, RunsOnce, vars
  <2>3. QED
    BY <1>1, <2>1, <2>2, CallTypes DEF Send
<1>2. CASE Serve(c)
  <2> DEFINE outcome == IF Reaches(c) /\ kind[c] = "plain" THEN "ok" ELSE "refused"
  <2>1. /\ call[c] = "sent" /\ call' = [call EXCEPT ![c] = outcome]
        /\ held' = [held EXCEPT ![c] = None]
        /\ runs' = IF Reaches(c) THEN [runs EXCEPT ![c] = @ + 1] ELSE runs
        /\ UNCHANGED <<kind, again, given, lost>>
    BY <1>2 DEF Serve, Over, vars
  <2>2. /\ call' \in [Call -> {"idle", "sent", "refused", "waiting", "ok", "failed"}]
        /\ held' \in [Call -> Request \cup {None}]
    BY <2>1
  <2>3. runs[c] \in 0..1 /\ (c \notin again => runs[c] = 0)
    BY <2>1 DEF CallInv
  <2>4. runs' \in [Call -> 0..2]
    BY <2>1, <2>3
  <2>5. CallInv'
    BY <2>1, <2>3 DEF CallInv
  <2>6. RunsOnce'
    BY <2>1, <2>3 DEF CallInv, RunsOnce
  <2>7. QED
    BY <1>2, <2>1, <2>2, <2>4, <2>5, <2>6, CallTypes DEF Serve
<1>3. CASE LoseCall(c)
  <2>1. /\ call[c] = "sent" /\ call' = [call EXCEPT ![c] = "failed"]
        /\ held' = [held EXCEPT ![c] = None]
        /\ runs' = runs \/ runs' = [runs EXCEPT ![c] = @ + 1]
        /\ UNCHANGED <<kind, again, given>> /\ lost' \in 0..MaxLost
    BY <1>3 DEF LoseCall, Over, vars
  <2>2. /\ call' \in [Call -> {"idle", "sent", "refused", "waiting", "ok", "failed"}]
        /\ held' \in [Call -> Request \cup {None}]
    BY <2>1
  <2>3. runs[c] \in 0..1 /\ (c \notin again => runs[c] = 0)
    BY <2>1 DEF CallInv
  <2>4. runs' \in [Call -> 0..2]
    BY <2>1, <2>3
  <2>5. CallInv'
    BY <2>1, <2>3 DEF CallInv
  <2>6. RunsOnce'
    BY <2>1, <2>3 DEF CallInv, RunsOnce
  <2>7. QED
    BY <1>3, <2>1, <2>2, <2>4, <2>5, <2>6, CallTypes DEF LoseCall
<1>4. QED
  BY <1>1, <1>2, <1>3

-----------------------------------------------------------------------------
(* A request leaves, with the cookies there are.                           *)
LEMMA LeavesKeeps ==
  ASSUME BInv, NEW r \in Request, wire[r] = "unused", Leaves(r), UNCHANGED <<service, jar>>
  PROVE  /\ TypeOK' /\ FamilyInv' /\ WireInv' /\ CookieInv' /\ DescentInv'
         /\ wire' \in [Request -> {"unused", "sent", "served", "answered"}]
         /\ carried' \in [Request -> Cookies]
         /\ wire'[r] = "sent" /\ carried'[r] = jar /\ pc[r] = "idle"
         /\ \A q \in Request \ {r} : /\ Abroad(q)' = Abroad(q) /\ wire'[q] = wire[q]
                                     /\ carried'[q] = carried[q]
         /\ UNCHANGED <<family, pc, using, given>>
<1> USE BrowserAssumption, SessionsAssumption DEF BInv, BrowserTypeOK
<1>1. UNCHANGED <<rows, revoked, family, expires, accessEnd, denied, now, pc, using, access,
                  faults, given, closed, forked, crossed>>
  BY DEF vars
<1>2. TypeOK' /\ FamilyInv'
  BY <1>1 DEF TypeOK, FamilyInv
<1>3. /\ wire' = [wire EXCEPT ![r] = "sent"] /\ carried' = [carried EXCEPT ![r] = jar]
  BY DEF Leaves, Travels
<1>4. /\ wire' \in [Request -> {"unused", "sent", "served", "answered"}]
      /\ carried' \in [Request -> Cookies]
  BY <1>3
<1>5. /\ wire'[r] = "sent" /\ carried'[r] = jar
      /\ \A q \in Request \ {r} : /\ Abroad(q)' = Abroad(q) /\ wire'[q] = wire[q]
                                  /\ carried'[q] = carried[q]
  BY <1>3 DEF Abroad
<1>6. WireInv' /\ pc[r] = "idle"
  BY <1>1, <1>5 DEF WireInv
<1>7. CookieInv'
  <2>1. \A q \in Request : wire[q] = "answered" => wire'[q] = "answered"
    BY <1>5
  <2>2. Pair(jar)'
    BY <1>1, <2>1 DEF CookieInv, Pair, Cookies
  <2>3. \A q \in Request : Pair(carried[q])'
    BY <1>1, <1>5, <2>1, <2>2 DEF CookieInv, Pair, Cookies
  <2>4. QED
    BY <1>5, <2>2, <2>3 DEF CookieInv
<1>8. DescentInv'
  BY <1>1, <1>5 DEF DescentInv, TypeOK
<1>9. QED
  BY <1>1, <1>2, <1>4, <1>5, <1>6, <1>7, <1>8

LEMMA FamilyTypes ==
  ASSUME BInv
  PROVE  /\ FamilyOf(jar.refresh) \in Request \cup {None}
         /\ \A q \in Request : FamilyOf(carried[q].refresh) \in Request \cup {None}
<1>1. \A t \in Request \cup {None} : FamilyOf(t) \in Request \cup {None}
  BY DEF BInv, BrowserTypeOK, TypeOK, FamilyOf
<1>2. /\ jar.refresh \in Request \cup {None}
      /\ \A q \in Request : carried[q].refresh \in Request \cup {None}
  BY DEF BInv, BrowserTypeOK, Cookies
<1>3. QED
  BY <1>1, <1>2

LEMMA SendAuthKeeps ==
  ASSUME BInv, SendAuth
  PROVE  BInv'
<1> USE BrowserAssumption, SessionsAssumption
<1>1. PICK r \in Next1(Login) \cup Next1(Logout) :
         /\ Leaves(r)
         /\ parting' = IF r \in Logout
                       THEN parting \cup {FamilyOf(carried[q].refresh) :
                                            q \in {q \in Refresh : wire[q] \in {"sent", "served"}}}
                       ELSE parting
  BY DEF SendAuth
<1>2. /\ r \in Request /\ r \notin Refresh /\ wire[r] = "unused"
      /\ UNCHANGED <<service, jar, tabOf, kind, flight, call, held, again, runs, lost, excused>>
  BY DEF SendAuth, Next1
<1>3. /\ TypeOK' /\ FamilyInv' /\ WireInv' /\ CookieInv' /\ DescentInv'
      /\ wire' \in [Request -> {"unused", "sent", "served", "answered"}]
      /\ carried' \in [Request -> Cookies]
      /\ wire'[r] = "sent" /\ carried'[r] = jar /\ pc[r] = "idle"
      /\ \A q \in Request \ {r} : /\ Abroad(q)' = Abroad(q) /\ wire'[q] = wire[q]
                                  /\ carried'[q] = carried[q]
      /\ UNCHANGED <<family, pc, using, given>>
  BY <1>1, <1>2, LeavesKeeps
<1>4. parting \subseteq Request \cup {None} /\ Refresh \subseteq Request
  BY DEF BInv, BrowserTypeOK
<1>5. parting' \subseteq Request \cup {None}
  <2>1. CASE r \in Logout
    BY <1>1, <1>4, <2>1, FamilyTypes
  <2>2. CASE r \notin Logout
    BY <1>1, <1>4, <2>2
  <2>3. QED
    BY <2>1, <2>2
<1>6. BrowserTypeOK'
  BY <1>2, <1>3, <1>5 DEF BInv, BrowserTypeOK
<1>7. FlightInv' /\ AloneInv' /\ SpentInv'
  BY <1>2, <1>3 DEF BInv, FlightInv, AloneInv, SpentInv
<1>8. CallInv' /\ RunsOnce'
  BY <1>2, <1>3 DEF BInv, CallInv, RunsOnce
<1>9. PartingInv'
  <2>1. parting \subseteq parting'
    BY <1>1
  <2>2. ASSUME r \in Logout, NEW q \in Refresh, Abroad(q), carried[q].refresh # None
        PROVE  family[carried[q].refresh] \in parting'
    <3>1. FamilyOf(carried[q].refresh) = family[carried[q].refresh]
      BY <2>2 DEF FamilyOf
    <3>2. QED
      BY <1>1, <2>2, <3>1 DEF Abroad
  <2> SUFFICES ASSUME NEW x \in Logout, carried'[x].refresh # None,
                      family'[carried'[x].refresh] \notin parting',
                      Abroad(x)' \/ (wire'[x] = "answered" /\ pc'[x] = "loggedOut")
               PROVE  /\ \A q \in Refresh : Abroad(q)' /\ carried'[q].refresh # None
                            => family'[carried'[q].refresh] # family'[carried'[x].refresh]
                      /\ wire'[x] = "answered" /\ jar'.refresh # None
                            => family'[jar'.refresh] # family'[carried'[x].refresh]
    BY DEF PartingInv
  <2>3. CASE x = r
    BY <1>2, <1>3, <2>2, <2>3
  <2>4. CASE x # r
    BY <1>2, <1>3, <2>1, <2>4 DEF BInv, PartingInv
  <2>5. QED
    BY <2>3, <2>4
<1>10. QED
  BY <1>3, <1>6, <1>7, <1>8, <1>9 DEF BInv

LEMMA RefusedKeeps ==
  ASSUME BInv, NEW c \in Call, Refused(c)
  PROVE  BInv'
<1> USE BrowserAssumption, SessionsAssumption
<1>0. /\ call[c] = "refused"
      /\ UNCHANGED <<service, jar, tabOf, kind, held, again, runs, lost, given>>
  BY DEF Refused, vars
<1>1. CASE /\ call' = [call EXCEPT ![c] = "failed"]
           /\ UNCHANGED <<wire, carried, flight, excuses>>
  <2>1. CallInv' /\ RunsOnce'
    BY <1>0, <1>1 DEF BInv, BrowserTypeOK, CallInv, RunsOnce
  <2>2. QED
    BY <1>0, <1>1, <2>1, CallTypes DEF BInv, BrowserTypeOK
<1>2. CASE /\ c \notin again
           /\ call' = [call EXCEPT ![c] = "waiting"]
           /\ UNCHANGED <<wire, carried, flight, excuses>>
  <2>1. CallInv' /\ RunsOnce'
    BY <1>0, <1>2 DEF BInv, BrowserTypeOK, CallInv, RunsOnce
  <2>2. QED
    BY <1>0, <1>2, <2>1, CallTypes DEF BInv, BrowserTypeOK
<1>3. ASSUME c \notin again, ~Joins(tabOf[c]), NEW r \in Next1(Refresh), Leaves(r),
             flight' = [flight EXCEPT ![tabOf[c]] = r],
             call' = [call EXCEPT ![c] = "waiting"],
             excused' = IF \E t \in Tab \ {tabOf[c]}, q \in Underway(jar.refresh) : flight[t] = q
                        THEN excused \cup {FamilyOf(jar.refresh)} ELSE excused,
             parting' = parting \cup
               {FamilyOf(carried[q].refresh) :
                  q \in {q \in Logout : wire[q] \in {"sent", "served"}}}
      PROVE  BInv'
  <2>1. r \in Refresh /\ r \in Request /\ wire[r] = "unused"
    BY <1>3 DEF Next1
  <2>2. /\ TypeOK' /\ FamilyInv' /\ WireInv' /\ CookieInv' /\ DescentInv'
        /\ wire' \in [Request -> {"unused", "sent", "served", "answered"}]
        /\ carried' \in [Request -> Cookies]
        /\ wire'[r] = "sent" /\ carried'[r] = jar /\ pc[r] = "idle"
        /\ \A q \in Request \ {r} : /\ Abroad(q)' = Abroad(q) /\ wire'[q] = wire[q]
                                    /\ carried'[q] = carried[q]
        /\ UNCHANGED <<family, pc, using, given>>
    BY <1>0, <1>3, <2>1, LeavesKeeps
  <2>3. /\ parting \subseteq Request \cup {None} /\ excused \subseteq Request \cup {None}
        /\ Logout \subseteq Request
    BY DEF BInv, BrowserTypeOK
  <2>4. parting' \subseteq Request \cup {None} /\ excused' \subseteq Request \cup {None}
    BY <1>3, <2>3, FamilyTypes
  <2>5. /\ call' \in [Call -> {"idle", "sent", "refused", "waiting", "ok", "failed"}]
        /\ flight' \in [Tab -> Refresh \cup {None}] /\ tabOf[c] \in Tab
        /\ flight[tabOf[c]] = None
    BY <1>3, <2>1 DEF BInv, BrowserTypeOK, Joins
  <2>6. BrowserTypeOK'
    BY <1>0, <2>2, <2>4, <2>5 DEF BInv, BrowserTypeOK
  <2>7. FlightInv'
    <3>1. SUFFICES ASSUME NEW q \in Refresh, Abroad(q)' PROVE \E t \in Tab : flight'[t] = q
      BY DEF FlightInv
    <3>2. CASE q = r
      BY <1>3, <2>5, <3>2 DEF BInv, BrowserTypeOK
    <3>3. CASE q # r
      <4>1. PICK t \in Tab : flight[t] = q
        BY <2>2, <3>1, <3>3 DEF BInv, FlightInv
      <4>2. t # tabOf[c]
        BY <2>5, <4>1
      <4>3. QED
        BY <1>3, <4>1, <4>2 DEF BInv, BrowserTypeOK
    <3>4. QED
      BY <3>2, <3>3
  <2>8. CallInv' /\ RunsOnce'
    BY <1>0, <1>3 DEF BInv, BrowserTypeOK, CallInv, RunsOnce
  <2>9. AloneInv'
    <3>1. excused \subseteq excused'
      BY <1>3
    <3>2. ASSUME NEW q \in Refresh, q # r, Abroad(q), carried[q].refresh # None,
                 carried[q].refresh = jar.refresh
          PROVE  family[jar.refresh] \in excused'
      <4>1. PICK t \in Tab : flight[t] = q
        BY <3>2 DEF BInv, FlightInv
      <4>2. t # tabOf[c] /\ q \in Underway(jar.refresh)
        BY <2>5, <3>2, <4>1 DEF Underway, Abroad
      <4>3. FamilyOf(jar.refresh) = family[jar.refresh]
        BY <3>2 DEF FamilyOf
      <4>4. QED
        BY <1>3, <4>1, <4>2, <4>3
    <3>3. SUFFICES ASSUME NEW q \in Refresh, NEW x \in Refresh, q # x, Abroad(q)', Abroad(x)',
                          carried'[q].refresh # None,
                          carried'[q].refresh = carried'[x].refresh
                   PROVE  family'[carried'[q].refresh] \in excused'
      BY DEF AloneInv
    <3>4. CASE q = r
      BY <2>2, <3>2, <3>3, <3>4
    <3>5. CASE x = r
      BY <2>2, <3>2, <3>3, <3>5
    <3>6. CASE q # r /\ x # r
      BY <2>2, <3>1, <3>3, <3>6 DEF BInv, AloneInv
    <3>7. QED
      BY <3>4, <3>5, <3>6
  <2>10. SpentInv'
    <3>1. excused \subseteq excused'
      BY <1>3
    <3>2. SUFFICES ASSUME NEW q \in Refresh \cap given', wire'[q] = "answered",
                          family'[using'[q]] \notin excused'
                   PROVE  /\ jar'.refresh # using'[q]
                          /\ \A x \in Refresh : Abroad(x)' => carried'[x].refresh # using'[q]
      BY DEF SpentInv
    <3>3. /\ jar.refresh # using[q]
          /\ \A x \in Refresh : Abroad(x) => carried[x].refresh # using[q]
      BY <2>2, <3>1, <3>2 DEF BInv, SpentInv
    <3>4. QED
      BY <1>0, <2>2, <3>3
  <2>11. PartingInv'
    <3>1. parting \subseteq parting'
      BY <1>3
    <3>2. ASSUME NEW x \in Logout, Abroad(x), carried[x].refresh # None
          PROVE  family[carried[x].refresh] \in parting'
      <4>1. FamilyOf(carried[x].refresh) = family[carried[x].refresh]
        BY <3>2 DEF FamilyOf
      <4>2. QED
        BY <1>3, <3>2, <4>1 DEF Abroad
    <3> SUFFICES ASSUME NEW x \in Logout, carried'[x].refresh # None,
                        family'[carried'[x].refresh] \notin parting',
                        Abroad(x)' \/ (wire'[x] = "answered" /\ pc'[x] = "loggedOut")
                 PROVE  /\ \A q \in Refresh : Abroad(q)' /\ carried'[q].refresh # None
                              => family'[carried'[q].refresh] # family'[carried'[x].refresh]
                        /\ wire'[x] = "answered" /\ jar'.refresh # None
                              => family'[jar'.refresh] # family'[carried'[x].refresh]
      BY DEF PartingInv
    <3>3. x # r /\ ~Abroad(x) /\ wire[x] = "answered" /\ pc[x] = "loggedOut"
      BY <2>1, <2>2, <3>2
    <3>4. QED
      BY <1>0, <2>2, <3>1, <3>3 DEF BInv, PartingInv
  <2>12. QED
    BY <2>2, <2>6, <2>7, <2>8, <2>9, <2>10, <2>11 DEF BInv
<1>4. QED
  BY <1>1, <1>2, <1>3 DEF Refused

-----------------------------------------------------------------------------
(* An answer arrives, or is known never to: the calls that waited go on.   *)
LEMMA ResumeKeeps ==
  ASSUME BInv, NEW r \in Request, NEW ok \in BOOLEAN, NEW cookies \in Cookies,
         Resume(r, ok, cookies), ok => r \in given,
         UNCHANGED <<tabOf, kind, runs, given>>
  PROVE  /\ CallInv' /\ RunsOnce'
         /\ flight' \in [Tab -> Refresh \cup {None}]
         /\ call' \in [Call -> {"idle", "sent", "refused", "waiting", "ok", "failed"}]
         /\ held' \in [Call -> Request \cup {None}]
         /\ again' \subseteq Call
         /\ \A t \in Tab : flight[t] # r => flight'[t] = flight[t]
<1> USE BrowserAssumption, SessionsAssumption DEF BInv, BrowserTypeOK
<1>1. /\ call' = [c \in Call |-> IF c \notin Waiting(r) THEN call[c]
                                 ELSE IF ok THEN "sent" ELSE "failed"]
      /\ held' = [c \in Call |-> IF c \in Waiting(r) /\ ok THEN cookies.access ELSE held[c]]
      /\ again' = again \cup Waiting(r)
      /\ flight' = [t \in Tab |-> IF flight[t] = r THEN None ELSE flight[t]]
  BY DEF Resume
<1>2. \A c \in Waiting(r) : /\ c \in Call /\ call[c] = "waiting" /\ c \notin again
                            /\ runs[c] <= 1 /\ r \in Refresh
                            /\ kind[c] = "plain" => runs[c] = 0
  BY DEF Waiting, CallInv
<1>3. \A c \in Waiting(r) : ok => Refresh \cap given # {}
  BY <1>2
<1>4. CallInv'
  BY <1>1, <1>2, <1>3 DEF CallInv
<1>5. RunsOnce'
  BY <1>1 DEF RunsOnce
<1>6. flight' \in [Tab -> Refresh \cup {None}]
  BY <1>1
<1>7. call' \in [Call -> {"idle", "sent", "refused", "waiting", "ok", "failed"}]
  BY <1>1
<1>8. held' \in [Call -> Request \cup {None}]
  BY <1>1 DEF Cookies
<1>9. again' \subseteq Call
  BY <1>1, <1>2
<1>10. QED
  BY <1>1, <1>4, <1>5, <1>6, <1>7, <1>8, <1>9

LEMMA BackKeeps ==
  ASSUME BInv, NEW r \in Request, Abroad(r), Forget(r), UNCHANGED service,
         pc[r] \in {"idle", "done", "loggedOut", "aborted"},
         \/ jar' = jar \/ jar' = NoCookies
         \/ r \in given /\ jar' = [access |-> r, refresh |-> r]
  PROVE  /\ TypeOK' /\ FamilyInv' /\ WireInv' /\ CookieInv' /\ DescentInv'
         /\ wire' \in [Request -> {"unused", "sent", "served", "answered"}]
         /\ carried' \in [Request -> Cookies] /\ jar' \in Cookies
         /\ wire'[r] = "answered" /\ ~Abroad(r)'
         /\ \A q \in Request \ {r} : /\ Abroad(q)' = Abroad(q) /\ wire'[q] = wire[q]
                                     /\ carried'[q] = carried[q]
         /\ r \in Logout => carried' = carried
         /\ UNCHANGED <<family, pc, using, given>>
<1> USE BrowserAssumption, SessionsAssumption DEF BInv, BrowserTypeOK
<1>1. UNCHANGED <<rows, revoked, family, expires, accessEnd, denied, now, pc, using, access,
                  faults, given, closed, forked, crossed>>
  BY DEF vars
<1>2. TypeOK' /\ FamilyInv'
  BY <1>1 DEF TypeOK, FamilyInv
<1>3. /\ wire' = [wire EXCEPT ![r] = "answered"]
      /\ carried' = carried \/ carried' = [carried EXCEPT ![r] = NoCookies]
      /\ r \in Logout => carried' = carried
  BY DEF Forget, Travels
<1>4. NoCookies \in Cookies
  BY DEF NoCookies, Cookies
<1>5. jar' \in Cookies
  BY <1>4 DEF Cookies, TypeOK
<1>6. /\ wire' \in [Request -> {"unused", "sent", "served", "answered"}]
      /\ carried' \in [Request -> Cookies]
  BY <1>3, <1>4
<1>7. /\ wire'[r] = "answered" /\ ~Abroad(r)'
      /\ \A q \in Request \ {r} : /\ Abroad(q)' = Abroad(q) /\ wire'[q] = wire[q]
                                  /\ carried'[q] = carried[q]
  BY <1>3 DEF Abroad
<1>8. WireInv'
  BY <1>1, <1>7 DEF WireInv
<1>9. \A q \in Request : wire[q] = "answered" => wire'[q] = "answered"
  BY <1>7
<1>10. CookieInv'
  <2>1. \A x \in Cookies : Pair(x) => Pair(x)'
    BY <1>1, <1>9 DEF Pair, Cookies
  <2>2. Pair(NoCookies)'
    BY DEF Pair, NoCookies
  <2>3. r \in given /\ jar' = [access |-> r, refresh |-> r] => Pair(jar)'
    BY <1>1, <1>7 DEF Pair
  <2>4. Pair(jar)'
    <3>1. CASE jar' = jar
      BY <1>1, <1>9, <3>1 DEF CookieInv, Pair, Cookies
    <3>2. CASE jar' = NoCookies
      BY <3>2 DEF Pair, NoCookies
    <3>3. QED
      BY <2>3, <3>1, <3>2
  <2>5. \A q \in Request : Pair(carried[q])'
    <3>1. SUFFICES ASSUME NEW q \in Request PROVE Pair(carried[q])'
      OBVIOUS
    <3>2. carried'[q] = carried[q] \/ carried'[q] = NoCookies
      BY <1>3
    <3>3. CASE carried'[q] = carried[q]
      BY <1>1, <1>9, <3>3 DEF CookieInv, Pair, Cookies
    <3>4. CASE carried'[q] = NoCookies
      BY <3>4 DEF Pair, NoCookies
    <3>5. QED
      BY <3>2, <3>3, <3>4
  <2>6. QED
    BY <1>7, <2>4, <2>5 DEF CookieInv
<1>11. DescentInv'
  BY <1>1, <1>9 DEF DescentInv, TypeOK
<1>12. QED
  BY <1>1, <1>2, <1>3, <1>5, <1>6, <1>7, <1>8, <1>10, <1>11

(* What is not back yet is less, and carries what it did.                  *)
LEMMA BackApart ==
  ASSUME BInv, NEW r \in Request, ~Abroad(r)',
         \A q \in Request \ {r} : Abroad(q)' = Abroad(q) /\ carried'[q] = carried[q],
         \A t \in Tab : flight[t] # r => flight'[t] = flight[t],
         excused \subseteq excused', family' = family
  PROVE  FlightInv' /\ AloneInv'
<1> USE BrowserAssumption
<1>1. FlightInv'
  <2>1. SUFFICES ASSUME NEW q \in Refresh, Abroad(q)' PROVE \E t \in Tab : flight'[t] = q
    BY DEF FlightInv
  <2>2. q # r /\ Abroad(q)
    BY <2>1
  <2>3. PICK t \in Tab : flight[t] = q
    BY <2>2 DEF BInv, FlightInv
  <2>4. QED
    BY <2>2, <2>3
<1>2. AloneInv'
  BY DEF BInv, AloneInv
<1>3. QED
  BY <1>1, <1>2

LEMMA AnsweredEnds ==
  ASSUME BInv, NEW r \in Request, Answered(r)
  PROVE  Abroad(r) /\ pc[r] \in {"idle", "done", "loggedOut", "aborted"}
<1> USE BrowserAssumption, SessionsAssumption DEF BInv, BrowserTypeOK, TypeOK
<1>1. CASE r \in Refresh /\ carried[r].refresh = None
  <2>1. using[r] = None /\ None \notin given
    BY <1>1 DEF Answered, WireInv
  <2>2. pc[r] \notin {"breach", "issue", "retire"}
    BY <2>1 DEF FamilyInv
  <2>3. QED
    BY <1>1, <2>2 DEF Answered, Abroad, WireInv
<1>2. QED
  BY <1>1 DEF Answered, Abroad

LEMMA DeliverKeeps ==
  ASSUME BInv, NEW r \in Request, Deliver(r)
  PROVE  BInv'
<1> USE BrowserAssumption, SessionsAssumption
<1>1. /\ Answered(r) /\ Forget(r) /\ jar' = Cookie(r) /\ Resume(r, r \in given, Cookie(r))
      /\ UNCHANGED <<service, tabOf, kind, runs, lost, excused, parting>>
  BY DEF Deliver
<1>2. /\ wire[r] = "served" /\ Abroad(r)
      /\ pc[r] \in {"idle", "done", "loggedOut", "aborted"}
  BY <1>1, AnsweredEnds DEF Answered
<1>3. /\ r \notin given => jar' = jar \/ jar' = NoCookies
      /\ r \in given => jar' = [access |-> r, refresh |-> r]
      /\ pc[r] = "loggedOut" => jar' = NoCookies
  BY <1>1, Held DEF Cookie, BInv
<1>4. /\ TypeOK' /\ FamilyInv' /\ WireInv' /\ CookieInv' /\ DescentInv'
      /\ wire' \in [Request -> {"unused", "sent", "served", "answered"}]
      /\ carried' \in [Request -> Cookies] /\ jar' \in Cookies
      /\ wire'[r] = "answered" /\ ~Abroad(r)'
      /\ \A q \in Request \ {r} : /\ Abroad(q)' = Abroad(q) /\ wire'[q] = wire[q]
                                  /\ carried'[q] = carried[q]
      /\ r \in Logout => carried' = carried
      /\ UNCHANGED <<family, pc, using, given>>
  BY <1>1, <1>2, <1>3, BackKeeps
<1>5. /\ CallInv' /\ RunsOnce'
      /\ flight' \in [Tab -> Refresh \cup {None}]
      /\ call' \in [Call -> {"idle", "sent", "refused", "waiting", "ok", "failed"}]
      /\ held' \in [Call -> Request \cup {None}]
      /\ again' \subseteq Call
      /\ \A t \in Tab : flight[t] # r => flight'[t] = flight[t]
  <2>1. (r \in given) \in BOOLEAN /\ Cookie(r) \in Cookies
    BY <1>1, <1>4
  <2>2. QED
    BY <1>1, <1>4, <2>1, ResumeKeeps
<1>6. BrowserTypeOK'
  BY <1>1, <1>4, <1>5 DEF BInv, BrowserTypeOK
<1>7. FlightInv' /\ AloneInv'
  BY <1>1, <1>4, <1>5, BackApart
<1>8. SpentInv'
  <2>1. SUFFICES ASSUME NEW q \in Refresh \cap given, wire'[q] = "answered",
                        family[using[q]] \notin excused
                 PROVE  /\ jar'.refresh # using[q]
                        /\ \A x \in Refresh : Abroad(x)' => carried'[x].refresh # using[q]
    BY <1>1, <1>4 DEF SpentInv
  <2>2. using[q] # None /\ wire[using[q]] = "answered"
    BY Held
  <2>3. using[q] # r
    BY <1>2, <2>2
  <2>4. CASE q = r
    <3>1. using[r] = carried[r].refresh
      BY <1>2, <2>1, <2>4 DEF BInv, WireInv
    <3>2. jar'.refresh = r
      BY <1>3, <2>1, <2>4
    <3>3. \A x \in Refresh : x # r /\ Abroad(x) => carried[x].refresh # using[r]
      BY <1>2, <2>1, <2>2, <2>4, <3>1 DEF BInv, AloneInv
    <3>4. QED
      BY <1>4, <2>3, <2>4, <3>2, <3>3
  <2>5. CASE q # r
    <3>1. /\ jar.refresh # using[q]
          /\ \A x \in Refresh : Abroad(x) => carried[x].refresh # using[q]
      BY <1>4, <2>1, <2>5 DEF BInv, SpentInv
    <3>2. jar'.refresh # using[q]
      BY <1>3, <2>2, <2>3, <3>1 DEF NoCookies
    <3>3. QED
      BY <1>4, <3>1, <3>2
  <2>6. QED
    BY <2>4, <2>5
<1>9. PartingInv'
  <2> SUFFICES ASSUME NEW x \in Logout, carried'[x].refresh # None,
                      family[carried'[x].refresh] \notin parting,
                      Abroad(x)' \/ (wire'[x] = "answered" /\ pc[x] = "loggedOut")
               PROVE  /\ \A q \in Refresh : Abroad(q)' /\ carried'[q].refresh # None
                            => family[carried'[q].refresh] # family[carried'[x].refresh]
                      /\ wire'[x] = "answered" /\ jar'.refresh # None
                            => family[jar'.refresh] # family[carried'[x].refresh]
    BY <1>1, <1>4 DEF PartingInv
  <2>1. carried'[x] = carried[x] /\ x \in Request
    BY <1>4
  <2>2. Abroad(x) \/ (wire[x] = "answered" /\ pc[x] = "loggedOut")
    BY <1>2, <1>4
  <2>3. \A q \in Refresh : Abroad(q) /\ carried[q].refresh # None
                             => family[carried[q].refresh] # family[carried[x].refresh]
    BY <2>1, <2>2 DEF BInv, PartingInv
  <2>4. \A q \in Refresh : Abroad(q)' /\ carried'[q].refresh # None
                             => family[carried'[q].refresh] # family[carried'[x].refresh]
    BY <1>4, <2>1, <2>3
  <2>5. ASSUME wire'[x] = "answered", jar'.refresh # None
        PROVE  family[jar'.refresh] # family[carried[x].refresh]
    <3>1. CASE x = r
      BY <1>2, <1>3, <1>4, <2>5, <3>1 DEF NoCookies
    <3>2. CASE x # r /\ jar' = jar
      BY <1>4, <2>1, <2>2, <2>5, <3>2 DEF BInv, PartingInv
    <3>3. CASE x # r /\ r \in given
      <4> DEFINE t == carried[x].refresh
      <4>1. t \in given /\ t \in Request /\ family[t] # None /\ wire[t] = "answered"
        BY <2>1, Held DEF BInv, BrowserTypeOK, TypeOK, CookieInv, Pair
      <4>2. jar'.refresh = r
        BY <1>3, <3>3
      <4>3. CASE r \in Login
        <5>1. family[r] = r
          BY <3>3, <4>3, Held DEF BInv, DescentInv
        <5>2. wire[family[t]] = "answered"
          <6>1. family[t] = t \/ wire[family[t]] = "answered"
            BY <4>1 DEF BInv, DescentInv
          <6>2. QED
            BY <4>1, <6>1
        <5>3. QED
          BY <1>2, <4>2, <5>1, <5>2
      <4>4. CASE r \in Refresh
        <5>1. using[r] # None /\ family[using[r]] = family[r] /\ using[r] = carried[r].refresh
          BY <1>2, <3>3, <4>4, Held DEF BInv, WireInv
        <5>2. QED
          BY <1>2, <2>3, <4>2, <4>4, <5>1
      <4>5. QED
        BY <3>3, <4>3, <4>4, Held
    <3>4. QED
      BY <1>3, <2>5, <3>1, <3>2, <3>3 DEF NoCookies
  <2>6. QED
    BY <2>1, <2>4, <2>5
<1>10. QED
  BY <1>4, <1>5, <1>6, <1>7, <1>8, <1>9 DEF BInv

LEMMA LoseKeeps ==
  ASSUME BInv, NEW r \in Request, Lose(r)
  PROVE  BInv'
<1> USE BrowserAssumption, SessionsAssumption
<1>1. /\ \/ wire[r] = "sent" /\ excused' = excused
         \/ Answered(r) /\ excused' = IF r \in given THEN excused \cup {family[r]} ELSE excused
      /\ Forget(r) /\ Resume(r, FALSE, jar)
      /\ parting' = IF r \in Logout THEN parting \cup {FamilyOf(carried[r].refresh)} ELSE parting
      /\ UNCHANGED <<service, jar, tabOf, kind, runs>>
      /\ lost < MaxLost /\ lost' = lost + 1
  BY DEF Lose
<1>2. Abroad(r) /\ pc[r] \in {"idle", "done", "loggedOut", "aborted"}
  BY <1>1, AnsweredEnds DEF Abroad, BInv, WireInv
<1>3. r \in given => excused' = excused \cup {family[r]}
  BY <1>1, Held DEF BInv, WireInv
<1>4. /\ TypeOK' /\ FamilyInv' /\ WireInv' /\ CookieInv' /\ DescentInv'
      /\ wire' \in [Request -> {"unused", "sent", "served", "answered"}]
      /\ carried' \in [Request -> Cookies] /\ jar' \in Cookies
      /\ wire'[r] = "answered" /\ ~Abroad(r)'
      /\ \A q \in Request \ {r} : /\ Abroad(q)' = Abroad(q) /\ wire'[q] = wire[q]
                                  /\ carried'[q] = carried[q]
      /\ r \in Logout => carried' = carried
      /\ UNCHANGED <<family, pc, using, given>>
  BY <1>1, <1>2, BackKeeps
<1>5. /\ CallInv' /\ RunsOnce'
      /\ flight' \in [Tab -> Refresh \cup {None}]
      /\ call' \in [Call -> {"idle", "sent", "refused", "waiting", "ok", "failed"}]
      /\ held' \in [Call -> Request \cup {None}]
      /\ again' \subseteq Call
      /\ \A t \in Tab : flight[t] # r => flight'[t] = flight[t]
  BY <1>1, <1>4, ResumeKeeps
<1>6. excused \subseteq excused' /\ parting \subseteq parting'
  BY <1>1
<1>7. BrowserTypeOK'
  <2>1. lost' \in 0..MaxLost
    BY <1>1 DEF BInv, BrowserTypeOK
  <2>2. excused' \subseteq Request \cup {None} /\ parting' \subseteq Request \cup {None}
    <3>1. /\ excused \subseteq Request \cup {None} /\ parting \subseteq Request \cup {None}
          /\ family[r] \in Request \cup {None}
          /\ FamilyOf(carried[r].refresh) \in Request \cup {None}
      BY FamilyTypes DEF BInv, BrowserTypeOK, TypeOK
    <3>2. excused' = excused \/ excused' = excused \cup {family[r]}
      BY <1>1
    <3>3. parting' = parting \/ parting' = parting \cup {FamilyOf(carried[r].refresh)}
      BY <1>1
    <3>4. QED
      BY <3>1, <3>2, <3>3
  <2>3. QED
    BY <1>1, <1>4, <1>5, <2>1, <2>2 DEF BInv, BrowserTypeOK
<1>8. FlightInv' /\ AloneInv'
  BY <1>4, <1>5, <1>6, BackApart
<1>9. SpentInv'
  <2>1. SUFFICES ASSUME NEW q \in Refresh \cap given, wire'[q] = "answered",
                        family[using[q]] \notin excused'
                 PROVE  /\ jar.refresh # using[q]
                        /\ \A x \in Refresh : Abroad(x)' => carried'[x].refresh # using[q]
    BY <1>1, <1>4 DEF SpentInv
  <2>2. q # r
    BY <1>3, <2>1, Held
  <2>3. /\ jar.refresh # using[q]
        /\ \A x \in Refresh : Abroad(x) => carried[x].refresh # using[q]
    BY <1>4, <1>6, <2>1, <2>2 DEF BInv, SpentInv
  <2>4. QED
    BY <1>4, <2>3
<1>10. PartingInv'
  <2> SUFFICES ASSUME NEW x \in Logout, carried'[x].refresh # None,
                      family[carried'[x].refresh] \notin parting',
                      Abroad(x)' \/ (wire'[x] = "answered" /\ pc[x] = "loggedOut")
               PROVE  /\ \A q \in Refresh : Abroad(q)' /\ carried'[q].refresh # None
                            => family[carried'[q].refresh] # family[carried'[x].refresh]
                      /\ wire'[x] = "answered" /\ jar.refresh # None
                            => family[jar.refresh] # family[carried'[x].refresh]
    BY <1>1, <1>4 DEF PartingInv
  <2>1. carried'[x] = carried[x] /\ x \in Request
    BY <1>4
  <2>2. x # r
    BY <1>1, <2>1 DEF FamilyOf
  <2>3. QED
    BY <1>4, <1>6, <2>1, <2>2 DEF BInv, PartingInv
<1>11. QED
  BY <1>4, <1>5, <1>7, <1>8, <1>9, <1>10 DEF BInv

-----------------------------------------------------------------------------
LEMMA BStep == BInv /\ [BrowserNext]_all => BInv'
<1> SUFFICES ASSUME BInv, [BrowserNext]_all PROVE BInv'
  OBVIOUS
<1>1. TypeOK' /\ FamilyInv'
  BY Composes, TypeStep, FamilyStep DEF BInv, BrowserTypeOK
<1>2. ASSUME NEW r \in Request, Arrive(r) \/ Serves(r) PROVE BInv'
  BY <1>1, <1>2, ArriveMoves, ServesMoves, MovesKeeps
<1>3. CASE UNCHANGED all
  <2>1. /\ UNCHANGED <<service, jar, wire, carried, tabOf, kind, flight, call, held, again, runs,
                       lost, excused, parting>>
    BY <1>3 DEF all
  <2>2. CallInv' /\ RunsOnce'
    BY <2>1 DEF vars, BInv, CallInv, RunsOnce
  <2>3. QED
    BY <2>1, <2>2, CallTypes DEF BInv, BrowserTypeOK
<1>4. CASE BrowserNext
  <2>1. CASE \E c \in Call : Send(c) \/ Serve(c) \/ Refused(c) \/ LoseCall(c)
    BY <2>1, CallKeeps, RefusedKeeps
  <2>2. CASE \E r \in Request : Arrive(r) \/ Serves(r) \/ Deliver(r) \/ Lose(r)
    BY <1>2, <2>2, DeliverKeeps, LoseKeeps
  <2>3. QED
    BY <1>1, <1>4, <2>1, <2>2, SendAuthKeeps, BackgroundKeeps DEF BrowserNext
<1>5. QED
  BY <1>3, <1>4

LEMMA BInvariant == BrowserSpec => []BInv
BY BInit, BStep, Starts, PTL

(* The cookies, the journeys and the calls have their types (api.ts).      *)
THEOREM BrowserTypes == BrowserSpec => []BrowserTypeOK
<1>1. BInv => BrowserTypeOK
  BY DEF BInv
<1>2. QED
  BY <1>1, BInvariant, PTL

(* However many calls share a refresh, and whatever is lost, a handler     *)
(* that does its work does it once (request() in api.ts).                  *)
THEOREM HandlersRunOnce == BrowserSpec => []RunsOnce
<1>1. BInv => RunsOnce
  BY DEF BInv
<1>2. QED
  BY <1>1, BInvariant, PTL

(* The detection of replays cuts no family off for what a client that      *)
(* behaves does, but for a lost answer or two tabs at once: by AloneInv    *)
(* and SpentInv, nobody else presents the token (rotate, tryRefresh).      *)
THEOREM NoFalseAlarms == BrowserSpec => []NoFalseAlarm
<1>1. BInv => NoFalseAlarm
  <2> SUFFICES ASSUME BInv, NEW r \in Request, pc[r] = "breach", NEW q \in given,
                      using[q] = using[r]
               PROVE  family[using[r]] \in excused
    BY DEF NoFalseAlarm, Exchanged
  <2> USE BrowserAssumption DEF BInv
  <2>1. /\ r \in Refresh /\ wire[r] = "served" /\ using[r] = carried[r].refresh
        /\ Abroad(r)
    BY DEF WireInv, BrowserTypeOK, Abroad
  <2>2. using[r] \in given /\ using[r] # None
    <3>1. using[r] \in given
      BY DEF FamilyInv
    <3>2. None \notin given
      BY SessionsAssumption DEF BrowserTypeOK, TypeOK
    <3>3. QED
      BY <3>1, <3>2
  <2>3. q \in Request /\ pc[q] = "done" /\ q # r
    BY Held DEF BrowserTypeOK, TypeOK
  <2>4. q \in Refresh
    BY <2>2, <2>3, Held DEF WireInv
  <2>5. CASE wire[q] = "answered"
    BY <2>1, <2>4, <2>5 DEF SpentInv
  <2>6. CASE wire[q] = "served"
    <3>1. using[q] = carried[q].refresh /\ Abroad(q)
      BY <2>3, <2>4, <2>6 DEF WireInv, Abroad
    <3>2. QED
      BY <2>1, <2>2, <2>3, <2>4, <3>1 DEF AloneInv
  <2>7. QED
    BY <2>3, <2>5, <2>6 DEF WireInv, BrowserTypeOK
<1>2. QED
  BY <1>1, BInvariant, PTL

(* After a logout the browser keeps no cookie of the session it closed,    *)
(* unless a refresh crossed it (logout, clearSessionCookies).              *)
THEOREM LogoutEmpties == BrowserSpec => []LogoutEmptiesJar
<1>1. BInv => LogoutEmptiesJar
  <2> SUFFICES ASSUME BInv, NEW r \in Logout, wire[r] = "answered", pc[r] = "loggedOut",
                      carried[r].refresh # None,
                      family[carried[r].refresh] \notin parting,
                      NEW t \in {jar.access, jar.refresh} \ {None}
               PROVE  family[t] # family[carried[r].refresh]
    BY DEF LogoutEmptiesJar
  <2>1. t = jar.refresh
    BY DEF BInv, CookieInv, Pair
  <2>2. QED
    BY <2>1 DEF BInv, PartingInv
<1>2. QED
  BY <1>1, BInvariant, PTL
=============================================================================
