-------------------------- MODULE Accounts_proofs ---------------------------
(***************************************************************************)
(* Proofs about Accounts, for any number of requests, tries, failures and  *)
(* any lifetimes of the links and codes.                                   *)
(***************************************************************************)
EXTENDS Accounts, FiniteSetTheorems, TLAPS

(* Where a request stands says what it has written: its row, its session,  *)
(* and whether it has taken up a secret.                                   *)
PlaceInv ==
    \A r \in Request :
        /\ r \in links => pc[r] \in {"mailLink", "done", "aborted"}
        /\ r \in codes => pc[r] \in {"mailCode", "done", "aborted"}
        /\ r \in sessions => pc[r] = "done"
        /\ pc[r] = "mailLink" => r \in links
        /\ pc[r] = "mailCode" => r \in codes
        /\ pc[r] = "idle" => using[r] = None

Active == {r \in Request : pc[r] # "idle"}

(* At any moment finitely many requests have come.                         *)
FiniteInv == IsFiniteSet(Active)

LEMMA Start == Init => TypeOK /\ PlaceInv /\ FiniteInv
<1>1. Init => TypeOK
  <2> SUFFICES ASSUME Init PROVE TypeOK
    OBVIOUS
  <2>1. account \in BOOLEAN /\ verified \in BOOLEAN /\ mfa \in BOOLEAN
    BY DEF Init
  <2>2. QED
    BY <2>1, AccountsAssumption DEF Init, TypeOK, Label
<1>2. Init => PlaceInv
  BY DEF Init, PlaceInv
<1>3. Init => Active = {}
  BY DEF Init, Active
<1>4. QED
  BY <1>1, <1>2, <1>3, FS_EmptySet DEF FiniteInv

LEMMA Finite ==
  ASSUME FiniteInv, NEW S, S \subseteq Active
  PROVE  IsFiniteSet(S) /\ Cardinality(S) \in Nat
BY FS_Subset, FS_CardinalityType DEF FiniteInv

LEMMA Peaks ==
  ASSUME FiniteInv, NEW m \in Nat, NEW S, S \subseteq Active
  PROVE  /\ Larger(m, Cardinality(S) + 1) \in Nat
         /\ m <= Larger(m, Cardinality(S) + 1)
         /\ Cardinality(S) + 1 <= Larger(m, Cardinality(S) + 1)
<1>1. Cardinality(S) \in Nat
  BY Finite
<1>2. QED
  BY <1>1 DEF Larger

(* A row is created by a request that has created none, and presented only *)
(* once it is in its table.                                                *)
LEMMA TypeStep == TypeOK /\ PlaceInv /\ FiniteInv /\ [Next]_vars => TypeOK'
<1> SUFFICES ASSUME TypeOK, PlaceInv, FiniteInv, [Next]_vars PROVE TypeOK'
  OBVIOUS
<1> USE AccountsAssumption DEF TypeOK, PlaceInv, Label, Goto, user, link, code, given, hist
<1>1. ASSUME NEW r \in Request, RegisterCheck(r) PROVE TypeOK'
  BY <1>1 DEF RegisterCheck
<1>2. ASSUME NEW r \in Request, RegisterInsert(r) PROVE TypeOK'
  BY <1>2 DEF RegisterInsert
<1>3. ASSUME NEW r \in Request, ResendRead(r) PROVE TypeOK'
  BY <1>3 DEF ResendRead
<1>4. ASSUME NEW r \in Request, CloseLinks(r) PROVE TypeOK'
  <2>1. linkPeak' \in Nat
    <3>1. At("createLink") \subseteq Active
      BY DEF At, Active
    <3>2. QED
      BY <1>4, <3>1, Peaks DEF CloseLinks
  <2>2. QED
    BY <1>4, <2>1 DEF CloseLinks
<1>5. ASSUME NEW r \in Request, CreateLink(r) PROVE TypeOK'
  BY <1>5 DEF CreateLink
<1>6. ASSUME NEW r \in Request, MailLink(r) PROVE TypeOK'
  BY <1>6 DEF MailLink
<1>7. ASSUME NEW r \in Request, ReadLink(r) PROVE TypeOK'
  BY <1>7 DEF ReadLink
<1>8. ASSUME NEW r \in Request, Confirm(r) PROVE TypeOK'
  BY <1>8 DEF Confirm
<1>9. ASSUME NEW r \in Request, LoginRead(r) PROVE TypeOK'
  BY <1>9 DEF LoginRead
<1>10. ASSUME NEW r \in Request, CloseCodes(r) PROVE TypeOK'
  <2>1. codePeak' \in Nat
    <3>1. At("createCode") \subseteq Active
      BY DEF At, Active
    <3>2. QED
      BY <1>10, <3>1, Peaks DEF CloseCodes
  <2>2. QED
    BY <1>10, <2>1 DEF CloseCodes
<1>11. ASSUME NEW r \in Request, CreateCode(r) PROVE TypeOK'
  BY <1>11 DEF CreateCode
<1>12. ASSUME NEW r \in Request, MailCode(r) PROVE TypeOK'
  BY <1>12 DEF MailCode
<1>13. ASSUME NEW r \in Request, OpenSession(r) PROVE TypeOK'
  BY <1>13 DEF OpenSession
<1>14. ASSUME NEW r \in Request, ReadCode(r) PROVE TypeOK'
  <2>1. PICK c \in (known \cap codes) \ codesUsed : Present(r, c)
    BY <1>14 DEF ReadCode
  <2>2. Checking(c) \subseteq Active
    BY DEF Checking, Active
  <2>3. Larger(peak[c], Cardinality(Checking(c)) + 1) \in Nat
    BY <2>1, <2>2, Peaks
  <2>4. peak' \in [Request -> Nat]
    BY <2>1, <2>3 DEF Present
  <2>5. using' = [using EXCEPT ![r] = c]
    BY <2>1 DEF Present
  <2>6. QED
    BY <1>14, <2>1, <2>4, <2>5 DEF ReadCode
<1>15. ASSUME NEW r \in Request, CountTry(r) PROVE TypeOK'
  BY <1>15 DEF CountTry
<1>16. ASSUME NEW r \in Request, Abandon(r) PROVE TypeOK'
  BY <1>16 DEF Abandon
<1>17. ASSUME NEW r \in Request, UseCode(r) PROVE TypeOK'
  BY <1>17 DEF UseCode
<1>18. ASSUME NEW r \in Request, Fault(r) PROVE TypeOK'
  BY <1>18 DEF Fault
<1>19. CASE ChangeMfa
  BY <1>19 DEF ChangeMfa
<1>20. CASE Tick
  BY <1>20 DEF Tick
<1>21. CASE UNCHANGED vars
  BY <1>21 DEF vars
<1>22. QED
  BY <1>1, <1>2, <1>3, <1>4, <1>5, <1>6, <1>7, <1>8, <1>9, <1>10, <1>11,
     <1>12, <1>13, <1>14, <1>15, <1>16, <1>17, <1>18, <1>19, <1>20, <1>21 DEF Next

LEMMA PlaceStep == TypeOK /\ PlaceInv /\ [Next]_vars => PlaceInv'
<1> SUFFICES ASSUME TypeOK, PlaceInv, [Next]_vars PROVE PlaceInv'
  OBVIOUS
<1> USE AccountsAssumption DEF TypeOK, PlaceInv, Goto, user, link, code, given, hist
<1>1. ASSUME NEW r \in Request, RegisterCheck(r) PROVE PlaceInv'
  BY <1>1 DEF RegisterCheck
<1>2. ASSUME NEW r \in Request, RegisterInsert(r) PROVE PlaceInv'
  BY <1>2 DEF RegisterInsert
<1>3. ASSUME NEW r \in Request, ResendRead(r) PROVE PlaceInv'
  BY <1>3 DEF ResendRead
<1>4. ASSUME NEW r \in Request, CloseLinks(r) PROVE PlaceInv'
  BY <1>4 DEF CloseLinks
<1>5. ASSUME NEW r \in Request, CreateLink(r) PROVE PlaceInv'
  BY <1>5 DEF CreateLink
<1>6. ASSUME NEW r \in Request, MailLink(r) PROVE PlaceInv'
  BY <1>6 DEF MailLink
<1>7. ASSUME NEW r \in Request, ReadLink(r) PROVE PlaceInv'
  BY <1>7 DEF ReadLink
<1>8. ASSUME NEW r \in Request, Confirm(r) PROVE PlaceInv'
  BY <1>8 DEF Confirm
<1>9. ASSUME NEW r \in Request, LoginRead(r) PROVE PlaceInv'
  BY <1>9 DEF LoginRead
<1>10. ASSUME NEW r \in Request, CloseCodes(r) PROVE PlaceInv'
  BY <1>10 DEF CloseCodes
<1>11. ASSUME NEW r \in Request, CreateCode(r) PROVE PlaceInv'
  BY <1>11 DEF CreateCode
<1>12. ASSUME NEW r \in Request, MailCode(r) PROVE PlaceInv'
  BY <1>12 DEF MailCode
<1>13. ASSUME NEW r \in Request, OpenSession(r) PROVE PlaceInv'
  BY <1>13 DEF OpenSession
<1>14. ASSUME NEW r \in Request, ReadCode(r) PROVE PlaceInv'
  BY <1>14 DEF ReadCode, Present
<1>15. ASSUME NEW r \in Request, CountTry(r) PROVE PlaceInv'
  BY <1>15 DEF CountTry
<1>16. ASSUME NEW r \in Request, Abandon(r) PROVE PlaceInv'
  BY <1>16 DEF Abandon
<1>17. ASSUME NEW r \in Request, UseCode(r) PROVE PlaceInv'
  BY <1>17 DEF UseCode
<1>18. ASSUME NEW r \in Request, Fault(r) PROVE PlaceInv'
  BY <1>18 DEF Fault
<1>19. CASE ChangeMfa
  BY <1>19 DEF ChangeMfa
<1>20. CASE Tick
  BY <1>20 DEF Tick
<1>21. CASE UNCHANGED vars
  BY <1>21 DEF vars
<1>22. QED
  BY <1>1, <1>2, <1>3, <1>4, <1>5, <1>6, <1>7, <1>8, <1>9, <1>10, <1>11,
     <1>12, <1>13, <1>14, <1>15, <1>16, <1>17, <1>18, <1>19, <1>20, <1>21 DEF Next

(* A step moves one request at most.                                       *)
LEMMA FiniteStep == TypeOK /\ FiniteInv /\ [Next]_vars => FiniteInv'
<1> SUFFICES ASSUME TypeOK, FiniteInv, [Next]_vars PROVE FiniteInv'
  OBVIOUS
<1>0. (\E r \in Request : Active' \subseteq Active \cup {r}) \/ Active' = Active
  <2>1. (\E r \in Request : \E l \in Label : Goto(r, l)) \/ pc' = pc
    BY DEF Next, vars, Label, RegisterCheck, RegisterInsert, ResendRead, CloseLinks, CreateLink,
       MailLink, ReadLink, Confirm, LoginRead, CloseCodes, CreateCode,
       MailCode, OpenSession, ReadCode, CountTry, Abandon, UseCode, Fault,
       ChangeMfa, Tick
  <2>2. QED
    BY <2>1 DEF Goto, Active, TypeOK
<1>1. ASSUME NEW r \in Request, Active' \subseteq Active \cup {r} PROVE FiniteInv'
  BY <1>1, FS_AddElement, FS_Subset DEF FiniteInv
<1>2. QED
  BY <1>0, <1>1 DEF FiniteInv

LEMMA Known == Spec => [](TypeOK /\ PlaceInv /\ FiniteInv)
BY Start, TypeStep, PlaceStep, FiniteStep, PTL DEF Spec

(* The tables keep their keys, links and codes never mix, and what a       *)
(* request presents is in its table, whatever interleaves.                 *)
THEOREM TypeCorrect == Spec => []TypeOK
BY Known, PTL

-----------------------------------------------------------------------------
(* Tries: an attempt not yet counted is one of those whose overlap was     *)
(* measured when it was read.                                              *)

Counting(c) == {r \in Request : using[r] = c /\ pc[r] = "count"}

TriesInv == \A c \in Request : tries[c] + Cardinality(Counting(c)) < MaxTries + peak[c]

(* Only reading a code adds to those that count it, only counting to its   *)
(* tries.                                                                  *)
LEMMA CountingOnly ==
  ASSUME TypeOK, PlaceInv, [Next]_vars, NEW c \in Request,
         ~ \E r \in Request : ReadCode(r) \/ CountTry(r)
  PROVE  Counting(c)' \subseteq Counting(c) /\ tries'[c] = tries[c] /\ peak'[c] = peak[c]
<1> DEFINE Fewer == /\ Counting(c)' \subseteq Counting(c)
                    /\ tries'[c] = tries[c] /\ peak'[c] = peak[c]
<1> USE DEF TypeOK, PlaceInv, Counting, Goto, user, link, code, given, hist
<1>1. ASSUME NEW r \in Request, RegisterCheck(r) PROVE Fewer
  BY <1>1 DEF RegisterCheck
<1>2. ASSUME NEW r \in Request, RegisterInsert(r) PROVE Fewer
  BY <1>2 DEF RegisterInsert
<1>3. ASSUME NEW r \in Request, ResendRead(r) PROVE Fewer
  BY <1>3 DEF ResendRead
<1>4. ASSUME NEW r \in Request, CloseLinks(r) PROVE Fewer
  BY <1>4 DEF CloseLinks
<1>5. ASSUME NEW r \in Request, CreateLink(r) PROVE Fewer
  BY <1>5 DEF CreateLink
<1>6. ASSUME NEW r \in Request, MailLink(r) PROVE Fewer
  BY <1>6 DEF MailLink
<1>7. ASSUME NEW r \in Request, ReadLink(r) PROVE Fewer
  BY <1>7 DEF ReadLink
<1>8. ASSUME NEW r \in Request, Confirm(r) PROVE Fewer
  BY <1>8 DEF Confirm
<1>9. ASSUME NEW r \in Request, LoginRead(r) PROVE Fewer
  BY <1>9 DEF LoginRead
<1>10. ASSUME NEW r \in Request, CloseCodes(r) PROVE Fewer
  BY <1>10 DEF CloseCodes
<1>11. ASSUME NEW r \in Request, CreateCode(r) PROVE Fewer
  BY <1>11 DEF CreateCode
<1>12. ASSUME NEW r \in Request, MailCode(r) PROVE Fewer
  BY <1>12 DEF MailCode
<1>13. ASSUME NEW r \in Request, OpenSession(r) PROVE Fewer
  BY <1>13 DEF OpenSession
<1>14. ASSUME NEW r \in Request, Abandon(r) PROVE Fewer
  BY <1>14 DEF Abandon
<1>15. ASSUME NEW r \in Request, UseCode(r) PROVE Fewer
  BY <1>15 DEF UseCode
<1>16. ASSUME NEW r \in Request, Fault(r) PROVE Fewer
  BY <1>16 DEF Fault
<1>17. CASE ChangeMfa
  BY <1>17 DEF ChangeMfa
<1>18. CASE Tick
  BY <1>18 DEF Tick
<1>19. CASE UNCHANGED vars
  BY <1>19 DEF vars
<1>20. QED
  BY <1>1, <1>2, <1>3, <1>4, <1>5, <1>6, <1>7, <1>8, <1>9, <1>10, <1>11,
     <1>12, <1>13, <1>14, <1>15, <1>16, <1>17, <1>18, <1>19 DEF Next

LEMMA TriesStep == TypeOK /\ PlaceInv /\ FiniteInv /\ TriesInv /\ [Next]_vars => TriesInv'
<1> SUFFICES ASSUME TypeOK, PlaceInv, FiniteInv, TriesInv, [Next]_vars, NEW c \in Request
             PROVE  (tries[c] + Cardinality(Counting(c)) < MaxTries + peak[c])'
  BY DEF TriesInv
<1>0. /\ IsFiniteSet(Counting(c)) /\ Cardinality(Counting(c)) \in Nat
      /\ tries[c] \in Nat /\ peak[c] \in Nat /\ MaxTries \in Nat
      /\ tries[c] + Cardinality(Counting(c)) < MaxTries + peak[c]
  <2>1. Counting(c) \subseteq Active
    BY DEF Counting, Active
  <2>2. QED
    BY <2>1, Finite, AccountsAssumption DEF TypeOK, TriesInv
<1>1. ASSUME Counting(c)' \subseteq Counting(c), tries'[c] = tries[c], peak'[c] = peak[c]
      PROVE  (tries[c] + Cardinality(Counting(c)) < MaxTries + peak[c])'
  <2>1. Cardinality(Counting(c)') \in Nat /\ Cardinality(Counting(c)') <= Cardinality(Counting(c))
    BY <1>0, <1>1, FS_Subset, FS_CardinalityType
  <2>2. QED
    BY <1>0, <1>1, <2>1
<1>2. ASSUME NEW r \in Request, ReadCode(r)
      PROVE  (tries[c] + Cardinality(Counting(c)) < MaxTries + peak[c])'
  <2>1. PICK d \in (known \cap codes) \ codesUsed : tries[d] < MaxTries /\ Present(r, d)
    BY <1>2 DEF ReadCode
  <2>2. tries' = tries /\ pc[r] = "idle" /\ using[r] = None
        /\ \E l \in Label : Goto(r, l)
    BY <1>2 DEF ReadCode, code, PlaceInv, Label
  <2>3. CASE d # c
    <3>1. Counting(c)' \subseteq Counting(c) /\ peak'[c] = peak[c]
      BY <2>1, <2>2, <2>3 DEF Present, Counting, Goto, TypeOK
    <3>2. QED
      BY <1>1, <2>2, <3>1
  <2>4. CASE d = c
    <3>1. Checking(c) \subseteq Active
      BY DEF Checking, Active
    <3>2. Counting(c)' \subseteq Checking(c) \cup {r}
      BY <2>1, <2>2, <2>4 DEF Present, Counting, Checking, Goto, TypeOK
    <3>3. peak'[c] = Larger(peak[c], Cardinality(Checking(c)) + 1)
      BY <2>1, <2>4 DEF Present, TypeOK
    <3>4. Cardinality(Checking(c)) + 1 <= peak'[c] /\ peak'[c] \in Nat
      BY <1>0, <3>1, <3>3, Peaks
    <3>5. /\ IsFiniteSet(Checking(c) \cup {r}) /\ Cardinality(Checking(c)) \in Nat
          /\ Cardinality(Checking(c) \cup {r}) <= Cardinality(Checking(c)) + 1
      BY <3>1, Finite, FS_AddElement
    <3>6. /\ Cardinality(Counting(c)') \in Nat
          /\ Cardinality(Counting(c)') <= Cardinality(Checking(c) \cup {r})
      BY <3>2, <3>5, FS_Subset, FS_CardinalityType
    <3>7. Cardinality(Checking(c) \cup {r}) \in Nat
      BY <3>5, FS_CardinalityType
    <3>8. QED
      BY <1>0, <2>1, <2>2, <2>4, <3>4, <3>5, <3>6, <3>7
  <2>5. QED
    BY <2>3, <2>4
<1>3. ASSUME NEW r \in Request, CountTry(r)
      PROVE  (tries[c] + Cardinality(Counting(c)) < MaxTries + peak[c])'
  <2>1. peak' = peak /\ using' = using /\ pc[r] = "count"
        /\ tries' = [tries EXCEPT ![using[r]] = @ + 1]
        /\ pc' \in {[pc EXCEPT ![r] = "abandon"], [pc EXCEPT ![r] = "done"]}
    BY <1>3 DEF CountTry, Goto, hist
  <2>2. CASE using[r] = c
    <3>1. Counting(c)' = Counting(c) \ {r} /\ r \in Counting(c)
      BY <2>1, <2>2 DEF Counting, TypeOK
    <3>2. Cardinality(Counting(c)') = Cardinality(Counting(c)) - 1
      BY <1>0, <3>1, FS_RemoveElement
    <3>3. tries'[c] = tries[c] + 1
      BY <2>1, <2>2 DEF TypeOK
    <3>4. QED
      BY <1>0, <2>1, <3>2, <3>3
  <2>3. CASE using[r] # c
    <3>1. Counting(c)' \subseteq Counting(c) /\ tries'[c] = tries[c] /\ peak'[c] = peak[c]
      BY <2>1, <2>3 DEF Counting, TypeOK
    <3>2. QED
      BY <1>1, <3>1
  <2>4. QED
    BY <2>2, <2>3
<1>4. QED
  BY <1>1, <1>2, <1>3, CountingOnly

(* A code takes as many wrong tries as the documentation says, and one     *)
(* more for each verification that ran beside another (verifier).          *)
THEOREM TriesStayBounded == Spec => []TriesBounded
<1>1. Init => TriesInv
  <2> SUFFICES ASSUME Init, NEW c \in Request
               PROVE  tries[c] + Cardinality(Counting(c)) < MaxTries + peak[c]
    BY DEF TriesInv
  <2>1. Counting(c) = {}
    BY DEF Init, Counting
  <2>2. QED
    BY <2>1, FS_EmptySet, AccountsAssumption DEF Init
<1>2. TypeOK /\ FiniteInv /\ TriesInv => TriesBounded
  <2> SUFFICES ASSUME TypeOK, FiniteInv, TriesInv, NEW c \in codes
               PROVE  tries[c] < MaxTries + peak[c]
    BY DEF TriesBounded
  <2>1. Counting(c) \subseteq Active
    BY DEF Counting, Active
  <2>2. Cardinality(Counting(c)) \in Nat
    BY <2>1, Finite
  <2>3. QED
    BY <2>2, AccountsAssumption DEF TypeOK, TriesInv
<1>3. QED
  BY <1>1, <1>2, TriesStep, Known, PTL DEF Spec

-----------------------------------------------------------------------------
(* Sessions: those who check a code, or have opened or are opening a       *)
(* session with it, were all there before it was first accepted.           *)

Party(c) == {r \in Request : /\ using[r] = c
                             /\ pc[r] \in {"count", "use", "open"} \/ r \in sessions}

PartyInv ==
    /\ \A r \in Request : using[r] # None /\ (pc[r] = "open" \/ r \in sessions)
                              => using[r] \in codesUsed
    /\ \A c \in Request : Cardinality(Party(c)) <= peak[c]

LEMMA PartyOnly ==
  ASSUME TypeOK, PlaceInv, [Next]_vars, NEW c \in Request, ~ \E r \in Request : ReadCode(r)
  PROVE  Party(c)' \subseteq Party(c) /\ peak'[c] = peak[c]
<1> DEFINE Fewer == Party(c)' \subseteq Party(c) /\ peak'[c] = peak[c]
<1> USE AccountsAssumption DEF TypeOK, PlaceInv, Party, Goto, user, link, code, given, hist
<1>1. ASSUME NEW r \in Request, RegisterCheck(r) PROVE Fewer
  BY <1>1 DEF RegisterCheck
<1>2. ASSUME NEW r \in Request, RegisterInsert(r) PROVE Fewer
  BY <1>2 DEF RegisterInsert
<1>3. ASSUME NEW r \in Request, ResendRead(r) PROVE Fewer
  BY <1>3 DEF ResendRead
<1>4. ASSUME NEW r \in Request, CloseLinks(r) PROVE Fewer
  BY <1>4 DEF CloseLinks
<1>5. ASSUME NEW r \in Request, CreateLink(r) PROVE Fewer
  BY <1>5 DEF CreateLink
<1>6. ASSUME NEW r \in Request, MailLink(r) PROVE Fewer
  BY <1>6 DEF MailLink
<1>7. ASSUME NEW r \in Request, ReadLink(r) PROVE Fewer
  BY <1>7 DEF ReadLink
<1>8. ASSUME NEW r \in Request, Confirm(r) PROVE Fewer
  BY <1>8 DEF Confirm
<1>9. ASSUME NEW r \in Request, LoginRead(r) PROVE Fewer
  BY <1>9 DEF LoginRead
<1>10. ASSUME NEW r \in Request, CloseCodes(r) PROVE Fewer
  BY <1>10 DEF CloseCodes
<1>11. ASSUME NEW r \in Request, CreateCode(r) PROVE Fewer
  BY <1>11 DEF CreateCode
<1>12. ASSUME NEW r \in Request, MailCode(r) PROVE Fewer
  BY <1>12 DEF MailCode
<1>13. ASSUME NEW r \in Request, OpenSession(r) PROVE Fewer
  BY <1>13 DEF OpenSession
<1>14. ASSUME NEW r \in Request, CountTry(r) PROVE Fewer
  BY <1>14 DEF CountTry
<1>15. ASSUME NEW r \in Request, Abandon(r) PROVE Fewer
  BY <1>15 DEF Abandon
<1>16. ASSUME NEW r \in Request, UseCode(r) PROVE Fewer
  BY <1>16 DEF UseCode
<1>17. ASSUME NEW r \in Request, Fault(r) PROVE Fewer
  BY <1>17 DEF Fault
<1>18. CASE ChangeMfa
  BY <1>18 DEF ChangeMfa
<1>19. CASE Tick
  BY <1>19 DEF Tick
<1>20. CASE UNCHANGED vars
  BY <1>20 DEF vars
<1>21. QED
  BY <1>1, <1>2, <1>3, <1>4, <1>5, <1>6, <1>7, <1>8, <1>9, <1>10, <1>11,
     <1>12, <1>13, <1>14, <1>15, <1>16, <1>17, <1>18, <1>19, <1>20 DEF Next

(* A code that has opened a session is closed, and stays so.               *)
LEMMA SpentStep ==
  ASSUME TypeOK, PlaceInv, PartyInv, [Next]_vars
  PROVE  \A r \in Request : using'[r] # None /\ (pc'[r] = "open" \/ r \in sessions')
                              => using'[r] \in codesUsed'
<1> DEFINE Spent == \A r \in Request : using[r] # None /\ (pc[r] = "open" \/ r \in sessions)
                              => using[r] \in codesUsed
<1> Spent
  BY DEF PartyInv
<1> USE DEF TypeOK, PlaceInv, Goto, user, link, code, given, hist
<1>1. ASSUME NEW r \in Request, RegisterCheck(r) PROVE Spent'
  BY <1>1 DEF RegisterCheck
<1>2. ASSUME NEW r \in Request, RegisterInsert(r) PROVE Spent'
  BY <1>2 DEF RegisterInsert
<1>3. ASSUME NEW r \in Request, ResendRead(r) PROVE Spent'
  BY <1>3 DEF ResendRead
<1>4. ASSUME NEW r \in Request, CloseLinks(r) PROVE Spent'
  BY <1>4 DEF CloseLinks
<1>5. ASSUME NEW r \in Request, CreateLink(r) PROVE Spent'
  BY <1>5 DEF CreateLink
<1>6. ASSUME NEW r \in Request, MailLink(r) PROVE Spent'
  BY <1>6 DEF MailLink
<1>7. ASSUME NEW r \in Request, ReadLink(r) PROVE Spent'
  BY <1>7 DEF ReadLink
<1>8. ASSUME NEW r \in Request, Confirm(r) PROVE Spent'
  BY <1>8 DEF Confirm
<1>9. ASSUME NEW r \in Request, LoginRead(r) PROVE Spent'
  BY <1>9 DEF LoginRead
<1>10. ASSUME NEW r \in Request, CloseCodes(r) PROVE Spent'
  BY <1>10 DEF CloseCodes
<1>11. ASSUME NEW r \in Request, CreateCode(r) PROVE Spent'
  BY <1>11 DEF CreateCode
<1>12. ASSUME NEW r \in Request, MailCode(r) PROVE Spent'
  BY <1>12 DEF MailCode
<1>13. ASSUME NEW r \in Request, OpenSession(r) PROVE Spent'
  BY <1>13 DEF OpenSession
<1>14. ASSUME NEW r \in Request, ReadCode(r) PROVE Spent'
  BY <1>14 DEF ReadCode, Present
<1>15. ASSUME NEW r \in Request, CountTry(r) PROVE Spent'
  BY <1>15 DEF CountTry
<1>16. ASSUME NEW r \in Request, Abandon(r) PROVE Spent'
  BY <1>16 DEF Abandon
<1>17. ASSUME NEW r \in Request, UseCode(r) PROVE Spent'
  BY <1>17 DEF UseCode
<1>18. ASSUME NEW r \in Request, Fault(r) PROVE Spent'
  BY <1>18 DEF Fault
<1>19. CASE ChangeMfa
  BY <1>19 DEF ChangeMfa
<1>20. CASE Tick
  BY <1>20 DEF Tick
<1>21. CASE UNCHANGED vars
  BY <1>21 DEF vars
<1>22. QED
  BY <1>1, <1>2, <1>3, <1>4, <1>5, <1>6, <1>7, <1>8, <1>9, <1>10, <1>11,
     <1>12, <1>13, <1>14, <1>15, <1>16, <1>17, <1>18, <1>19, <1>20, <1>21 DEF Next

LEMMA PartyStep == TypeOK /\ PlaceInv /\ FiniteInv /\ PartyInv /\ [Next]_vars => PartyInv'
<1> SUFFICES ASSUME TypeOK, PlaceInv, FiniteInv, PartyInv, [Next]_vars, NEW c \in Request
             PROVE  (Cardinality(Party(c)) <= peak[c])'
  BY SpentStep DEF PartyInv
<1>0. /\ IsFiniteSet(Party(c)) /\ Cardinality(Party(c)) \in Nat /\ peak[c] \in Nat
      /\ Cardinality(Party(c)) <= peak[c]
  <2>1. Party(c) \subseteq Active
    BY DEF Party, Active, PlaceInv
  <2>2. QED
    BY <2>1, Finite DEF TypeOK, PartyInv
<1>1. ASSUME Party(c)' \subseteq Party(c), peak'[c] = peak[c]
      PROVE  (Cardinality(Party(c)) <= peak[c])'
  <2>1. Cardinality(Party(c)') \in Nat /\ Cardinality(Party(c)') <= Cardinality(Party(c))
    BY <1>0, <1>1, FS_Subset, FS_CardinalityType
  <2>2. QED
    BY <1>0, <1>1, <2>1
<1>2. ASSUME NEW r \in Request, ReadCode(r) PROVE (Cardinality(Party(c)) <= peak[c])'
  <2>1. PICK d \in (known \cap codes) \ codesUsed : Present(r, d)
    BY <1>2 DEF ReadCode
  <2>2. sessions' = sessions /\ pc[r] = "idle" /\ using[r] = None
        /\ \E l \in Label : Goto(r, l)
    BY <1>2 DEF ReadCode, given, PlaceInv, Label
  <2>3. CASE d # c
    <3>1. Party(c)' \subseteq Party(c) /\ peak'[c] = peak[c]
      BY <2>1, <2>2, <2>3 DEF Present, Party, Goto, TypeOK
    <3>2. QED
      BY <1>1, <3>1
  <2>4. CASE d = c
    <3>1. Checking(c) \subseteq Active
      BY DEF Checking, Active
    <3>2. Party(c) \subseteq Checking(c)
      BY <2>1, <2>4, AccountsAssumption DEF Party, Checking, PartyInv, TypeOK
    <3>3. Party(c)' \subseteq Party(c) \cup {r}
      BY <2>1, <2>2, <2>4 DEF Present, Party, Goto, TypeOK
    <3>4. peak'[c] = Larger(peak[c], Cardinality(Checking(c)) + 1)
      BY <2>1, <2>4 DEF Present, TypeOK
    <3>5. Cardinality(Checking(c)) + 1 <= peak'[c] /\ peak'[c] \in Nat
      BY <1>0, <3>1, <3>4, Peaks
    <3>6. /\ IsFiniteSet(Checking(c) \cup {r}) /\ Cardinality(Checking(c)) \in Nat
          /\ Cardinality(Checking(c) \cup {r}) <= Cardinality(Checking(c)) + 1
      BY <3>1, Finite, FS_AddElement
    <3>7. /\ Cardinality(Party(c)') \in Nat
          /\ Cardinality(Party(c)') <= Cardinality(Checking(c) \cup {r})
      BY <3>2, <3>3, <3>6, FS_Subset, FS_CardinalityType
    <3>8. Cardinality(Checking(c) \cup {r}) \in Nat
      BY <3>6, FS_CardinalityType
    <3>9. QED
      BY <3>5, <3>6, <3>7, <3>8
  <2>5. QED
    BY <2>3, <2>4
<1>3. QED
  BY <1>1, <1>2, PartyOnly

(* A code opens one session, and one more only for each verification that  *)
(* ran beside another (verifier, ouvrirSessionApresMfa).                   *)
THEOREM SessionsStayBounded == Spec => []SessionsBounded
<1>1. Init => PartyInv
  <2> SUFFICES ASSUME Init PROVE PartyInv
    OBVIOUS
  <2>1. ASSUME NEW c \in Request PROVE Party(c) = {}
    BY AccountsAssumption DEF Init, Party
  <2>2. ASSUME NEW c \in Request PROVE Cardinality(Party(c)) <= peak[c]
    BY <2>1, FS_EmptySet DEF Init
  <2>3. QED
    BY <2>2 DEF PartyInv, Init
<1>2. TypeOK /\ PlaceInv /\ FiniteInv /\ PartyInv => SessionsBounded
  <2> SUFFICES ASSUME TypeOK, PlaceInv, FiniteInv, PartyInv, NEW c \in codes
               PROVE  Cardinality(OpenedBy(c)) <= peak[c]
    BY DEF SessionsBounded
  <2>1. Party(c) \subseteq Active /\ OpenedBy(c) \subseteq Party(c)
    BY DEF Party, Active, PlaceInv, OpenedBy, TypeOK
  <2>2. /\ IsFiniteSet(Party(c)) /\ Cardinality(Party(c)) \in Nat
        /\ Cardinality(OpenedBy(c)) \in Nat
        /\ Cardinality(OpenedBy(c)) <= Cardinality(Party(c))
    BY <2>1, Finite, FS_Subset, FS_CardinalityType
  <2>3. QED
    BY <2>2 DEF TypeOK, PartyInv
<1>3. QED
  BY <1>1, <1>2, PartyStep, Known, PTL DEF Spec

-----------------------------------------------------------------------------
(* Open codes and links: each is one of those that stood between the       *)
(* closing of what was open and the creation when the last of them closed. *)
CodePending == (codes \ codesUsed) \cup At("createCode")

CodeInv == Cardinality(CodePending) <= codePeak

LEMMA CodeOnly ==
  ASSUME TypeOK, PlaceInv, [Next]_vars, ~ \E r \in Request : CloseCodes(r)
  PROVE  CodePending' \subseteq CodePending /\ codePeak' = codePeak
<1> DEFINE Fewer == CodePending' \subseteq CodePending /\ codePeak' = codePeak
<1> USE DEF TypeOK, PlaceInv, CodePending, At, Goto, user, link, code, given, hist
<1>1. ASSUME NEW r \in Request, RegisterCheck(r) PROVE Fewer
  BY <1>1 DEF RegisterCheck
<1>2. ASSUME NEW r \in Request, RegisterInsert(r) PROVE Fewer
  BY <1>2 DEF RegisterInsert
<1>3. ASSUME NEW r \in Request, ResendRead(r) PROVE Fewer
  BY <1>3 DEF ResendRead
<1>4. ASSUME NEW r \in Request, CloseLinks(r) PROVE Fewer
  BY <1>4 DEF CloseLinks
<1>5. ASSUME NEW r \in Request, CreateLink(r) PROVE Fewer
  BY <1>5 DEF CreateLink
<1>6. ASSUME NEW r \in Request, MailLink(r) PROVE Fewer
  BY <1>6 DEF MailLink
<1>7. ASSUME NEW r \in Request, ReadLink(r) PROVE Fewer
  BY <1>7 DEF ReadLink
<1>8. ASSUME NEW r \in Request, Confirm(r) PROVE Fewer
  BY <1>8 DEF Confirm
<1>9. ASSUME NEW r \in Request, LoginRead(r) PROVE Fewer
  BY <1>9 DEF LoginRead
<1>10. ASSUME NEW r \in Request, CreateCode(r) PROVE Fewer
  BY <1>10 DEF CreateCode
<1>11. ASSUME NEW r \in Request, MailCode(r) PROVE Fewer
  BY <1>11 DEF MailCode
<1>12. ASSUME NEW r \in Request, OpenSession(r) PROVE Fewer
  BY <1>12 DEF OpenSession
<1>13. ASSUME NEW r \in Request, ReadCode(r) PROVE Fewer
  BY <1>13 DEF ReadCode, Present
<1>14. ASSUME NEW r \in Request, CountTry(r) PROVE Fewer
  BY <1>14 DEF CountTry
<1>15. ASSUME NEW r \in Request, Abandon(r) PROVE Fewer
  BY <1>15 DEF Abandon
<1>16. ASSUME NEW r \in Request, UseCode(r) PROVE Fewer
  BY <1>16 DEF UseCode
<1>17. ASSUME NEW r \in Request, Fault(r) PROVE Fewer
  BY <1>17 DEF Fault
<1>18. CASE ChangeMfa
  BY <1>18 DEF ChangeMfa
<1>19. CASE Tick
  BY <1>19 DEF Tick
<1>20. CASE UNCHANGED vars
  BY <1>20 DEF vars
<1>21. QED
  BY <1>1, <1>2, <1>3, <1>4, <1>5, <1>6, <1>7, <1>8, <1>9, <1>10, <1>11,
     <1>12, <1>13, <1>14, <1>15, <1>16, <1>17, <1>18, <1>19, <1>20 DEF Next

LEMMA CodeStep == TypeOK /\ PlaceInv /\ FiniteInv /\ CodeInv /\ [Next]_vars => CodeInv'
<1> SUFFICES ASSUME TypeOK, PlaceInv, FiniteInv, CodeInv, [Next]_vars PROVE CodeInv'
  OBVIOUS
<1>0. /\ IsFiniteSet(CodePending) /\ Cardinality(CodePending) \in Nat
      /\ codePeak \in Nat /\ Cardinality(CodePending) <= codePeak
  <2>1. CodePending \subseteq Active
    BY DEF CodePending, At, Active, PlaceInv, TypeOK
  <2>2. QED
    BY <2>1, Finite DEF TypeOK, CodeInv
<1>1. CASE ~ \E r \in Request : CloseCodes(r)
  <2>1. Cardinality(CodePending') \in Nat /\ Cardinality(CodePending') <= Cardinality(CodePending)
    BY <1>0, <1>1, CodeOnly, FS_Subset, FS_CardinalityType
  <2>2. QED
    BY <1>0, <1>1, <2>1, CodeOnly DEF CodeInv
<1>2. ASSUME NEW r \in Request, CloseCodes(r) PROVE CodeInv'
  <2>1. At("createCode") \subseteq Active
    BY DEF At, Active
  <2>2. CodePending' \subseteq At("createCode") \cup {r}
    BY <1>2 DEF CloseCodes, CodePending, At, Goto, TypeOK
  <2>3. codePeak' = Larger(codePeak, Cardinality(At("createCode")) + 1)
    BY <1>2 DEF CloseCodes
  <2>4. Cardinality(At("createCode")) + 1 <= codePeak' /\ codePeak' \in Nat
    BY <1>0, <2>1, <2>3, Peaks
  <2>5. /\ IsFiniteSet(At("createCode") \cup {r}) /\ Cardinality(At("createCode")) \in Nat
        /\ Cardinality(At("createCode") \cup {r}) <= Cardinality(At("createCode")) + 1
    BY <2>1, Finite, FS_AddElement
  <2>6. /\ Cardinality(CodePending') \in Nat /\ Cardinality(At("createCode") \cup {r}) \in Nat
        /\ Cardinality(CodePending') <= Cardinality(At("createCode") \cup {r})
    BY <2>2, <2>5, FS_Subset, FS_CardinalityType
  <2>7. QED
    BY <2>4, <2>5, <2>6 DEF CodeInv
<1>3. QED
  BY <1>1, <1>2

(* A login closes the codes of those before it (emettre).                  *)
THEOREM OpenCodesStayBounded == Spec => []OpenCodesBounded
<1>1. Init => CodeInv
  <2> SUFFICES ASSUME Init PROVE CodeInv
    OBVIOUS
  <2>1. CodePending = {}
    BY DEF Init, CodePending, At
  <2>2. QED
    BY <2>1, FS_EmptySet DEF Init, CodeInv
<1>2. TypeOK /\ PlaceInv /\ FiniteInv /\ CodeInv => OpenCodesBounded
  <2> SUFFICES ASSUME TypeOK, PlaceInv, FiniteInv, CodeInv PROVE OpenCodesBounded
    OBVIOUS
  <2>1. CodePending \subseteq Active /\ codes \ codesUsed \subseteq CodePending
    BY DEF CodePending, At, Active, PlaceInv, TypeOK
  <2>2. /\ Cardinality(CodePending) \in Nat /\ Cardinality(codes \ codesUsed) \in Nat
        /\ Cardinality(codes \ codesUsed) <= Cardinality(CodePending)
    BY <2>1, Finite, FS_Subset, FS_CardinalityType
  <2>3. QED
    BY <2>2 DEF TypeOK, CodeInv, OpenCodesBounded
<1>3. QED
  BY <1>1, <1>2, CodeStep, Known, PTL DEF Spec

LinkPending == (links \ linksUsed) \cup At("createLink")

LinkInv == Cardinality(LinkPending) <= linkPeak

LEMMA LinkOnly ==
  ASSUME TypeOK, PlaceInv, [Next]_vars, ~ \E r \in Request : CloseLinks(r)
  PROVE  LinkPending' \subseteq LinkPending /\ linkPeak' = linkPeak
<1> DEFINE Fewer == LinkPending' \subseteq LinkPending /\ linkPeak' = linkPeak
<1> USE DEF TypeOK, PlaceInv, LinkPending, At, Goto, user, link, code, given, hist
<1>1. ASSUME NEW r \in Request, RegisterCheck(r) PROVE Fewer
  BY <1>1 DEF RegisterCheck
<1>2. ASSUME NEW r \in Request, RegisterInsert(r) PROVE Fewer
  BY <1>2 DEF RegisterInsert
<1>3. ASSUME NEW r \in Request, ResendRead(r) PROVE Fewer
  BY <1>3 DEF ResendRead
<1>4. ASSUME NEW r \in Request, CreateLink(r) PROVE Fewer
  BY <1>4 DEF CreateLink
<1>5. ASSUME NEW r \in Request, MailLink(r) PROVE Fewer
  BY <1>5 DEF MailLink
<1>6. ASSUME NEW r \in Request, ReadLink(r) PROVE Fewer
  BY <1>6 DEF ReadLink
<1>7. ASSUME NEW r \in Request, Confirm(r) PROVE Fewer
  BY <1>7 DEF Confirm
<1>8. ASSUME NEW r \in Request, LoginRead(r) PROVE Fewer
  BY <1>8 DEF LoginRead
<1>9. ASSUME NEW r \in Request, CloseCodes(r) PROVE Fewer
  BY <1>9 DEF CloseCodes
<1>10. ASSUME NEW r \in Request, CreateCode(r) PROVE Fewer
  BY <1>10 DEF CreateCode
<1>11. ASSUME NEW r \in Request, MailCode(r) PROVE Fewer
  BY <1>11 DEF MailCode
<1>12. ASSUME NEW r \in Request, OpenSession(r) PROVE Fewer
  BY <1>12 DEF OpenSession
<1>13. ASSUME NEW r \in Request, ReadCode(r) PROVE Fewer
  BY <1>13 DEF ReadCode, Present
<1>14. ASSUME NEW r \in Request, CountTry(r) PROVE Fewer
  BY <1>14 DEF CountTry
<1>15. ASSUME NEW r \in Request, Abandon(r) PROVE Fewer
  BY <1>15 DEF Abandon
<1>16. ASSUME NEW r \in Request, UseCode(r) PROVE Fewer
  BY <1>16 DEF UseCode
<1>17. ASSUME NEW r \in Request, Fault(r) PROVE Fewer
  BY <1>17 DEF Fault
<1>18. CASE ChangeMfa
  BY <1>18 DEF ChangeMfa
<1>19. CASE Tick
  BY <1>19 DEF Tick
<1>20. CASE UNCHANGED vars
  BY <1>20 DEF vars
<1>21. QED
  BY <1>1, <1>2, <1>3, <1>4, <1>5, <1>6, <1>7, <1>8, <1>9, <1>10, <1>11,
     <1>12, <1>13, <1>14, <1>15, <1>16, <1>17, <1>18, <1>19, <1>20 DEF Next

LEMMA LinkStep == TypeOK /\ PlaceInv /\ FiniteInv /\ LinkInv /\ [Next]_vars => LinkInv'
<1> SUFFICES ASSUME TypeOK, PlaceInv, FiniteInv, LinkInv, [Next]_vars PROVE LinkInv'
  OBVIOUS
<1>0. /\ IsFiniteSet(LinkPending) /\ Cardinality(LinkPending) \in Nat
      /\ linkPeak \in Nat /\ Cardinality(LinkPending) <= linkPeak
  <2>1. LinkPending \subseteq Active
    BY DEF LinkPending, At, Active, PlaceInv, TypeOK
  <2>2. QED
    BY <2>1, Finite DEF TypeOK, LinkInv
<1>1. CASE ~ \E r \in Request : CloseLinks(r)
  <2>1. Cardinality(LinkPending') \in Nat /\ Cardinality(LinkPending') <= Cardinality(LinkPending)
    BY <1>0, <1>1, LinkOnly, FS_Subset, FS_CardinalityType
  <2>2. QED
    BY <1>0, <1>1, <2>1, LinkOnly DEF LinkInv
<1>2. ASSUME NEW r \in Request, CloseLinks(r) PROVE LinkInv'
  <2>1. At("createLink") \subseteq Active
    BY DEF At, Active
  <2>2. LinkPending' \subseteq At("createLink") \cup {r}
    BY <1>2 DEF CloseLinks, LinkPending, At, Goto, TypeOK
  <2>3. linkPeak' = Larger(linkPeak, Cardinality(At("createLink")) + 1)
    BY <1>2 DEF CloseLinks
  <2>4. Cardinality(At("createLink")) + 1 <= linkPeak' /\ linkPeak' \in Nat
    BY <1>0, <2>1, <2>3, Peaks
  <2>5. /\ IsFiniteSet(At("createLink") \cup {r}) /\ Cardinality(At("createLink")) \in Nat
        /\ Cardinality(At("createLink") \cup {r}) <= Cardinality(At("createLink")) + 1
    BY <2>1, Finite, FS_AddElement
  <2>6. /\ Cardinality(LinkPending') \in Nat /\ Cardinality(At("createLink") \cup {r}) \in Nat
        /\ Cardinality(LinkPending') <= Cardinality(At("createLink") \cup {r})
    BY <2>2, <2>5, FS_Subset, FS_CardinalityType
  <2>7. QED
    BY <2>4, <2>5, <2>6 DEF LinkInv
<1>3. QED
  BY <1>1, <1>2

(* A request of a link closes those before it (envoyerLien).               *)
THEOREM OpenLinksStayBounded == Spec => []OpenLinksBounded
<1>1. Init => LinkInv
  <2> SUFFICES ASSUME Init PROVE LinkInv
    OBVIOUS
  <2>1. LinkPending = {}
    BY DEF Init, LinkPending, At
  <2>2. QED
    BY <2>1, FS_EmptySet DEF Init, LinkInv
<1>2. TypeOK /\ PlaceInv /\ FiniteInv /\ LinkInv => OpenLinksBounded
  <2> SUFFICES ASSUME TypeOK, PlaceInv, FiniteInv, LinkInv PROVE OpenLinksBounded
    OBVIOUS
  <2>1. LinkPending \subseteq Active /\ links \ linksUsed \subseteq LinkPending
    BY DEF LinkPending, At, Active, PlaceInv, TypeOK
  <2>2. /\ Cardinality(LinkPending) \in Nat /\ Cardinality(links \ linksUsed) \in Nat
        /\ Cardinality(links \ linksUsed) <= Cardinality(LinkPending)
    BY <2>1, Finite, FS_Subset, FS_CardinalityType
  <2>3. QED
    BY <2>2 DEF TypeOK, LinkInv, OpenLinksBounded
<1>3. QED
  BY <1>1, <1>2, LinkStep, Known, PTL DEF Spec

-----------------------------------------------------------------------------
(* As long as the address is not confirmed and nothing has failed, the     *)
(* last one to have closed the links has created another, or will.         *)

Promise(r) == \/ pc[r] \in {"closeLinks", "createLink"}
              \/ r \in links \ linksUsed /\ (pc[r] = "mailLink" \/ r \in mailed)

PromiseInv == account /\ ~verified /\ faults = 0 => \E r \in Request : Promise(r)

LEMMA PromiseStep == TypeOK /\ PlaceInv /\ PromiseInv /\ [Next]_vars => PromiseInv'
<1> SUFFICES ASSUME TypeOK, PlaceInv, PromiseInv, [Next]_vars PROVE PromiseInv'
  OBVIOUS
<1> USE DEF TypeOK, PlaceInv, PromiseInv, Promise, Goto, user, link, code, given, hist
<1>1. ASSUME NEW r \in Request, RegisterCheck(r) PROVE PromiseInv'
  BY <1>1 DEF RegisterCheck
<1>2. ASSUME NEW r \in Request, RegisterInsert(r) PROVE PromiseInv'
  BY <1>2 DEF RegisterInsert
<1>3. ASSUME NEW r \in Request, ResendRead(r) PROVE PromiseInv'
  BY <1>3 DEF ResendRead
<1>4. ASSUME NEW r \in Request, CloseLinks(r) PROVE PromiseInv'
  BY <1>4 DEF CloseLinks
<1>5. ASSUME NEW r \in Request, CreateLink(r) PROVE PromiseInv'
  BY <1>5 DEF CreateLink
<1>6. ASSUME NEW r \in Request, MailLink(r) PROVE PromiseInv'
  BY <1>6 DEF MailLink
<1>7. ASSUME NEW r \in Request, ReadLink(r) PROVE PromiseInv'
  BY <1>7 DEF ReadLink
<1>8. ASSUME NEW r \in Request, Confirm(r) PROVE PromiseInv'
  BY <1>8 DEF Confirm
<1>9. ASSUME NEW r \in Request, LoginRead(r) PROVE PromiseInv'
  BY <1>9 DEF LoginRead
<1>10. ASSUME NEW r \in Request, CloseCodes(r) PROVE PromiseInv'
  BY <1>10 DEF CloseCodes
<1>11. ASSUME NEW r \in Request, CreateCode(r) PROVE PromiseInv'
  BY <1>11 DEF CreateCode
<1>12. ASSUME NEW r \in Request, MailCode(r) PROVE PromiseInv'
  BY <1>12 DEF MailCode
<1>13. ASSUME NEW r \in Request, OpenSession(r) PROVE PromiseInv'
  BY <1>13 DEF OpenSession
<1>14. ASSUME NEW r \in Request, ReadCode(r) PROVE PromiseInv'
  BY <1>14 DEF ReadCode, Present
<1>15. ASSUME NEW r \in Request, CountTry(r) PROVE PromiseInv'
  BY <1>15 DEF CountTry
<1>16. ASSUME NEW r \in Request, Abandon(r) PROVE PromiseInv'
  BY <1>16 DEF Abandon
<1>17. ASSUME NEW r \in Request, UseCode(r) PROVE PromiseInv'
  BY <1>17 DEF UseCode
<1>18. ASSUME NEW r \in Request, Fault(r) PROVE PromiseInv'
  BY <1>18 DEF Fault
<1>19. CASE ChangeMfa
  BY <1>19 DEF ChangeMfa
<1>20. CASE Tick
  BY <1>20 DEF Tick
<1>21. CASE UNCHANGED vars
  BY <1>21 DEF vars
<1>22. QED
  BY <1>1, <1>2, <1>3, <1>4, <1>5, <1>6, <1>7, <1>8, <1>9, <1>10, <1>11,
     <1>12, <1>13, <1>14, <1>15, <1>16, <1>17, <1>18, <1>19, <1>20, <1>21 DEF Next

(* Whoever has registered is never without a link, open or on its way,     *)
(* unless a request failed (register, envoyerLien, confirmer).             *)
THEOREM NeverLockedOut == Spec => []NotLockedOut
<1>1. Init => PromiseInv
  BY DEF Init, PromiseInv
<1>2. TypeOK /\ PromiseInv => NotLockedOut
  BY DEF TypeOK, PromiseInv, Promise, NotLockedOut, Sending
<1>3. QED
  BY <1>1, <1>2, PromiseStep, Known, PTL DEF Spec
=============================================================================
