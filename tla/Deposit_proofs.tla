-------------------------- MODULE Deposit_proofs ---------------------------
(***************************************************************************)
(* Proofs about Deposit, for any number of deposits, any sizes, sample,    *)
(* maximal size and quotas, and any number of months and failures.         *)
(***************************************************************************)
EXTENDS Deposit, TLAPS

USE DEF stored, stream

(* What is left of a quota is a size.                                      *)
LEMMA RemainingType ==
  ASSUME NEW limit \in Nat, NEW used \in Nat
  PROVE  /\ Remaining(limit, used) \in Nat
         /\ used + Remaining(limit, used) <= limit \/ Remaining(limit, used) = 0
BY DEF Remaining

LEMMA LengthType ==
  ASSUME TypeOK, NEW u \in Upload
  PROVE  /\ Length(u) \in Nat /\ size[u] \in Nat
         /\ Length(u) <= size[u]
         /\ size[u] <= MaxFileSize => Length(u) = size[u]
<1>1. size[u] \in Nat /\ MaxFileSize \in Nat
  BY DepositAssumption DEF TypeOK
<1>2. QED
  BY <1>1 DEF Length, AtMost

LEMMA TypeInit == Init => TypeOK
BY DepositAssumption DEF Init, TypeOK, Period, Label, Sight

LEMMA TypeStep == TypeOK /\ [Next]_vars => TypeOK'
<1> SUFFICES ASSUME TypeOK, [Next]_vars PROVE TypeOK'
  OBVIOUS
<1> USE DEF TypeOK, Goto
<1>1. ASSUME NEW u \in Upload, Guard(u) PROVE TypeOK'
  <2>1. Quota[plan] \in Nat /\ usage[month] \in Nat
    BY DepositAssumption
  <2>2. Remaining(Quota[plan], usage[month]) \in Nat
    BY <2>1, RemainingType
  <2>3. [period |-> month, used |-> usage[month], limit |-> Quota[plan]] \in Sight
    BY <2>1 DEF Sight
  <2>4. QED
    BY <1>1, <2>2, <2>3 DEF Guard, Label
<1>2. ASSUME NEW u \in Upload, Open(u) PROVE TypeOK'
  BY <1>2 DEF Open, Label
<1>3. ASSUME NEW u \in Upload, Hold(u) PROVE TypeOK'
  <2>1. arrived[u] + 1 \in Nat /\ held[u] + 1 \in Nat
    OBVIOUS
  <2>2. QED
    BY <1>3, <2>1 DEF Hold, Label
<1>4. ASSUME NEW u \in Upload, Flush(u) PROVE TypeOK'
  BY <1>4 DEF Flush, Label
<1>5. ASSUME NEW u \in Upload, Verify(u) PROVE TypeOK'
  <2>1. passed[u] + held[u] \in Nat
    OBVIOUS
  <2>2. QED
    BY <1>5, <2>1 DEF Verify, Pass, Label
<1>6. ASSUME NEW u \in Upload, Flow(u) PROVE TypeOK'
  <2>1. arrived[u] + 1 \in Nat /\ passed[u] + 1 \in Nat
    OBVIOUS
  <2>2. QED
    BY <1>6, <2>1 DEF Flow, Pass, Label
<1>7. ASSUME NEW u \in Upload, End(u) PROVE TypeOK'
  BY <1>7 DEF End, Label
<1>8. ASSUME NEW u \in Upload, Break(u) PROVE TypeOK'
  BY <1>8 DEF Break, Label
<1>9. ASSUME NEW u \in Upload, Create(u) PROVE TypeOK'
  BY <1>9 DEF Create, Label
<1>10. ASSUME NEW u \in Upload, Record(u) PROVE TypeOK'
  <2>1. usage[month] + passed[u] \in Nat
    OBVIOUS
  <2>2. QED
    BY <1>10, <2>1 DEF Record, Label
<1>11. ASSUME NEW u \in Upload, Reject(u) PROVE TypeOK'
  <2>1. faults + 1 \in Nat
    OBVIOUS
  <2>2. QED
    BY <1>11, <2>1 DEF Reject, Label
<1>12. ASSUME NEW u \in Upload, Discard(u) PROVE TypeOK'
  BY <1>12 DEF Discard, Label
<1>13. ASSUME NEW u \in Upload, KeepGarbage(u) PROVE TypeOK'
  <2>1. faults + 1 \in Nat
    OBVIOUS
  <2>2. QED
    BY <1>13, <2>1 DEF KeepGarbage, Label
<1>14. CASE Crash
  <2>1. faults + 1 \in Nat
    OBVIOUS
  <2>2. QED
    BY <1>14, <2>1 DEF Crash, Label
<1>15. CASE ChangePlan
  BY <1>15 DEF ChangePlan, Label
<1>16. CASE NextMonth
  BY <1>16, DepositAssumption DEF NextMonth, Period
<1>17. CASE UNCHANGED vars
  BY <1>17 DEF vars
<1>18. QED
  BY <1>1, <1>2, <1>3, <1>4, <1>5, <1>6, <1>7, <1>8, <1>9, <1>10,
     <1>11, <1>12, <1>13, <1>14, <1>15, <1>16, <1>17
  DEF Next, UploadStep

(* Each variable has its type.                                             *)
THEOREM TypeCorrect == Spec => []TypeOK
BY TypeInit, TypeStep, PTL DEF Spec

(* The bytes of a body, at each stage: held back before the verdict, all   *)
(* through the counter after it, and the whole body when it is registered. *)
StreamInv ==
    \A u \in Upload :
      /\ arrived[u] <= Length(u)
      /\ pc[u] \in {"idle", "guarded"} => arrived[u] = 0 /\ held[u] = 0 /\ passed[u] = 0
      /\ pc[u] \in {"sniffing", "verifying"} => held[u] = arrived[u] /\ passed[u] = 0
      /\ pc[u] = "flowing" => passed[u] = arrived[u]
      /\ pc[u] \in {"stored", "recording", "done"} => passed[u] = size[u]
      /\ u \in rows => /\ passed[u] = size[u]
                       /\ pc[u] \in {"recording", "done", "discard", "refused", "stopped"}

LEMMA StreamInit == Init => StreamInv
<1> SUFFICES ASSUME Init PROVE StreamInv
  OBVIOUS
<1>1. TypeOK
  BY TypeInit
<1>2. ASSUME NEW u \in Upload PROVE 0 <= Length(u)
  <2>1. Length(u) \in Nat
    BY <1>1, LengthType
  <2>2. QED
    BY <2>1
<1>3. QED
  BY <1>2 DEF Init, StreamInv

LEMMA StreamStep == TypeOK /\ StreamInv /\ [Next]_vars => StreamInv'
<1> SUFFICES ASSUME TypeOK, StreamInv, [Next]_vars PROVE StreamInv'
  OBVIOUS
<1> USE DEF TypeOK, StreamInv, Goto, Length
<1>1. ASSUME NEW u \in Upload, Guard(u) PROVE StreamInv'
  BY <1>1 DEF Guard
<1>2. ASSUME NEW u \in Upload, Open(u) PROVE StreamInv'
  BY <1>2 DEF Open
<1>3. ASSUME NEW u \in Upload, Hold(u) PROVE StreamInv'
  BY <1>3, LengthType DEF Hold
<1>4. ASSUME NEW u \in Upload, Flush(u) PROVE StreamInv'
  BY <1>4 DEF Flush
<1>5. ASSUME NEW u \in Upload, Verify(u) PROVE StreamInv'
  BY <1>5 DEF Verify, Pass
<1>6. ASSUME NEW u \in Upload, Flow(u) PROVE StreamInv'
  BY <1>6, LengthType DEF Flow, Pass
<1>7. ASSUME NEW u \in Upload, End(u) PROVE StreamInv'
  <2>1. Length(u) = arrived[u] /\ (size[u] <= MaxFileSize => Length(u) = size[u])
    BY <1>7, LengthType DEF End
  <2>2. size[u] \in Nat /\ MaxFileSize \in Nat
    BY LengthType, DepositAssumption
  <2>3. pc'[u] = "stored" => arrived[u] = size[u]
    BY <1>7, <2>1, <2>2 DEF End
  <2>4. QED
    BY <1>7, <2>3 DEF End
<1>8. ASSUME NEW u \in Upload, Break(u) PROVE StreamInv'
  BY <1>8 DEF Break
<1>9. ASSUME NEW u \in Upload, Create(u) PROVE StreamInv'
  BY <1>9 DEF Create
<1>10. ASSUME NEW u \in Upload, Record(u) PROVE StreamInv'
  BY <1>10 DEF Record
<1>11. ASSUME NEW u \in Upload, Reject(u) PROVE StreamInv'
  BY <1>11 DEF Reject
<1>12. ASSUME NEW u \in Upload, Discard(u) PROVE StreamInv'
  BY <1>12 DEF Discard
<1>13. ASSUME NEW u \in Upload, KeepGarbage(u) PROVE StreamInv'
  BY <1>13 DEF KeepGarbage
<1>14. CASE Crash
  BY <1>14 DEF Crash
<1>15. CASE ChangePlan
  BY <1>15 DEF ChangePlan
<1>16. CASE NextMonth
  BY <1>16 DEF NextMonth
<1>17. CASE UNCHANGED vars
  BY <1>17 DEF vars
<1>18. QED
  BY <1>1, <1>2, <1>3, <1>4, <1>5, <1>6, <1>7, <1>8, <1>9, <1>10,
     <1>11, <1>12, <1>13, <1>14, <1>15, <1>16, <1>17
  DEF Next, UploadStep

(* A registered file is the whole body the client sent.                    *)
THEOREM WholeOrNothing == Spec => []RegisteredWhole
<1>1. TypeOK /\ StreamInv => RegisteredWhole
  BY DEF TypeOK, StreamInv, RegisteredWhole
<1>2. QED
  BY <1>1, TypeCorrect, StreamInit, StreamStep, PTL DEF Spec

(* The counter never lets through more than the guard saw left.            *)
QuotaInv ==
    \A u \in Upload :
      /\ remaining[u] = Remaining(seen[u].limit, seen[u].used)
      /\ passed[u] <= remaining[u]

LEMMA QuotaInit == Init => QuotaInv
<1> SUFFICES ASSUME Init, NEW u \in Upload
             PROVE  /\ remaining[u] = Remaining(seen[u].limit, seen[u].used)
                    /\ passed[u] <= remaining[u]
  BY DEF QuotaInv
<1>1. seen[u].limit = 0 /\ seen[u].used = 0 /\ remaining[u] = 0 /\ passed[u] = 0
  BY DEF Init
<1>2. Remaining(seen[u].limit, seen[u].used) = 0
  BY <1>1 DEF Remaining
<1>3. QED
  BY <1>1, <1>2

LEMMA QuotaStep == TypeOK /\ StreamInv /\ QuotaInv /\ [Next]_vars => QuotaInv'
<1> SUFFICES ASSUME TypeOK, StreamInv, QuotaInv, [Next]_vars PROVE QuotaInv'
  OBVIOUS
<1> USE DEF TypeOK, StreamInv, QuotaInv, Goto, Sight
<1>1. ASSUME NEW u \in Upload, Guard(u) PROVE QuotaInv'
  <2>1. Remaining(Quota[plan], usage[month]) \in Nat
    BY RemainingType, DepositAssumption
  <2>2. QED
    BY <1>1, <2>1 DEF Guard
<1>2. ASSUME NEW u \in Upload, Open(u) PROVE QuotaInv'
  BY <1>2 DEF Open
<1>3. ASSUME NEW u \in Upload, Hold(u) PROVE QuotaInv'
  BY <1>3 DEF Hold
<1>4. ASSUME NEW u \in Upload, Flush(u) PROVE QuotaInv'
  BY <1>4 DEF Flush
<1>5. ASSUME NEW u \in Upload, Verify(u) PROVE QuotaInv'
  BY <1>5 DEF Verify, Pass
<1>6. ASSUME NEW u \in Upload, Flow(u) PROVE QuotaInv'
  BY <1>6 DEF Flow, Pass
<1>7. ASSUME NEW u \in Upload, End(u) PROVE QuotaInv'
  BY <1>7 DEF End
<1>8. ASSUME NEW u \in Upload, Break(u) PROVE QuotaInv'
  BY <1>8 DEF Break
<1>9. ASSUME NEW u \in Upload, Create(u) PROVE QuotaInv'
  BY <1>9 DEF Create
<1>10. ASSUME NEW u \in Upload, Record(u) PROVE QuotaInv'
  BY <1>10 DEF Record
<1>11. ASSUME NEW u \in Upload, Reject(u) PROVE QuotaInv'
  BY <1>11 DEF Reject
<1>12. ASSUME NEW u \in Upload, Discard(u) PROVE QuotaInv'
  BY <1>12 DEF Discard
<1>13. ASSUME NEW u \in Upload, KeepGarbage(u) PROVE QuotaInv'
  BY <1>13 DEF KeepGarbage
<1>14. CASE Crash
  BY <1>14 DEF Crash
<1>15. CASE ChangePlan
  BY <1>15 DEF ChangePlan
<1>16. CASE NextMonth
  BY <1>16 DEF NextMonth
<1>17. CASE UNCHANGED vars
  BY <1>17 DEF vars
<1>18. QED
  BY <1>1, <1>2, <1>3, <1>4, <1>5, <1>6, <1>7, <1>8, <1>9, <1>10,
     <1>11, <1>12, <1>13, <1>14, <1>15, <1>16, <1>17
  DEF Next, UploadStep

(* A deposit that no other overlaps leaves the month within the limit it   *)
(* was given, or as it was.                                                *)
THEOREM AloneStaysWithin == Spec => AloneWithinQuota
<1> DEFINE Kept == \A u \in Upload :
                     (Record(u) /\ seen[u].period = month /\ seen[u].used = usage[month])
                       => \/ usage'[month] <= seen[u].limit
                          \/ usage'[month] = usage[month]
<1>1. TypeOK /\ QuotaInv => Kept
  <2> SUFFICES ASSUME TypeOK, QuotaInv, NEW u \in Upload, Record(u),
                      seen[u].period = month, seen[u].used = usage[month]
               PROVE  \/ usage'[month] <= seen[u].limit
                      \/ usage'[month] = usage[month]
    OBVIOUS
  <2>1. /\ seen[u].limit \in Nat /\ seen[u].used \in Nat
        /\ passed[u] \in Nat /\ month \in Period /\ usage[month] \in Nat
    BY DEF TypeOK, Sight
  <2>2. usage'[month] = usage[month] + passed[u]
    BY DEF Record, TypeOK
  <2>3. passed[u] <= Remaining(seen[u].limit, usage[month])
    BY DEF QuotaInv
  <2>4. QED
    BY <2>1, <2>2, <2>3, RemainingType
<1>2. TypeOK /\ QuotaInv => [Kept]_vars
  BY <1>1
<1>3. QED
  BY <1>2, TypeCorrect, StreamInit, StreamStep, QuotaInit, QuotaStep, PTL
  DEF Spec, AloneWithinQuota

(* A deposit that is recorded has its row.                                 *)
DoneInv == \A u \in Upload : pc[u] \in {"recording", "done"} => u \in rows

LEMMA DoneInit == Init => DoneInv
BY DEF Init, DoneInv

LEMMA DoneStep == TypeOK /\ DoneInv /\ [Next]_vars => DoneInv'
<1> SUFFICES ASSUME TypeOK, DoneInv, [Next]_vars PROVE DoneInv'
  OBVIOUS
<1> USE DEF TypeOK, DoneInv, Goto
<1>1. ASSUME NEW u \in Upload, Guard(u) PROVE DoneInv'
  BY <1>1 DEF Guard
<1>2. ASSUME NEW u \in Upload, Open(u) PROVE DoneInv'
  BY <1>2 DEF Open
<1>3. ASSUME NEW u \in Upload, Hold(u) PROVE DoneInv'
  BY <1>3 DEF Hold
<1>4. ASSUME NEW u \in Upload, Flush(u) PROVE DoneInv'
  BY <1>4 DEF Flush
<1>5. ASSUME NEW u \in Upload, Verify(u) PROVE DoneInv'
  BY <1>5 DEF Verify, Pass
<1>6. ASSUME NEW u \in Upload, Flow(u) PROVE DoneInv'
  BY <1>6 DEF Flow, Pass
<1>7. ASSUME NEW u \in Upload, End(u) PROVE DoneInv'
  BY <1>7 DEF End
<1>8. ASSUME NEW u \in Upload, Break(u) PROVE DoneInv'
  BY <1>8 DEF Break
<1>9. ASSUME NEW u \in Upload, Create(u) PROVE DoneInv'
  BY <1>9 DEF Create
<1>10. ASSUME NEW u \in Upload, Record(u) PROVE DoneInv'
  BY <1>10 DEF Record
<1>11. ASSUME NEW u \in Upload, Reject(u) PROVE DoneInv'
  BY <1>11 DEF Reject
<1>12. ASSUME NEW u \in Upload, Discard(u) PROVE DoneInv'
  BY <1>12 DEF Discard
<1>13. ASSUME NEW u \in Upload, KeepGarbage(u) PROVE DoneInv'
  BY <1>13 DEF KeepGarbage
<1>14. CASE Crash
  BY <1>14 DEF Crash
<1>15. CASE ChangePlan
  BY <1>15 DEF ChangePlan
<1>16. CASE NextMonth
  BY <1>16 DEF NextMonth
<1>17. CASE UNCHANGED vars
  BY <1>17 DEF vars
<1>18. QED
  BY <1>1, <1>2, <1>3, <1>4, <1>5, <1>6, <1>7, <1>8, <1>9, <1>10,
     <1>11, <1>12, <1>13, <1>14, <1>15, <1>16, <1>17
  DEF Next, UploadStep

LEMMA OrphansStep == TypeOK /\ DoneInv /\ OrphansAreUnderWay /\ [Next]_vars => OrphansAreUnderWay'
<1> SUFFICES ASSUME TypeOK, DoneInv, OrphansAreUnderWay, [Next]_vars PROVE OrphansAreUnderWay'
  OBVIOUS
<1> USE DEF TypeOK, DoneInv, OrphansAreUnderWay, Goto
<1>1. ASSUME NEW u \in Upload, Guard(u) PROVE OrphansAreUnderWay'
  BY <1>1 DEF Guard
<1>2. ASSUME NEW u \in Upload, Open(u) PROVE OrphansAreUnderWay'
  BY <1>2 DEF Open
<1>3. ASSUME NEW u \in Upload, Hold(u) PROVE OrphansAreUnderWay'
  BY <1>3 DEF Hold
<1>4. ASSUME NEW u \in Upload, Flush(u) PROVE OrphansAreUnderWay'
  BY <1>4 DEF Flush
<1>5. ASSUME NEW u \in Upload, Verify(u) PROVE OrphansAreUnderWay'
  BY <1>5 DEF Verify, Pass
<1>6. ASSUME NEW u \in Upload, Flow(u) PROVE OrphansAreUnderWay'
  BY <1>6 DEF Flow, Pass
<1>7. ASSUME NEW u \in Upload, End(u) PROVE OrphansAreUnderWay'
  BY <1>7 DEF End
<1>8. ASSUME NEW u \in Upload, Break(u) PROVE OrphansAreUnderWay'
  BY <1>8 DEF Break
<1>9. ASSUME NEW u \in Upload, Create(u) PROVE OrphansAreUnderWay'
  BY <1>9 DEF Create
<1>10. ASSUME NEW u \in Upload, Record(u) PROVE OrphansAreUnderWay'
  BY <1>10 DEF Record
<1>11. ASSUME NEW u \in Upload, Reject(u) PROVE OrphansAreUnderWay'
  BY <1>11 DEF Reject
<1>12. ASSUME NEW u \in Upload, Discard(u) PROVE OrphansAreUnderWay'
  BY <1>12 DEF Discard
<1>13. ASSUME NEW u \in Upload, KeepGarbage(u) PROVE OrphansAreUnderWay'
  BY <1>13 DEF KeepGarbage
<1>14. CASE Crash
  BY <1>14 DEF Crash
<1>15. CASE ChangePlan
  BY <1>15 DEF ChangePlan
<1>16. CASE NextMonth
  BY <1>16 DEF NextMonth
<1>17. CASE UNCHANGED vars
  BY <1>17 DEF vars
<1>18. QED
  BY <1>1, <1>2, <1>3, <1>4, <1>5, <1>6, <1>7, <1>8, <1>9, <1>10,
     <1>11, <1>12, <1>13, <1>14, <1>15, <1>16, <1>17
  DEF Next, UploadStep

(* What no row refers to is on the support only while its deposit lasts.   *)
THEOREM NoOrphans == Spec => []OrphansAreUnderWay
<1>1. Init => OrphansAreUnderWay
  BY DEF Init, OrphansAreUnderWay
<1>2. QED
  BY <1>1, OrphansStep, DoneInit, DoneStep, TypeCorrect, PTL DEF Spec
=============================================================================
