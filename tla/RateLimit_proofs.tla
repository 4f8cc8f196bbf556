-------------------------- MODULE RateLimit_proofs --------------------------
(***************************************************************************)
(* Proofs about RateLimit, for any routes, addresses, limits and windows,  *)
(* however long the process runs and however often it starts again.        *)
(***************************************************************************)
EXTENDS RateLimit, TLAPS

(* A window that opens now ends later, and not after its length.           *)
LEMMA WindowEndType ==
  ASSUME TypeOK, NEW k \in Key
  PROVE  /\ WindowEnd(k) \in Nat /\ WindowEnd(k) = now + Window[k[1]]
         /\ Window[k[1]] \in Nat \ {0} /\ Limit[k[1]] \in Nat \ {0}
BY RateLimitAssumption DEF TypeOK, WindowEnd, Time, Key

LEMMA SweptType ==
  ASSUME TypeOK
  PROVE  Swept \subseteq Key
BY DEF TypeOK, Swept

LEMMA LetThroughType ==
  ASSUME TypeOK, NEW k \in Key, LetThrough(k)
  PROVE  passed' \in [Key -> [Edge -> Nat]] /\ told' \in [Key -> Nat]
<1>1. passed[k] \in [Edge -> Nat] /\ now + 1 \in Edge
  BY RateLimitAssumption DEF TypeOK, Time, Edge
<1>2. passed[k][now + 1] + 1 \in Nat
  BY <1>1
<1>3. [passed[k] EXCEPT ![now + 1] = passed[k][now + 1] + 1] \in [Edge -> Nat]
  BY <1>1, <1>2
<1>4. QED
  BY <1>3 DEF LetThrough, TypeOK

LEMMA TypeInit == Init => TypeOK
<1>1. ASSUME NEW k \in Key PROVE Window[k[1]] \in Nat
  BY RateLimitAssumption DEF Key
<1>2. QED
  BY <1>1, RateLimitAssumption DEF Init, TypeOK, Time

LEMMA TypeStep == TypeOK /\ [Next]_vars => TypeOK'
<1> SUFFICES ASSUME TypeOK, [Next]_vars PROVE TypeOK'
  OBVIOUS
<1>1. ASSUME NEW k \in Key, Attempt(k) PROVE TypeOK'
  <2> DEFINE Opens == /\ attempts' = [attempts EXCEPT ![k] = 1]
                      /\ resetAt' = [resetAt EXCEPT ![k] = WindowEnd(k)]
                      /\ LetThrough(k)
             Counts == /\ attempts[k] < MaxAttempts
                       /\ attempts' = [attempts EXCEPT ![k] = @ + 1]
                       /\ WindowStays(k)
                       /\ IF Within(k) THEN LetThrough(k) ELSE Refuse(k)
  <2>1. now' = now /\ live' \subseteq Key
    BY <1>1, SweptType DEF Attempt
  <2>2. lastCleanup' \in 0..now
    BY <1>1 DEF Attempt, TypeOK, Time
  <2>3. CASE Opens
    <3>1. passed' \in [Key -> [Edge -> Nat]] /\ told' \in [Key -> Nat]
      BY <2>3, LetThroughType
    <3>2. attempts' \in [Key -> 0..(MaxAttempts + 1)]
      BY <2>3, RateLimitAssumption DEF TypeOK
    <3>3. resetAt' \in [Key -> Nat] /\ \A j \in Key : resetAt'[j] <= now + Window[j[1]]
      BY <2>3, WindowEndType DEF TypeOK
    <3>4. QED
      BY <2>1, <2>2, <3>1, <3>2, <3>3 DEF TypeOK
  <2>4. CASE Counts
    <3>1. passed' \in [Key -> [Edge -> Nat]] /\ told' \in [Key -> Nat]
      BY <2>4, LetThroughType DEF Refuse, TypeOK
    <3>2. attempts' \in [Key -> 0..(MaxAttempts + 1)]
      BY <2>4, RateLimitAssumption DEF TypeOK
    <3>3. QED
      BY <2>1, <2>2, <2>4, <3>1, <3>2 DEF TypeOK, WindowStays
  <2>5. QED
    BY <1>1, <2>3, <2>4 DEF Attempt
<1>2. CASE Restart
  <2>1. ASSUME NEW k \in Key PROVE 0 <= now + Window[k[1]]
    BY RateLimitAssumption DEF Key, TypeOK, Time
  <2>2. QED
    BY <1>2, <2>1, RateLimitAssumption DEF Restart, TypeOK, Time
<1>3. CASE Tick
  <2>1. ASSUME NEW k \in Key PROVE resetAt[k] <= now + 1 + Window[k[1]]
    BY RateLimitAssumption DEF Key, TypeOK, Time
  <2>2. passed' \in [Key -> [Edge -> Nat]]
    <3>1. now + 1 \in Edge /\ now + 2 \in Edge
      BY <1>3, RateLimitAssumption DEF Tick, TypeOK, Time, Edge
    <3>2. ASSUME NEW k \in Key
          PROVE  [passed[k] EXCEPT ![now + 2] = passed[k][now + 1]] \in [Edge -> Nat]
      BY <3>1 DEF TypeOK
    <3>3. QED
      BY <1>3, <3>2 DEF Tick
  <2>3. QED
    BY <1>3, <2>1, <2>2, RateLimitAssumption DEF Tick, TypeOK, Time
<1>4. CASE UNCHANGED vars
  BY <1>4 DEF vars, TypeOK
<1>5. QED
  BY <1>1, <1>2, <1>3, <1>4 DEF Next

(* The counters, windows and history keep their types: no attempt leaves a *)
(* window that ends later than its length from now.                        *)
THEOREM TypeCorrect == Spec => []TypeOK
BY TypeInit, TypeStep, PTL DEF Spec

LEMMA RetryStep == TypeOK /\ RetryAfterHolds /\ [Next]_vars => RetryAfterHolds'
<1> SUFFICES ASSUME TypeOK, RetryAfterHolds, [Next]_vars, NEW j \in Key, told'[j] # 0
             PROVE  resetAt'[j] <= told'[j]
  BY DEF RetryAfterHolds
<1> USE DEF RetryAfterHolds, TypeOK
<1>1. ASSUME NEW k \in Key, Attempt(k) PROVE resetAt'[j] <= told'[j]
  <2>1. CASE j = k
    <3>1. ~LetThrough(k)
      BY <2>1 DEF LetThrough
    <3>2. WindowStays(k) /\ Refuse(k)
      BY <1>1, <3>1 DEF Attempt
    <3>3. QED
      BY <2>1, <3>2 DEF WindowStays, Refuse
  <2>2. CASE j # k
    BY <1>1, <2>2 DEF Attempt, LetThrough, Refuse, WindowStays
  <2>3. QED
    BY <2>1, <2>2
<1>2. CASE Restart
  BY <1>2 DEF Restart
<1>3. CASE Tick
  BY <1>3 DEF Tick
<1>4. CASE UNCHANGED vars
  BY <1>4 DEF vars
<1>5. QED
  BY <1>1, <1>2, <1>3, <1>4 DEF Next

(* A refusal never lasts beyond the first Retry-After: only an attempt let *)
(* through opens a window, so the window of those refused does not move    *)
(* (canActivate).                                                          *)
THEOREM RetryAfter == Spec => []RetryAfterHolds
<1>1. Init => RetryAfterHolds
  BY DEF Init, RetryAfterHolds
<1>2. QED
  BY <1>1, TypeInit, TypeStep, RetryStep, PTL DEF Spec

-----------------------------------------------------------------------------
(* A counter whose window is open is in the map; no attempt is let through *)
(* between two windows.  The last window began with an attempt let         *)
(* through, has let no more through than it has counted, nor than the      *)
(* limit, and a stretch as long as a window that ends where it began       *)
(* holds fewer than the limit: it misses the beginning of the one before.  *)
Opened(k) == resetAt[k] - Window[k[1]]

GrowsInv == \A k \in Key : \A t, u \in 0..(now + 1) : t <= u => passed[k][t] <= passed[k][u]

LiveInv == \A k \in Key : resetAt[k] > now => k \in live

ClosedInv ==
    \A k \in Key : /\ resetAt[k] <= now => passed[k][now + 1] = passed[k][now]
                   /\ resetAt[k] = 0 => passed[k][now + 1] = 0

OpenInv ==
    \A k \in Key : resetAt[k] # 0 =>
       /\ Opened(k) \in 0..now
       /\ passed[k][Opened(k)] < passed[k][Opened(k) + 1]
       /\ passed[k][now + 1] - passed[k][Opened(k)] <= attempts[k]
       /\ passed[k][now + 1] - passed[k][Opened(k)] <= Limit[k[1]]
       /\ \A t \in 0..Opened(k) :
             Opened(k) < t + Window[k[1]] => passed[k][Opened(k)] - passed[k][t] < Limit[k[1]]

WindowInv == GrowsInv /\ LiveInv /\ ClosedInv /\ OpenInv

LEMMA Numbers ==
  ASSUME TypeOK, NEW k \in Key
  PROVE  /\ now \in Nat /\ now + 1 \in Edge
         /\ \A t \in 0..(now + 1) : t \in Edge /\ passed[k][t] \in Nat
         /\ attempts[k] \in Nat /\ resetAt[k] \in Nat
         /\ Window[k[1]] \in Nat \ {0} /\ Limit[k[1]] \in Nat \ {0}
<1>1. now \in Nat /\ now + 1 \in Edge /\ \A t \in 0..(now + 1) : t \in Edge
  BY RateLimitAssumption DEF TypeOK, Time, Edge
<1>2. \A t \in 0..(now + 1) : passed[k][t] \in Nat
  BY <1>1 DEF TypeOK
<1>3. attempts[k] \in Nat /\ resetAt[k] \in Nat
  BY RateLimitAssumption DEF TypeOK
<1>4. QED
  BY <1>1, <1>2, <1>3, WindowEndType

LEMMA WindowInit == Init => WindowInv
<1> SUFFICES ASSUME Init PROVE WindowInv
  OBVIOUS
<1>1. now = 0 /\ 0 \in Edge /\ 1 \in Edge
  BY RateLimitAssumption DEF Init, Edge
<1>2. \A k \in Key : resetAt[k] = 0 /\ \A t \in 0..(now + 1) : passed[k][t] = 0
  BY <1>1 DEF Init
<1>3. QED
  BY <1>1, <1>2 DEF WindowInv, GrowsInv, LiveInv, ClosedInv, OpenInv

(* The key of the attempt: a window opens.                                 *)
LEMMA WindowOpens ==
  ASSUME TypeOK, WindowInv, NEW k \in Key, resetAt[k] <= now,
         attempts' = [attempts EXCEPT ![k] = 1],
         resetAt' = [resetAt EXCEPT ![k] = WindowEnd(k)],
         passed' = [passed EXCEPT ![k][now + 1] = @ + 1], now' = now
  PROVE  /\ \A t, u \in 0..(now + 1) : t <= u => passed'[k][t] <= passed'[k][u]
         /\ resetAt'[k] > now
         /\ Opened(k)' = now
         /\ passed'[k][now] < passed'[k][now + 1]
         /\ passed'[k][now + 1] - passed'[k][now] <= attempts'[k]
         /\ passed'[k][now + 1] - passed'[k][now] <= Limit[k[1]]
         /\ \A t \in 0..now :
               now < t + Window[k[1]] => passed'[k][now] - passed'[k][t] < Limit[k[1]]
<1> DEFINE P == passed[k]
           N == passed[k][now + 1]
           W == Window[k[1]]
           L == Limit[k[1]]
<1>1. /\ now \in Nat /\ now + 1 \in Edge
      /\ \A t \in 0..(now + 1) : t \in Edge /\ P[t] \in Nat
      /\ W \in Nat \ {0} /\ L \in Nat \ {0} /\ resetAt[k] \in Nat
  BY Numbers
<1>2. /\ passed'[k][now + 1] = N + 1
      /\ \A t \in 0..now : passed'[k][t] = P[t]
      /\ resetAt'[k] = now + W /\ attempts'[k] = 1
  <2>1. passed'[k] = [P EXCEPT ![now + 1] = N + 1]
    BY DEF TypeOK
  <2>2. P \in [Edge -> Nat]
    BY DEF TypeOK
  <2>3. \A t \in 0..now : t \in Edge /\ t # now + 1
    BY <1>1
  <2>4. QED
    BY <1>1, <2>1, <2>2, <2>3, WindowEndType DEF TypeOK
<1>3. \A t, u \in 0..(now + 1) : t <= u => P[t] <= P[u]
  BY DEF WindowInv, GrowsInv
<1>4. N = P[now]
  BY DEF WindowInv, ClosedInv
<1>5. ASSUME NEW t \in 0..now, now < t + W PROVE P[now] - P[t] < L
  <2>1. CASE resetAt[k] = 0
    <3>1. N = 0
      BY <2>1 DEF WindowInv, ClosedInv
    <3>2. P[t] \in Nat /\ P[now] = 0
      BY <1>1, <1>4, <3>1
    <3>3. QED
      BY <1>1, <3>2
  <2>2. CASE resetAt[k] # 0
    <3> DEFINE s == Opened(k)
    <3>1. s \in 0..now /\ P[s] < P[s + 1] /\ N - P[s] <= L
      BY <2>2 DEF WindowInv, OpenInv
    <3>2. s = resetAt[k] - W
      BY DEF Opened
    <3> HIDE DEF s
    <3>3. s + 1 <= t
      BY <1>1, <1>5, <3>1, <3>2
    <3>4. P[s + 1] <= P[t]
      BY <1>1, <1>3, <3>1, <3>3
    <3>5. P[s] \in Nat /\ P[s + 1] \in Nat /\ P[t] \in Nat /\ P[now] \in Nat
      BY <1>1, <3>1
    <3>6. QED
      BY <1>1, <1>4, <3>1, <3>4, <3>5
  <2>3. QED
    BY <2>1, <2>2
<1>6. \A t, u \in 0..(now + 1) : t <= u => passed'[k][t] <= passed'[k][u]
  <2>1. SUFFICES ASSUME NEW t \in 0..(now + 1), NEW u \in 0..(now + 1), t <= u
                 PROVE  passed'[k][t] <= passed'[k][u]
    OBVIOUS
  <2>2. P[t] \in Nat /\ P[u] \in Nat /\ N \in Nat /\ P[t] <= P[u] /\ P[t] <= N
    BY <1>1, <1>3, <2>1
  <2>3. CASE u = now + 1
    BY <1>1, <1>2, <2>1, <2>2, <2>3
  <2>4. CASE u # now + 1
    BY <1>1, <1>2, <2>1, <2>2, <2>4
  <2>5. QED
    BY <2>3, <2>4
<1>7. Opened(k)' = now /\ resetAt'[k] > now
  <2>1. Opened(k)' = resetAt'[k] - W
    BY DEF Opened
  <2>2. QED
    BY <1>1, <1>2, <2>1
<1>8. now \in 0..now /\ P[now] \in Nat
  BY <1>1
<1>9. passed'[k][now] = P[now] /\ passed'[k][now + 1] = P[now] + 1
  BY <1>2, <1>4, <1>8
<1>10. QED
  BY <1>1, <1>2, <1>5, <1>6, <1>7, <1>8, <1>9

(* The key of the attempt: one more in the window there is.                *)
LEMMA WindowGoesOn ==
  ASSUME TypeOK, WindowInv, NEW k \in Key, resetAt[k] > now,
         attempts' = [attempts EXCEPT ![k] = @ + 1], WindowStays(k), now' = now,
         \/ Within(k) /\ passed' = [passed EXCEPT ![k][now + 1] = @ + 1]
         \/ passed' = passed
  PROVE  /\ \A t, u \in 0..(now + 1) : t <= u => passed'[k][t] <= passed'[k][u]
         /\ resetAt'[k] = resetAt[k] /\ Opened(k)' = Opened(k)
         /\ Opened(k) \in 0..now
         /\ passed'[k][Opened(k)] < passed'[k][Opened(k) + 1]
         /\ passed'[k][now + 1] - passed'[k][Opened(k)] <= attempts'[k]
         /\ passed'[k][now + 1] - passed'[k][Opened(k)] <= Limit[k[1]]
         /\ \A t \in 0..Opened(k) :
               Opened(k) < t + Window[k[1]]
                 => passed'[k][Opened(k)] - passed'[k][t] < Limit[k[1]]
<1> DEFINE P == passed[k]
           N == passed[k][now + 1]
           W == Window[k[1]]
           L == Limit[k[1]]
           s == Opened(k)
<1>1. /\ now \in Nat /\ now + 1 \in Edge
      /\ \A t \in 0..(now + 1) : t \in Edge /\ P[t] \in Nat
      /\ W \in Nat \ {0} /\ L \in Nat \ {0} /\ resetAt[k] \in Nat /\ attempts[k] \in Nat
  BY Numbers
<1>2. resetAt'[k] = resetAt[k] /\ Opened(k)' = s /\ attempts'[k] = attempts[k] + 1
  BY DEF WindowStays, Opened, TypeOK
<1>3. \A t, u \in 0..(now + 1) : t <= u => P[t] <= P[u]
  BY DEF WindowInv, GrowsInv
<1>4. /\ s \in 0..now /\ P[s] < P[s + 1] /\ N - P[s] <= attempts[k] /\ N - P[s] <= L
      /\ \A t \in 0..s : s < t + W => P[s] - P[t] < L
  BY <1>1 DEF WindowInv, OpenInv
<1>5. CASE passed' = passed
  <2>1. N - P[s] <= attempts[k] + 1
    BY <1>1, <1>4
  <2>2. QED
    BY <1>2, <1>3, <1>4, <1>5, <2>1
<1>6. CASE Within(k) /\ passed' = [passed EXCEPT ![k][now + 1] = @ + 1]
  <2>1. passed'[k][now + 1] = N + 1 /\ \A t \in 0..now : passed'[k][t] = P[t]
    <3>1. passed'[k] = [P EXCEPT ![now + 1] = N + 1]
      BY <1>6 DEF TypeOK
    <3>2. P \in [Edge -> Nat]
      BY DEF TypeOK
    <3>3. \A t \in 0..now : t \in Edge /\ t # now + 1
      BY <1>1
    <3>4. QED
      BY <1>1, <3>1, <3>2, <3>3
  <2>2. attempts[k] + 1 <= L
    BY <1>6 DEF Within
  <2> HIDE DEF s
  <2>3. \A t, u \in 0..(now + 1) : t <= u => passed'[k][t] <= passed'[k][u]
    <3>1. SUFFICES ASSUME NEW t \in 0..(now + 1), NEW u \in 0..(now + 1), t <= u
                   PROVE  passed'[k][t] <= passed'[k][u]
      OBVIOUS
    <3>2. P[t] \in Nat /\ P[u] \in Nat /\ N \in Nat /\ P[t] <= P[u] /\ P[t] <= N
      BY <1>1, <1>3, <3>1
    <3>3. CASE u = now + 1
      BY <1>1, <2>1, <3>1, <3>2, <3>3
    <3>4. CASE u # now + 1
      BY <1>1, <2>1, <3>1, <3>2, <3>4
    <3>5. QED
      BY <3>3, <3>4
  <2>4. s + 1 \in 0..(now + 1) /\ P[s] \in Nat /\ P[s + 1] \in Nat /\ N \in Nat
    BY <1>1, <1>4
  <2>5. passed'[k][s] = P[s] /\ \A t \in 0..s : passed'[k][t] = P[t]
    BY <1>1, <1>4, <2>1
  <2>6. P[s + 1] <= passed'[k][s + 1]
    BY <1>1, <1>4, <2>1, <2>4
  <2>7. passed'[k][s + 1] \in Nat
    BY <1>1, <1>4, <2>1, <2>4
  <2>8. passed'[k][s] < passed'[k][s + 1]
    BY <1>4, <2>4, <2>5, <2>6, <2>7
  <2>9. /\ passed'[k][now + 1] - passed'[k][s] <= attempts[k] + 1
        /\ passed'[k][now + 1] - passed'[k][s] <= L
    BY <1>1, <1>4, <2>1, <2>2, <2>4, <2>5
  <2>10. \A t \in 0..s : s < t + W => passed'[k][s] - passed'[k][t] < L
    BY <1>4, <2>5
  <2> USE DEF s
  <2>11. QED
    BY <1>2, <1>4, <2>3, <2>8, <2>9, <2>10
<1>7. QED
  BY <1>5, <1>6

LEMMA WindowStep == TypeOK /\ WindowInv /\ [Next]_vars => WindowInv'
<1> SUFFICES ASSUME TypeOK, WindowInv, [Next]_vars PROVE WindowInv'
  OBVIOUS
<1>1. ASSUME NEW k \in Key, Attempt(k) PROVE WindowInv'
  <2> DEFINE Opens == /\ attempts' = [attempts EXCEPT ![k] = 1]
                      /\ resetAt' = [resetAt EXCEPT ![k] = WindowEnd(k)]
                      /\ LetThrough(k)
             Counts == /\ attempts' = [attempts EXCEPT ![k] = @ + 1]
                       /\ WindowStays(k)
                       /\ IF Within(k) THEN LetThrough(k) ELSE Refuse(k)
  <2>1. /\ live' = Swept \cup {k} /\ now' = now
        /\ \/ (k \notin Swept \/ resetAt[k] <= now) /\ Opens
           \/ k \in Swept /\ resetAt[k] > now /\ Counts
    BY <1>1 DEF Attempt
  <2>2. now \in Nat /\ \A j \in Key : resetAt[j] \in Nat
    BY Numbers DEF TypeOK, Time
  <2>3. \A j \in Key : resetAt[j] > now => j \in Swept
    BY <2>2 DEF Swept, WindowInv, LiveInv
  <2>4. \A j \in Key \ {k} : /\ passed'[j] = passed[j] /\ resetAt'[j] = resetAt[j]
                             /\ attempts'[j] = attempts[j] /\ Opened(j)' = Opened(j)
    BY <2>1 DEF LetThrough, Refuse, WindowStays, Opened, TypeOK
  <2>5. LiveInv'
    BY <2>1, <2>3, <2>4 DEF LiveInv
  <2>6. CASE Opens /\ (k \notin Swept \/ resetAt[k] <= now)
    <3>1. resetAt[k] <= now
      BY <2>2, <2>3, <2>6
    <3>2. /\ \A t, u \in 0..(now + 1) : t <= u => passed'[k][t] <= passed'[k][u]
          /\ resetAt'[k] > now
          /\ Opened(k)' = now
          /\ passed'[k][now] < passed'[k][now + 1]
          /\ passed'[k][now + 1] - passed'[k][now] <= attempts'[k]
          /\ passed'[k][now + 1] - passed'[k][now] <= Limit[k[1]]
          /\ \A t \in 0..now :
                now < t + Window[k[1]] => passed'[k][now] - passed'[k][t] < Limit[k[1]]
      BY <2>1, <2>6, <3>1, WindowOpens DEF LetThrough
    <3>3. GrowsInv'
      BY <2>1, <2>4, <3>2 DEF WindowInv, GrowsInv
    <3>4. ClosedInv'
      <4>1. resetAt'[k] = now + Window[k[1]] /\ Window[k[1]] \in Nat \ {0}
        BY <2>6, WindowEndType DEF TypeOK
      <4>2. ~(resetAt'[k] <= now) /\ resetAt'[k] # 0
        BY <2>2, <4>1
      <4>3. QED
        BY <2>1, <2>4, <4>2 DEF WindowInv, ClosedInv
    <3>5. OpenInv'
      <4>1. now \in 0..now
        BY <2>2
      <4>2. QED
        BY <2>1, <2>4, <3>2, <4>1 DEF WindowInv, OpenInv
    <3>6. QED
      BY <2>5, <3>3, <3>4, <3>5 DEF WindowInv
  <2>7. CASE Counts /\ resetAt[k] > now
    <3>1. /\ \A t, u \in 0..(now + 1) : t <= u => passed'[k][t] <= passed'[k][u]
          /\ resetAt'[k] = resetAt[k] /\ Opened(k)' = Opened(k)
          /\ Opened(k) \in 0..now
          /\ passed'[k][Opened(k)] < passed'[k][Opened(k) + 1]
          /\ passed'[k][now + 1] - passed'[k][Opened(k)] <= attempts'[k]
          /\ passed'[k][now + 1] - passed'[k][Opened(k)] <= Limit[k[1]]
          /\ \A t \in 0..Opened(k) :
                Opened(k) < t + Window[k[1]]
                  => passed'[k][Opened(k)] - passed'[k][t] < Limit[k[1]]
      BY <2>1, <2>7, WindowGoesOn DEF LetThrough, Refuse
    <3>2. GrowsInv'
      BY <2>1, <2>4, <3>1 DEF WindowInv, GrowsInv
    <3>3. ClosedInv'
      <4>1. ~(resetAt'[k] <= now) /\ resetAt'[k] # 0
        BY <2>2, <2>7, <3>1
      <4>2. QED
        BY <2>1, <2>4, <4>1 DEF WindowInv, ClosedInv
    <3>4. OpenInv'
      BY <2>1, <2>4, <3>1 DEF WindowInv, OpenInv
    <3>5. QED
      BY <2>5, <3>2, <3>3, <3>4 DEF WindowInv
  <2>8. QED
    BY <2>1, <2>6, <2>7
<1>2. CASE Restart
  <2>1. now' = now /\ \A t \in 0..(now + 1) : t \in Edge
    BY <1>2, RateLimitAssumption DEF Restart, TypeOK, Time, Edge
  <2>2. now \in Nat
    BY DEF TypeOK, Time
  <2>3. \A k \in Key : resetAt'[k] = 0 /\ \A t \in 0..(now + 1) : passed'[k][t] = 0
    BY <1>2, <2>1 DEF Restart
  <2>4. now \in 0..(now + 1) /\ now + 1 \in 0..(now + 1) /\ ~(0 > now)
    BY <2>2
  <2>5. GrowsInv' /\ LiveInv'
    BY <2>1, <2>3, <2>4 DEF GrowsInv, LiveInv
  <2>6. ClosedInv' /\ OpenInv'
    BY <2>1, <2>3, <2>4 DEF ClosedInv, OpenInv
  <2>7. QED
    BY <2>5, <2>6 DEF WindowInv
<1>3. CASE Tick
  <2>1. /\ now' = now + 1 /\ now \in Nat /\ now + 1 \in Edge /\ now + 2 \in Edge
        /\ UNCHANGED <<live, attempts, resetAt>>
    BY <1>3, RateLimitAssumption DEF Tick, TypeOK, Time, Edge
  <2>2. ASSUME NEW k \in Key
        PROVE  /\ passed'[k][now + 2] = passed[k][now + 1]
               /\ \A t \in 0..(now + 1) : passed'[k][t] = passed[k][t]
               /\ Opened(k)' = Opened(k)
    <3>1. passed'[k] = [passed[k] EXCEPT ![now + 2] = passed[k][now + 1]]
      BY <1>3 DEF Tick
    <3>2. passed[k] \in [Edge -> Nat]
      BY DEF TypeOK
    <3>3. \A t \in 0..(now + 1) : t \in Edge /\ t # now + 2
      BY <2>1, Numbers
    <3>4. QED
      BY <2>1, <3>1, <3>2, <3>3 DEF Opened
  <2>3. GrowsInv'
    <3>1. SUFFICES ASSUME NEW k \in Key, NEW t \in 0..(now + 2), NEW u \in 0..(now + 2), t <= u
                   PROVE  passed'[k][t] <= passed'[k][u]
      BY <2>1 DEF GrowsInv
    <3>2. \A x, y \in 0..(now + 1) : x <= y => passed[k][x] <= passed[k][y]
      BY DEF WindowInv, GrowsInv
    <3>3. \A x \in 0..(now + 1) : passed[k][x] \in Nat
      BY Numbers
    <3>4. CASE u # now + 2
      <4>1. t \in 0..(now + 1) /\ u \in 0..(now + 1)
        BY <2>1, <3>1, <3>4
      <4>2. QED
        BY <2>2, <3>1, <3>2, <4>1
    <3>5. CASE u = now + 2 /\ t # now + 2
      <4>1. t \in 0..(now + 1) /\ now + 1 \in 0..(now + 1) /\ t <= now + 1
        BY <2>1, <3>1, <3>5
      <4>2. QED
        BY <2>2, <3>2, <3>5, <4>1
    <3>6. CASE u = now + 2 /\ t = now + 2
      <4>1. passed'[k][now + 2] \in Nat
        BY <2>1, <2>2, <3>3
      <4>2. QED
        BY <3>6, <4>1
    <3>7. QED
      BY <3>4, <3>5, <3>6
  <2>4. LiveInv'
    <3>1. SUFFICES ASSUME NEW k \in Key, resetAt[k] > now + 1 PROVE k \in live
      BY <2>1 DEF LiveInv
    <3>2. resetAt[k] > now
      BY <2>1, <3>1, Numbers
    <3>3. QED
      BY <3>2 DEF WindowInv, LiveInv
  <2>5. now'  = now + 1 /\ now' + 1 = now + 2
    BY <2>1
  <2>6. ClosedInv'
    <3>1. SUFFICES ASSUME NEW k \in Key
                   PROVE  /\ passed'[k][now + 2] = passed'[k][now + 1]
                          /\ resetAt[k] = 0 => passed'[k][now + 2] = 0
      BY <2>1, <2>5 DEF ClosedInv
    <3>2. now + 1 \in 0..(now + 1)
      BY <2>1
    <3>3. QED
      BY <2>2, <3>2 DEF WindowInv, ClosedInv
  <2>7. OpenInv'
    <3>1. SUFFICES ASSUME NEW k \in Key, resetAt[k] # 0
                   PROVE  LET s == Opened(k) IN
                          /\ s \in 0..(now + 1)
                          /\ passed'[k][s] < passed'[k][s + 1]
                          /\ passed'[k][now + 2] - passed'[k][s] <= attempts[k]
                          /\ passed'[k][now + 2] - passed'[k][s] <= Limit[k[1]]
                          /\ \A t \in 0..s :
                                s < t + Window[k[1]]
                                  => passed'[k][s] - passed'[k][t] < Limit[k[1]]
      BY <2>1, <2>2, <2>5 DEF OpenInv
    <3> DEFINE s == Opened(k)
    <3>2. /\ s \in 0..now
          /\ passed[k][s] < passed[k][s + 1]
          /\ passed[k][now + 1] - passed[k][s] <= attempts[k]
          /\ passed[k][now + 1] - passed[k][s] <= Limit[k[1]]
          /\ \A t \in 0..s : s < t + Window[k[1]] => passed[k][s] - passed[k][t] < Limit[k[1]]
      BY <3>1 DEF WindowInv, OpenInv
    <3> HIDE DEF s
    <3>3. s \in 0..(now + 1) /\ s + 1 \in 0..(now + 1) /\ \A t \in 0..s : t \in 0..(now + 1)
      BY <2>1, <3>2
    <3>4. /\ passed'[k][s] = passed[k][s] /\ passed'[k][s + 1] = passed[k][s + 1]
          /\ \A t \in 0..s : passed'[k][t] = passed[k][t]
          /\ passed'[k][now + 2] = passed[k][now + 1]
      BY <2>2, <3>3
    <3>5. /\ s \in 0..(now + 1)
          /\ passed'[k][s] < passed'[k][s + 1]
          /\ passed'[k][now + 2] - passed'[k][s] <= attempts[k]
          /\ passed'[k][now + 2] - passed'[k][s] <= Limit[k[1]]
          /\ \A t \in 0..s : s < t + Window[k[1]] => passed'[k][s] - passed'[k][t] < Limit[k[1]]
      BY <3>2, <3>3, <3>4
    <3>6. QED
      BY <3>5 DEF s
  <2>8. QED
    BY <2>3, <2>4, <2>6, <2>7 DEF WindowInv
<1>4. CASE UNCHANGED vars
  BY <1>4 DEF vars, WindowInv, GrowsInv, LiveInv, ClosedInv, OpenInv, Opened
<1>5. QED
  BY <1>1, <1>2, <1>3, <1>4 DEF Next

(* A stretch that ends now meets two windows at most, and not the          *)
(* beginning of the first if it meets the second.                          *)
LEMMA StretchNow ==
  ASSUME TypeOK, WindowInv, NEW k \in Key, NEW from \in 0..now, now < from + Window[k[1]]
  PROVE  During(k, from, now) < 2 * Limit[k[1]]
<1> DEFINE P == passed[k]
           N == passed[k][now + 1]
           W == Window[k[1]]
           L == Limit[k[1]]
<1>1. /\ now \in Nat /\ \A t \in 0..(now + 1) : P[t] \in Nat
      /\ W \in Nat \ {0} /\ L \in Nat \ {0} /\ resetAt[k] \in Nat
  BY Numbers
<1>2. P[from] \in Nat /\ N \in Nat
  BY <1>1
<1>3. CASE resetAt[k] = 0
  BY <1>1, <1>2, <1>3 DEF WindowInv, ClosedInv, During
<1>4. CASE resetAt[k] # 0
  <2> DEFINE s == Opened(k)
  <2>1. /\ s \in 0..now /\ N - P[s] <= L
        /\ \A t \in 0..s : s < t + W => P[s] - P[t] < L
    BY <1>4 DEF WindowInv, OpenInv
  <2> HIDE DEF s
  <2>2. P[s] \in Nat
    BY <1>1, <2>1
  <2>3. CASE from <= s
    <3>1. from \in 0..s /\ s < from + W
      BY <1>1, <2>1, <2>3
    <3>2. P[s] - P[from] < L
      BY <2>1, <3>1
    <3>3. QED
      BY <1>1, <1>2, <2>1, <2>2, <3>2 DEF During
  <2>4. CASE s < from
    <3>1. P[s] <= P[from]
      BY <1>1, <2>1, <2>4 DEF WindowInv, GrowsInv
    <3>2. QED
      BY <1>1, <1>2, <2>1, <2>2, <3>1 DEF During
  <2>5. QED
    BY <1>1, <2>1, <2>3, <2>4
<1>5. QED
  BY <1>3, <1>4

(* The bound of a stretch that ends now, for every key and beginning.      *)
StretchInv ==
    \A k \in Key : \A from \in 0..now :
       now < from + Window[k[1]] => During(k, from, now) < 2 * Limit[k[1]]

LEMMA Stretches == TypeOK /\ WindowInv => StretchInv
BY StretchNow DEF StretchInv

(* A stretch that has ended keeps what it held, or is forgotten whole.     *)
LEMMA SlidingStep ==
  TypeOK /\ StretchInv' /\ SlidingBound /\ [Next]_vars => SlidingBound'
<1> SUFFICES ASSUME TypeOK, StretchInv', SlidingBound, [Next]_vars,
                    NEW k \in Key, NEW from \in 0..now', NEW to \in 0..now',
                    from <= to, to < from + Window[k[1]]
             PROVE  passed'[k][to + 1] - passed'[k][from] < 2 * Limit[k[1]]
  BY DEF SlidingBound, During
<1>1. CASE to = now'
  BY <1>1 DEF StretchInv, During
<1>2. CASE to # now'
  <2>1. /\ now \in Nat /\ now + 1 \in Edge
        /\ \A t \in 0..(now + 1) : t \in Edge /\ passed[k][t] \in Nat
        /\ Limit[k[1]] \in Nat \ {0}
    BY Numbers
  <2>2. ASSUME from \in 0..now, to \in 0..now,
               passed'[k][to + 1] = passed[k][to + 1], passed'[k][from] = passed[k][from]
        PROVE  passed'[k][to + 1] - passed'[k][from] < 2 * Limit[k[1]]
    BY <2>2 DEF SlidingBound, During
  <2>3. ASSUME NEW j \in Key, Attempt(j) PROVE passed'[k][to + 1] - passed'[k][from] < 2 * Limit[k[1]]
    <3>1. now' = now
      BY <2>3 DEF Attempt
    <3>2. from \in 0..now /\ to \in 0..now /\ to + 1 # now + 1 /\ from # now + 1
      BY <1>2, <2>1, <3>1
    <3>3. UNCHANGED passed \/ LetThrough(j)
      BY <2>3 DEF Attempt, Refuse
    <3>4. passed'[k][to + 1] = passed[k][to + 1] /\ passed'[k][from] = passed[k][from]
      <4>1. CASE LetThrough(j) /\ k # j
        <5>1. passed'[k] = passed[k]
          BY <4>1 DEF LetThrough, TypeOK
        <5>2. QED
          BY <5>1
      <4>2. CASE LetThrough(j) /\ k = j
        <5> DEFINE f == [passed[k] EXCEPT ![now + 1] = passed[k][now + 1] + 1]
        <5>1. passed'[k] = f
          BY <4>2 DEF LetThrough, TypeOK
        <5>2. to + 1 \in Edge /\ from \in Edge
          BY <2>1, <3>2
        <5>3. f[to + 1] = passed[k][to + 1] /\ f[from] = passed[k][from]
          BY <3>2, <5>2 DEF TypeOK
        <5>4. QED
          BY <5>1, <5>3
      <4>3. QED
        BY <3>3, <4>1, <4>2
    <3>5. QED
      BY <2>2, <3>2, <3>4
  <2>4. CASE Restart
    <3>1. from \in Edge /\ to + 1 \in Edge
      <4>1. from \in 0..(now + 1) /\ to + 1 \in 0..(now + 1)
        BY <2>1, <2>4 DEF Restart
      <4>2. QED
        BY <2>1, <4>1
    <3>2. passed'[k][to + 1] = 0 /\ passed'[k][from] = 0
      BY <2>4, <3>1 DEF Restart
    <3>3. QED
      BY <2>1, <3>2
  <2>5. CASE Tick
    <3>1. from \in 0..now /\ to \in 0..now /\ to + 1 # now + 2 /\ from # now + 2
      BY <1>2, <2>1, <2>5 DEF Tick
    <3>2. passed'[k] = [passed[k] EXCEPT ![now + 2] = passed[k][now + 1]]
      BY <2>5 DEF Tick
    <3>3. passed'[k][to + 1] = passed[k][to + 1] /\ passed'[k][from] = passed[k][from]
      BY <2>1, <3>1, <3>2 DEF TypeOK
    <3>4. QED
      BY <2>2, <3>1, <3>3
  <2>6. CASE UNCHANGED vars
    BY <2>2, <2>6 DEF vars
  <2>7. QED
    BY <2>3, <2>4, <2>5, <2>6 DEF Next
<1>3. QED
  BY <1>1, <1>2

(* However the windows fall and whatever the cleanup removes, an address   *)
(* never gets twice the limit through in a stretch as long as the window   *)
(* of its route, of the life of one process (canActivate, cleanupIfDue).   *)
THEOREM Sliding == Spec => []SlidingBound
<1>1. Init => SlidingBound
  BY RateLimitAssumption DEF Init, SlidingBound, During, Edge, Key
<1>2. TypeOK /\ WindowInv => StretchInv
  BY Stretches
<1>3. QED
  BY <1>1, <1>2, TypeInit, TypeStep, WindowInit, WindowStep, SlidingStep, PTL DEF Spec
=============================================================================
