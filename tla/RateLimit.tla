------------------------------ MODULE RateLimit -----------------------------
(***************************************************************************)
(* The limiter of attempts: one counter in memory for each route and       *)
(* address, a window that opens with the first attempt, and a cleanup in   *)
(* passing.  The guard runs without an await, so an attempt is one step.   *)
(* Routes without a rule are never counted and are left out.               *)
(***************************************************************************)
EXTENDS Integers

CONSTANTS
    Route,         \* the routes that declare a rule
    Address,       \* what the service takes for the addresses of its clients
    Limit,         \* Limit[r]: attempts route r lets through in a window
    Window,        \* Window[r]: its length
    CleanupEvery,  \* CLEANUP_INTERVAL_MS
    MaxTime,       \* bound: the clock stops here
    MaxAttempts    \* bound: attempts counted in one window

ASSUME RateLimitAssumption ==
    /\ Limit \in [Route -> Nat \ {0}] /\ Window \in [Route -> Nat \ {0}]
    /\ CleanupEvery \in Nat \ {0} /\ MaxTime \in Nat /\ MaxAttempts \in Nat

VARIABLES
    now,
    live,          \* keys of the map of counters
    attempts, resetAt,
    lastCleanup,
    \* history, of this process
    passed,        \* passed[k][t]: attempts of k let through before t; up to now, for now + 1
    told           \* told[k]: when the client refused was first told to come back, or 0

vars == <<now, live, attempts, resetAt, lastCleanup, passed, told>>

Key == Route \X Address
Time == 0..MaxTime
Edge == 0..(MaxTime + 1)   \* the instants, and the end of the last

Init ==
    /\ now = 0 /\ live = {} /\ lastCleanup = 0
    /\ attempts = [k \in Key |-> 0] /\ resetAt = [k \in Key |-> 0]
    /\ passed = [k \in Key |-> [t \in Edge |-> 0]] /\ told = [k \in Key |-> 0]

-----------------------------------------------------------------------------
(* Mutant: a cleanup that empties the map.                                 *)
SweptClean == IF now - lastCleanup < CleanupEvery THEN live ELSE {}

(* cleanupIfDue: what is left of the map.                                  *)
Swept == IF now - lastCleanup < CleanupEvery THEN live ELSE {k \in live : resetAt[k] > now}

(* Where a window that opens now ends.                                     *)
WindowEnd(k) == now + Window[k[1]]

(* Mutant: the window opens again with each attempt.                       *)
WindowSlides(k) == resetAt' = [resetAt EXCEPT ![k] = WindowEnd(k)]

(* An attempt in an open window leaves its end where it is.                *)
WindowStays(k) == UNCHANGED resetAt

LetThrough(k) ==
    /\ passed' = [passed EXCEPT ![k][now + 1] = @ + 1]
    /\ told' = [told EXCEPT ![k] = 0]

Refuse(k) ==
    /\ told' = [told EXCEPT ![k] = IF @ = 0 THEN resetAt[k] ELSE @]
    /\ UNCHANGED passed

(* The attempt that has just been counted is within the limit.             *)
Within(k) == attempts[k] + 1 <= Limit[k[1]]

(* canActivate: the first attempt opens a window, and is let through; one  *)
(* more is counted, and let through up to the limit, or refused with the   *)
(* time left in Retry-After.                                               *)
Attempt(k) ==
    /\ live' = Swept \cup {k}
    /\ lastCleanup' = IF now - lastCleanup < CleanupEvery THEN lastCleanup ELSE now
    /\ \/ /\ k \notin Swept \/ resetAt[k] <= now
          /\ attempts' = [attempts EXCEPT ![k] = 1]
          /\ resetAt' = [resetAt EXCEPT ![k] = WindowEnd(k)]
          /\ LetThrough(k)
       \/ /\ k \in Swept /\ resetAt[k] > now
          /\ attempts[k] < MaxAttempts
          /\ attempts' = [attempts EXCEPT ![k] = @ + 1]
          /\ WindowStays(k)
          /\ IF Within(k) THEN LetThrough(k) ELSE Refuse(k)
    /\ UNCHANGED now

(* The counters are in memory: a new process starts without any.           *)
Restart ==
    /\ live' = {} /\ lastCleanup' = now
    /\ attempts' = [k \in Key |-> 0] /\ resetAt' = [k \in Key |-> 0]
    /\ passed' = [k \in Key |-> [t \in Edge |-> 0]] /\ told' = [k \in Key |-> 0]
    /\ UNCHANGED now

Tick ==
    /\ now < MaxTime
    /\ now' = now + 1
    /\ passed' = [k \in Key |-> [passed[k] EXCEPT ![now + 2] = passed[k][now + 1]]]
    /\ UNCHANGED <<live, attempts, resetAt, lastCleanup, told>>

Next == (\E k \in Key : Attempt(k)) \/ Restart \/ Tick

Spec == Init /\ [][Next]_vars

-----------------------------------------------------------------------------
TypeOK ==
    /\ now \in Time /\ lastCleanup \in 0..now
    /\ live \subseteq Key
    /\ attempts \in [Key -> 0..(MaxAttempts + 1)]
    /\ resetAt \in [Key -> Nat] /\ \A k \in Key : resetAt[k] <= now + Window[k[1]]
    /\ passed \in [Key -> [Edge -> Nat]] /\ told \in [Key -> Nat]

During(k, from, to) == passed[k][to + 1] - passed[k][from]

(* As long as the process lives, over any stretch as long as the window of *)
(* its route, an address gets fewer than twice the limit through, wherever *)
(* the windows fall and whatever the cleanup removes; the limit itself     *)
(* holds only inside one window.  A restart forgets what came before it:   *)
(* no stretch that crosses one is bounded, and none is counted here.       *)
SlidingBound ==
    \A k \in Key : \A from, to \in 0..now :
       from <= to /\ to < from + Window[k[1]] => During(k, from, to) < 2 * Limit[k[1]]

(* Insisting does not prolong a refusal: however often the client tries    *)
(* again, and whatever the cleanup does, the window that refused it has    *)
(* closed by the time it was first told in Retry-After.                    *)
RetryAfterHolds == \A k \in Key : told[k] # 0 => resetAt[k] <= told[k]
=============================================================================
