------------------------------ MODULE Sessions ------------------------------
(***************************************************************************)
(* The sessions of one account: refresh tokens that are exchanged once     *)
(* each and descend from one login (a family), access tokens that expire   *)
(* by themselves, and the list of those refused before that.  Requests     *)
(* interleave at each await; the purge of tokens is a process of its own.  *)
(* A request issues at most one pair of tokens, which bears its name.      *)
(***************************************************************************)
EXTENDS Naturals

CONSTANTS
    Request,       \* logins, refreshes and logouts
    None,          \* no token
    RefreshTtl,    \* REFRESH_TOKEN_TTL_DAYS
    AccessTtl,     \* ACCESS_TOKEN_TTL
    MaxTime,       \* bound: the clock stops here
    MaxFaults      \* bound: database or process failures

ASSUME SessionsAssumption ==
    /\ None \notin Request
    /\ RefreshTtl \in Nat \ {0} /\ AccessTtl \in Nat \ {0}
    /\ MaxTime \in Nat /\ MaxFaults \in Nat

VARIABLES
    rows,        \* table refresh_tokens
    revoked,     \* those whose revoked_at is not null
    family,      \* family_id of each, named after the login that opened it
    expires,     \* expires_at of each refresh token
    accessEnd,   \* exp of each access token
    denied,      \* table revoked_access_tokens
    now,
    pc,          \* where each request stands
    using,       \* the refresh token a request presents
    access,      \* the access token a logout found valid
    faults,
    given,       \* history: pairs of tokens the client was given
    closed,      \* history: access tokens a logout put on the list
    forked,      \* history: families a token of which two refreshes read
                 \* before either had retired it
    crossed      \* history: crossed[f] are the refreshes under way in family f, past
                 \* the reading of their token, when it was last cut off; all
                 \* requests until it is

tokens == <<rows, revoked, family, expires, accessEnd>>
hist   == <<given, closed, forked, crossed>>
vars   == <<rows, revoked, family, expires, accessEnd, denied, now, pc, using, access,
            faults, given, closed, forked, crossed>>

Label == {"idle", "breach", "issue", "retire", "find", "cut", "deny",
          "loggedOut", "done", "aborted"}

Goto(r, label) == pc' = [pc EXCEPT ![r] = label]

Init ==
    /\ rows = {} /\ revoked = {} /\ denied = {}
    /\ family = [r \in Request |-> None]
    /\ expires = [r \in Request |-> 0]
    /\ accessEnd = [r \in Request |-> 0]
    /\ now = 0
    /\ pc = [r \in Request |-> "idle"]
    /\ using = [r \in Request |-> None]
    /\ access = [r \in Request |-> None]
    /\ faults = 0
    /\ given = {} /\ closed = {} /\ forked = {} /\ crossed = [f \in Request |-> Request]

-----------------------------------------------------------------------------
(* issueAccessToken and issueRefreshToken: one signature, one row.         *)
IssuePair(r, f) ==
    /\ rows' = rows \cup {r}
    /\ family' = [family EXCEPT ![r] = f]
    /\ expires' = [expires EXCEPT ![r] = now + RefreshTtl]
    /\ accessEnd' = [accessEnd EXCEPT ![r] = now + AccessTtl]
    /\ UNCHANGED revoked

(* These families are cut off.                                             *)
CutOff(F) ==
    crossed' = [f \in Request |->
                  IF f \in F THEN {q \in Request : pc[q] = "issue" /\ family[using[q]] = f}
                  ELSE crossed[f]]

(* revokeFamily: UPDATE ... WHERE family_id = f AND revoked_at IS NULL.    *)
RevokeFamily(f) ==
    /\ revoked' = revoked \cup {t \in rows : family[t] = f}
    /\ CutOff({f})
    /\ UNCHANGED <<rows, family, expires, accessEnd>>

(* verifyAccessToken: signature and expiry, then the list.                 *)
Accepts(a) == now < accessEnd[a] /\ a \notin denied

(* openSession, at the end of a login: a new family.                       *)
OpenSession(r) ==
    /\ pc[r] = "idle"
    /\ IssuePair(r, r)
    /\ given' = given \cup {r}
    /\ Goto(r, "done")
    /\ UNCHANGED <<denied, now, using, access, faults, closed, forked, crossed>>

-----------------------------------------------------------------------------
(* rotate.                                                                 *)

(* Mutant: the revocation of the token not looked at.                      *)
ReadRevokedToo(r) ==
    /\ pc[r] = "idle"
    /\ \E t \in given :
         /\ using' = [using EXCEPT ![r] = t]
         /\ Goto(r, IF t \notin rows \/ expires[t] <= now THEN "done" ELSE "issue")
    /\ UNCHANGED <<tokens, denied, now, access, faults, hist>>

(* The token presented: unknown, already exchanged or cut off, out of      *)
(* date, or good.  A client presents any token it was given, the latest or *)
(* an older one.                                                           *)
ReadToken(r) ==
    /\ pc[r] = "idle"
    /\ \E t \in given :
         /\ using' = [using EXCEPT ![r] = t]
         /\ \/ t \in revoked /\ Goto(r, "breach") /\ UNCHANGED forked
            \/ /\ t \notin rows \/ (t \notin revoked /\ expires[t] <= now)
               /\ Goto(r, "done") /\ UNCHANGED forked
            \/ /\ t \in rows \ revoked /\ expires[t] > now
               /\ Goto(r, "issue")
               /\ forked' = IF \E q \in Request : using[q] = t /\ pc[q] \in {"issue", "retire"}
                            THEN forked \cup {family[t]} ELSE forked
    /\ UNCHANGED <<tokens, denied, now, access, faults, given, closed, crossed>>

(* A token already consumed: the whole family goes.                        *)
Breach(r) ==
    /\ pc[r] = "breach"
    /\ RevokeFamily(family[using[r]])
    /\ Goto(r, "done")
    /\ UNCHANGED <<denied, now, using, access, faults, given, closed, forked>>

Issue(r) ==
    /\ pc[r] = "issue"
    /\ IssuePair(r, family[using[r]])
    /\ Goto(r, "retire")
    /\ UNCHANGED <<denied, now, using, access, faults, hist>>

(* Mutant: the old token left as it is.                                    *)
RetireNothing(r) ==
    /\ pc[r] = "retire"
    /\ given' = given \cup {r}
    /\ Goto(r, "done")
    /\ UNCHANGED <<tokens, denied, now, using, access, faults, closed, forked, crossed>>

(* The old token is revoked, by its id and whatever became of it since it  *)
(* was read; the update throws if the purge has deleted it.                *)
Retire(r) ==
    /\ pc[r] = "retire"
    /\ IF using[r] \in rows
       THEN /\ revoked' = revoked \cup {using[r]}
            /\ given' = given \cup {r}
            /\ Goto(r, "done")
       ELSE Goto(r, "aborted") /\ UNCHANGED <<revoked, given>>
    /\ UNCHANGED <<rows, family, expires, accessEnd, denied, now, using, access, faults,
                   closed, forked, crossed>>

-----------------------------------------------------------------------------
(* logout and closeSession.                                                *)

(* readAccessPayload: the access token counts only if it is still good.    *)
LogoutRead(r) ==
    /\ pc[r] = "idle"
    /\ \E t \in given \cup {None}, a \in given \cup {None} :
         /\ using' = [using EXCEPT ![r] = t]
         /\ access' = [access EXCEPT ![r] = IF a # None /\ Accepts(a) THEN a ELSE None]
         /\ Goto(r, IF t = None THEN "deny" ELSE "find")
    /\ UNCHANGED <<tokens, denied, now, faults, hist>>

LogoutFind(r) ==
    /\ pc[r] = "find"
    /\ Goto(r, IF using[r] \in rows THEN "cut" ELSE "deny")
    /\ UNCHANGED <<tokens, denied, now, using, access, faults, hist>>

(* Mutant: the presented token only.                                       *)
LogoutCutOne(r) ==
    /\ pc[r] = "cut"
    /\ revoked' = revoked \cup ({using[r]} \cap rows)
    /\ CutOff({family[using[r]]})
    /\ Goto(r, "deny")
    /\ UNCHANGED <<rows, family, expires, accessEnd, denied, now, using, access, faults, given,
                   closed, forked>>

LogoutCut(r) ==
    /\ pc[r] = "cut"
    /\ RevokeFamily(family[using[r]])
    /\ Goto(r, "deny")
    /\ UNCHANGED <<denied, now, using, access, faults, given, closed, forked>>

(* revokeAccessToken, if there is one: an upsert.                          *)
LogoutDeny(r) ==
    /\ pc[r] = "deny"
    /\ denied' = denied \cup ({access[r]} \ {None})
    /\ closed' = closed \cup ({access[r]} \ {None})
    /\ Goto(r, "loggedOut")
    /\ UNCHANGED <<tokens, now, using, access, faults, given, forked, crossed>>

-----------------------------------------------------------------------------
(* An administrator revokes every session of the account.                  *)
RevokeSessions ==
    /\ revoked' = rows
    /\ CutOff({f \in Request : family[f] = f})
    /\ UNCHANGED <<rows, family, expires, accessEnd, denied, now, pc, using, access, faults,
                   given, closed, forked>>

(* purgeExpired: two deletes that run at the same time.                    *)
PurgeRefreshTokens ==
    /\ rows' = {t \in rows : expires[t] >= now}
    /\ revoked' = revoked \cap rows'
    /\ UNCHANGED <<family, expires, accessEnd, denied, now, pc, using, access, faults, hist>>

(* Mutant: a token about to expire is purged as well.                      *)
PurgeDeniedEarly ==
    /\ denied' = {a \in denied : accessEnd[a] > now + 1}
    /\ UNCHANGED <<tokens, now, pc, using, access, faults, hist>>

PurgeDenied ==
    /\ denied' = {a \in denied : accessEnd[a] >= now}
    /\ UNCHANGED <<tokens, now, pc, using, access, faults, hist>>

(* The database refuses, or the process stops.                             *)
Fault(r) ==
    /\ faults < MaxFaults
    /\ pc[r] \notin {"idle", "loggedOut", "done", "aborted"}
    /\ faults' = faults + 1
    /\ Goto(r, "aborted")
    /\ UNCHANGED <<tokens, denied, now, using, access, hist>>

Tick ==
    /\ now < MaxTime
    /\ now' = now + 1
    /\ UNCHANGED <<tokens, denied, pc, using, access, faults, hist>>

Next ==
    \/ \E r \in Request :
         \/ OpenSession(r)
         \/ ReadToken(r) \/ Breach(r) \/ Issue(r) \/ Retire(r)
         \/ LogoutRead(r) \/ LogoutFind(r) \/ LogoutCut(r) \/ LogoutDeny(r)
         \/ Fault(r)
    \/ RevokeSessions \/ PurgeRefreshTokens \/ PurgeDenied \/ Tick

Spec == Init /\ [][Next]_vars

-----------------------------------------------------------------------------
(* The tables and their columns; each variable has its type.               *)
TypeOK ==
    /\ rows \subseteq Request /\ revoked \subseteq rows
    /\ family \in [Request -> Request \cup {None}]
    /\ expires \in [Request -> Nat] /\ accessEnd \in [Request -> Nat]
    /\ denied \subseteq Request /\ now \in Nat
    /\ pc \in [Request -> Label]
    /\ using \in [Request -> Request \cup {None}]
    /\ access \in [Request -> Request \cup {None}]
    /\ faults \in Nat
    /\ given \subseteq Request /\ closed \subseteq Request /\ forked \subseteq Request
    /\ crossed \in [Request -> SUBSET Request]

(* An access token put on the list by a logout is never accepted again,    *)
(* although the purge forgets it: the purge and the verification agree on  *)
(* when a token has expired (purgeExpired, verifyAccessToken).             *)
LoggedOutAccessRefused == \A a \in closed : ~Accepts(a)

Live(f) == {t \in rows \ revoked : family[t] = f}

(* A family holds at most one live token that a client was given, however  *)
(* rotations, replays, failures and logouts interleave, as long as no two  *)
(* refreshes read the same token before either retired it (rotate).        *)
OneLiveToken ==
    \A f \in Request \ forked : \A t, u \in given \cap Live(f) : t = u

(* Once a family has no live token, and no rotation that read one is still *)
(* under way, nothing the clients present revives it: neither a replay nor *)
(* a refresh (rotate after closeSession, revokeSessions, a breach).        *)
Extinct(f) ==
    /\ family[f] = f
    /\ Live(f) = {}
    /\ \A r \in Request : pc[r] = "issue" => family[using[r]] # f

ExtinctForGood == [][\A f \in Request : Extinct(f) => Extinct(f)']_vars

(* The requests of C, and those that presented a token of one of them, and *)
(* so on.                                                                  *)
Line(C) ==
    {r \in Request :
       \A S \in SUBSET Request :
          (C \subseteq S /\ \A q \in Request : using[q] \in S => q \in S) => r \in S}

(* A family that was cut off, by a logout, a replay or an administrator,   *)
(* lives on only through a refresh that crossed the cut, having read its   *)
(* token before it and inserting the next one after: every live token      *)
(* descends from such a refresh, whatever is presented, replayed or purged *)
(* since.  That one may survive the logout is what the code leaves open    *)
(* (closeSession, revokeFamily, rotate).                                   *)
SurvivorsCrossed == \A f \in Request : Live(f) \subseteq Line(crossed[f])
=============================================================================
