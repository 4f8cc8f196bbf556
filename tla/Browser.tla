------------------------------- MODULE Browser ------------------------------
(***************************************************************************)
(* The web client's session: one browser, its two cookies, and the tabs    *)
(* that call the service through request() in api.ts.  A call refused with *)
(* 401 exchanges the refresh token, once for all the calls of its tab that *)
(* wait for it, and is sent again, once.  The service is module Sessions,  *)
(* whose steps are taken as they are; here are what the tabs send, what    *)
(* travels, and what is lost on the way.                                   *)
(*                                                                         *)
(* The tabs share the cookies and nothing else.  A cookie is attached when *)
(* a request leaves and set when an answer arrives.                        *)
(***************************************************************************)
EXTENDS Sessions, FiniteSets

CONSTANTS
    Tab,
    Call,          \* calls made through request()
    Placements,    \* which tab makes each call, and of what kind each is
    Login, Refresh, Logout,  \* the requests to /api/auth, by route; each a set of numbers
    MaxLost        \* bound: answers that never arrive, and requests that fail

(* What a call asks for: something that needs a session; a change of the   *)
(* second factor, with a session and a wrong password; a verification,     *)
(* with a wrong code and no session.  The last two are refused with 401 by *)
(* the handler itself.                                                     *)
Kind == {"plain", "password", "code"}

ASSUME BrowserAssumption ==
    /\ Placements \subseteq [tab : [Call -> Tab], kind : [Call -> Kind]]
    /\ Request = Login \cup Refresh \cup Logout /\ Request \subseteq Nat
    /\ Login \cap (Refresh \cup Logout) = {} /\ Refresh \cap Logout = {}
    /\ MaxLost \in Nat

VARIABLES
    tabOf, kind,   \* the tab that makes each call, and its kind; never change
    jar,           \* the cookies: access and refresh token, None when there is none
    wire,          \* a request to /api/auth: unused, sent, at the service, answered
    carried,       \* the cookies it carries
    flight,        \* refreshInFlight of each tab
    call, held,    \* where a call stands; the access token it carries
    again,         \* calls sent a second time
    runs,          \* runs[c]: how often the handler of c ran
    lost,
    excused,       \* history: families a refresh of which lost its answer, or was
                   \* sent by two tabs at once
    parting        \* history: families a logout of which crossed a refresh, or was lost

service == vars
client  == <<tabOf, kind, flight, call, held, again, runs>>
excuses == <<excused, parting>>
all     == <<service, jar, wire, carried, tabOf, kind, flight, call, held, again, runs, lost,
             excused, parting>>

NoCookies == [access |-> None, refresh |-> None]
Cookies   == [access : Request \cup {None}, refresh : Request \cup {None}]

BrowserInit ==
    /\ Init
    /\ \E p \in Placements : tabOf = p.tab /\ kind = p.kind
    /\ jar = NoCookies
    /\ wire = [r \in Request |-> "unused"]
    /\ carried = [r \in Request |-> NoCookies]
    /\ flight = [t \in Tab |-> None]
    /\ call = [c \in Call |-> "idle"] /\ held = [c \in Call |-> None]
    /\ again = {} /\ runs = [c \in Call |-> 0]
    /\ lost = 0 /\ excused = {} /\ parting = {}

Travels(r, stage) == wire' = [wire EXCEPT ![r] = stage]

(* The next request to a route, and the cookies it leaves with.            *)
Next1(S) == {r \in S : wire[r] = "unused" /\ \A q \in S : wire[q] = "unused" => r <= q}

Leaves(r) ==
    /\ Travels(r, "sent")
    /\ carried' = [carried EXCEPT ![r] = jar]

FamilyOf(t) == IF t = None THEN None ELSE family[t]

(* The refreshes that carry a token and are not answered yet.              *)
Underway(t) == {r \in Refresh : carried[r].refresh = t /\ wire[r] \in {"sent", "served"}}

-----------------------------------------------------------------------------
(* What the tabs do.                                                       *)

(* A call leaves with the access cookie of the moment.                     *)
Send(c) ==
    /\ call[c] = "idle"
    /\ call' = [call EXCEPT ![c] = "sent"]
    /\ held' = [held EXCEPT ![c] = jar.access]
    /\ UNCHANGED <<service, jar, wire, carried, tabOf, kind, flight, again, runs, lost, excuses>>

Over(c, outcome) ==
    /\ call' = [call EXCEPT ![c] = outcome]
    /\ held' = [held EXCEPT ![c] = None]

Admitted(c) == held[c] # None /\ Accepts(held[c])

(* The handler runs: its route asks for no session, or JwtAuthGuard let    *)
(* the call in.                                                            *)
Reaches(c) == kind[c] = "code" \/ Admitted(c)

(* A 401 is a 401 to request(), of the guard or of the handler.            *)
Serve(c) ==
    /\ call[c] = "sent"
    /\ Over(c, IF Reaches(c) /\ kind[c] = "plain" THEN "ok" ELSE "refused")
    /\ runs' = IF Reaches(c) THEN [runs EXCEPT ![c] = @ + 1] ELSE runs
    /\ UNCHANGED <<service, jar, wire, carried, tabOf, kind, flight, again, lost, excuses>>

(* Mutant: each refused call starts a refresh of its own.                  *)
JoinsNone(t) == FALSE

(* tryRefresh: a refresh of the tab is under way, and is shared.           *)
Joins(t) == flight[t] # None

(* Mutant: the second sending may be followed by a refresh and a third.    *)
RefusedAnyTime(c) ==
    /\ call[c] = "refused"
    /\ call' = [call EXCEPT ![c] = "waiting"]
    /\ \/ Joins(tabOf[c]) /\ UNCHANGED <<wire, carried, flight>>
       \/ /\ ~Joins(tabOf[c])
          /\ \E r \in Next1(Refresh) : Leaves(r) /\ flight' = [flight EXCEPT ![tabOf[c]] = r]
    /\ UNCHANGED <<service, jar, tabOf, kind, held, again, runs, lost, excuses>>

(* request(): the answer is 401.  The first time, wait for a refresh, one  *)
(* already under way in the tab or a new one; the second time, fail.       *)
Refused(c) ==
    /\ call[c] = "refused"
    /\ \/ /\ c \in again
          /\ call' = [call EXCEPT ![c] = "failed"]
          /\ UNCHANGED <<wire, carried, flight, excuses>>
       \/ /\ c \notin again /\ Joins(tabOf[c])
          /\ call' = [call EXCEPT ![c] = "waiting"]
          /\ UNCHANGED <<wire, carried, flight, excuses>>
       \/ /\ c \notin again /\ ~Joins(tabOf[c])
          /\ \E r \in Next1(Refresh) :
               /\ Leaves(r)
               /\ flight' = [flight EXCEPT ![tabOf[c]] = r]
          /\ call' = [call EXCEPT ![c] = "waiting"]
          /\ excused' = IF \E t \in Tab \ {tabOf[c]}, q \in Underway(jar.refresh) : flight[t] = q
                        THEN excused \cup {FamilyOf(jar.refresh)} ELSE excused
          /\ parting' = parting \cup
               {FamilyOf(carried[q].refresh) :
                  q \in {q \in Logout : wire[q] \in {"sent", "served"}}}
    /\ UNCHANGED <<service, jar, tabOf, kind, held, again, runs, lost>>

(* A login (its form is served whatever the cookies), or a logout: what    *)
(* leaves now crosses the refreshes that are not back.                     *)
SendAuth ==
    /\ \E r \in Next1(Login) \cup Next1(Logout) :
         /\ Leaves(r)
         /\ parting' = IF r \in Logout
                       THEN parting \cup {FamilyOf(carried[q].refresh) :
                                            q \in {q \in Refresh : wire[q] \in {"sent", "served"}}}
                       ELSE parting
    /\ UNCHANGED <<service, jar, client, lost, excused>>

-----------------------------------------------------------------------------
(* The service, on what it receives.                                       *)

(* auth.controller.ts: without its cookie a refresh is refused at once.    *)
Arrive(r) ==
    /\ wire[r] = "sent"
    /\ Travels(r, "served")
    /\ \/ r \in Login /\ OpenSession(r)
       \/ r \in Refresh /\ carried[r].refresh = None /\ UNCHANGED service
       \/ r \in Refresh /\ ReadToken(r) /\ using'[r] = carried[r].refresh
       \/ /\ r \in Logout /\ LogoutRead(r)
          /\ using'[r] = carried[r].refresh
          /\ access'[r] = IF carried[r].access # None /\ Accepts(carried[r].access)
                          THEN carried[r].access ELSE None
    /\ UNCHANGED <<jar, carried, client, lost, excuses>>

ServiceStep(r) ==
    Breach(r) \/ Issue(r) \/ Retire(r) \/ LogoutFind(r) \/ LogoutCut(r) \/ LogoutDeny(r)

Serves(r) ==
    /\ \/ ServiceStep(r) /\ UNCHANGED lost
       \/ Fault(r) /\ lost < MaxLost /\ lost' = lost + 1
    /\ UNCHANGED <<jar, wire, carried, client, excuses>>

Background ==
    /\ RevokeSessions \/ PurgeRefreshTokens \/ PurgeDenied \/ Tick
    /\ UNCHANGED <<jar, wire, carried, client, lost, excuses>>

-----------------------------------------------------------------------------
(* The answers.                                                            *)

Answered(r) ==
    /\ wire[r] = "served"
    /\ pc[r] \in {"done", "aborted", "loggedOut"} \/ (r \in Refresh /\ carried[r].refresh = None)

(* Mutant: a refused exchange leaves the cookies, a closed session too.    *)
SetsCookiesOnly(r) == IF r \in given THEN [access |-> r, refresh |-> r] ELSE jar

(* setSessionCookies with a new pair; clearSessionCookies after a refused  *)
(* token or a logout; neither for an error, nor for want of a cookie.      *)
Cookie(r) ==
    IF r \in given THEN [access |-> r, refresh |-> r]
    ELSE IF pc[r] \in {"done", "loggedOut"} THEN NoCookies
    ELSE jar

Waiting(r) == {c \in Call : call[c] = "waiting" /\ flight[tabOf[c]] = r}

(* Mutant: the calls that waited are left waiting when the exchange fails. *)
ResumeHappy(r, ok, cookies) ==
    /\ call' = [c \in Call |-> IF c \in Waiting(r) /\ ok THEN "sent" ELSE call[c]]
    /\ held' = [c \in Call |-> IF c \in Waiting(r) /\ ok THEN cookies.access ELSE held[c]]
    /\ again' = again \cup Waiting(r)
    /\ flight' = [t \in Tab |-> IF flight[t] = r THEN None ELSE flight[t]]

(* The refresh of a tab is over: every call that waited for it is sent     *)
(* again with the cookies there are now, or fails.                         *)
Resume(r, ok, cookies) ==
    /\ call' = [c \in Call |-> IF c \notin Waiting(r) THEN call[c]
                               ELSE IF ok THEN "sent" ELSE "failed"]
    /\ held' = [c \in Call |-> IF c \in Waiting(r) /\ ok THEN cookies.access ELSE held[c]]
    /\ again' = again \cup Waiting(r)
    /\ flight' = [t \in Tab |-> IF flight[t] = r THEN None ELSE flight[t]]

Forget(r) ==
    /\ Travels(r, "answered")
    /\ carried' = IF r \in Logout THEN carried ELSE [carried EXCEPT ![r] = NoCookies]

Deliver(r) ==
    /\ Answered(r)
    /\ Forget(r)
    /\ jar' = Cookie(r)
    /\ Resume(r, r \in given, Cookie(r))
    /\ UNCHANGED <<service, tabOf, kind, runs, lost, excuses>>

(* The answer, or the request itself, never arrives: fetch throws.         *)
Lose(r) ==
    /\ lost < MaxLost
    /\ \/ wire[r] = "sent" /\ excused' = excused
       \/ Answered(r) /\ excused' = IF r \in given THEN excused \cup {family[r]} ELSE excused
    /\ lost' = lost + 1
    /\ Forget(r)
    /\ parting' = IF r \in Logout THEN parting \cup {FamilyOf(carried[r].refresh)} ELSE parting
    /\ Resume(r, FALSE, jar)
    /\ UNCHANGED <<service, jar, tabOf, kind, runs>>

(* Mutant: a call whose answer is lost is sent again.                      *)
LoseCallRetried(c) ==
    /\ lost < MaxLost /\ call[c] = "sent"
    /\ lost' = lost + 1
    /\ again' = again \cup {c}
    /\ call' = [call EXCEPT ![c] = IF c \in again THEN "failed" ELSE "sent"]
    /\ \/ UNCHANGED runs
       \/ Reaches(c) /\ runs' = [runs EXCEPT ![c] = @ + 1]
    /\ UNCHANGED <<service, jar, wire, carried, tabOf, kind, flight, held, excuses>>

(* The call is lost on its way, or its answer is.                          *)
LoseCall(c) ==
    /\ lost < MaxLost /\ call[c] = "sent"
    /\ lost' = lost + 1
    /\ Over(c, "failed")
    /\ \/ UNCHANGED runs
       \/ Reaches(c) /\ runs' = [runs EXCEPT ![c] = @ + 1]
    /\ UNCHANGED <<service, jar, wire, carried, tabOf, kind, flight, again, excuses>>

BrowserNext ==
    \/ \E c \in Call : Send(c) \/ Serve(c) \/ Refused(c) \/ LoseCall(c)
    \/ SendAuth
    \/ \E r \in Request : Arrive(r) \/ Serves(r) \/ Deliver(r) \/ Lose(r)
    \/ Background

(* The service answers what it receives, and the network carries it or     *)
(* not: as long as there is some of that to do, some of it is done.        *)
CallStep(c) == Serve(c) \/ Refused(c)
AuthStep(r) == Arrive(r) \/ (ServiceStep(r) /\ Serves(r)) \/ Deliver(r)

BrowserSpec ==
    /\ BrowserInit /\ [][BrowserNext]_all
    /\ WF_all((\E c \in Call : CallStep(c)) \/ \E r \in Refresh : AuthStep(r))

-----------------------------------------------------------------------------
BrowserTypeOK ==
    /\ TypeOK
    /\ jar \in Cookies /\ carried \in [Request -> Cookies]
    /\ wire \in [Request -> {"unused", "sent", "served", "answered"}]
    /\ tabOf \in [Call -> Tab] /\ kind \in [Call -> Kind]
    /\ flight \in [Tab -> Refresh \cup {None}]
    /\ call \in [Call -> {"idle", "sent", "refused", "waiting", "ok", "failed"}]
    /\ held \in [Call -> Request \cup {None}]
    /\ again \subseteq Call /\ runs \in [Call -> 0..2]
    /\ lost \in 0..MaxLost
    /\ excused \subseteq Request \cup {None} /\ parting \subseteq Request \cup {None}

Exchanged(t) == \E q \in given : using[q] = t

(* The detection of replays never strikes a client that behaves: it cuts a *)
(* family off for a token already exchanged only if the answer of the      *)
(* exchange was lost, or two tabs exchanged the same token at once.        *)
NoFalseAlarm ==
    \A r \in Request :
       pc[r] = "breach" /\ Exchanged(using[r]) => family[using[r]] \in excused

(* A handler that does its work does it once, however answers are lost and *)
(* refreshes end.  One that refuses by itself, a wrong code or password,   *)
(* is taken for an expired session: it may run a second time, never a      *)
(* third, and only once the tokens were exchanged, so that one mistake of  *)
(* the person counts for two tries at most.                                *)
RunsOnce ==
    \A c \in Call :
       /\ runs[c] <= 2
       /\ runs[c] = 2 => kind[c] # "plain" /\ c \in again /\ Refresh \cap given # {}

(* Once a logout is answered, neither cookie belongs to the session it     *)
(* closed, and none comes back, unless a refresh crossed it: the answer    *)
(* that arrives last decides what the browser holds.                       *)
LogoutEmptiesJar ==
    \A r \in Logout :
       wire[r] = "answered" /\ pc[r] = "loggedOut" /\ carried[r].refresh # None
          => \/ family[carried[r].refresh] \in parting
             \/ \A t \in {jar.access, jar.refresh} \ {None} :
                   family[t] # family[carried[r].refresh]

(* No call waits forever: a refresh that succeeds, is refused, fails or is *)
(* lost wakes all the calls that share it, and none is sent a third time.  *)
CallsSettle ==
    <>[](\A c \in Call : call[c] \in {"idle", "ok", "failed"})
=============================================================================
