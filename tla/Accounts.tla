------------------------------ MODULE Accounts ------------------------------
(***************************************************************************)
(* One account and the secrets it is sent by mail: links that confirm its  *)
(* address, and codes that complete a login when the second factor is on.  *)
(* Each table is written the same way: what is open is closed, then one    *)
(* row is created; it is read, checked, and written again later.  Requests *)
(* interleave at each await.  A request makes at most one secret or one    *)
(* session, which bears its name; a refusal is the absence of the step.    *)
(* The password, checked at an await of its own, decides only refusals.    *)
(***************************************************************************)
EXTENDS Naturals, FiniteSets

CONSTANTS
    Request,       \* registrations, logins, confirmations and verifications
    None,          \* no secret
    MaxTries,      \* ESSAIS_MAX
    LinkTtl,       \* VALIDITE_HEURES
    CodeTtl,       \* VALIDITE_MINUTES
    MaxTime,       \* bound: the clock stops here
    MaxFaults      \* bound: failures of the database, the mail or the process

ASSUME AccountsAssumption ==
    /\ None \notin Request
    /\ MaxTries \in Nat \ {0}
    /\ LinkTtl \in Nat \ {0} /\ CodeTtl \in Nat \ {0}
    /\ MaxTime \in Nat /\ MaxFaults \in Nat

VARIABLES
    account,       \* the row of users is there
    verified,      \* email_verified_at is not null
    mfa,           \* mfa_enabled
    links,         \* table email_verifications
    linksUsed,     \* those whose consumed_at is not null
    linkEnd,       \* expires_at of each
    codes,         \* table mfa_challenges
    codesUsed,     \* those whose consumed_at is not null
    codeEnd,       \* expires_at of each
    tries,         \* attempts of each
    sessions,      \* sessions opened
    mailed,        \* secrets that reached the mailbox
    known,         \* challenge ids given to a client
    now,
    pc,            \* where each request stands
    using,         \* the secret a request presents
    faults,
    peak,          \* history: verifications of a code under way at once, at most
    linkPeak,      \* history: the same of links about to be created
    codePeak       \* history: the same of codes about to be created

user  == <<account, verified, mfa>>
link  == <<links, linksUsed, linkEnd>>
code  == <<codes, codesUsed, codeEnd, tries>>
given == <<sessions, mailed, known>>
hist  == <<peak, linkPeak, codePeak>>
vars  == <<account, verified, mfa, links, linksUsed, linkEnd, codes, codesUsed, codeEnd,
           tries, sessions, mailed, known, now, pc, using, faults, peak, linkPeak, codePeak>>

Label == {"idle", "insert", "closeLinks", "createLink", "mailLink", "confirm",
          "closeCodes", "createCode", "mailCode", "count", "abandon", "use", "open",
          "done", "aborted"}

Goto(r, label) == pc' = [pc EXCEPT ![r] = label]

At(label) == {r \in Request : pc[r] = label}
Larger(m, n) == IF m < n THEN n ELSE m

(* Nobody has registered yet, or the account is confirmed.                 *)
Init ==
    /\ account \in BOOLEAN /\ verified = account
    /\ mfa \in {FALSE, account}
    /\ links = {} /\ linksUsed = {} /\ codes = {} /\ codesUsed = {}
    /\ linkEnd = [r \in Request |-> 0] /\ codeEnd = [r \in Request |-> 0]
    /\ tries = [r \in Request |-> 0]
    /\ sessions = {} /\ mailed = {} /\ known = {}
    /\ now = 0
    /\ pc = [r \in Request |-> "idle"]
    /\ using = [r \in Request |-> None]
    /\ faults = 0
    /\ peak = [r \in Request |-> 0] /\ linkPeak = 0 /\ codePeak = 0

-----------------------------------------------------------------------------
(* register.                                                               *)

RegisterCheck(r) ==
    /\ pc[r] = "idle"
    /\ ~account
    /\ Goto(r, "insert")
    /\ UNCHANGED <<user, link, code, given, now, using, faults, hist>>

(* The address is unique: of two registrations one creates the account.    *)
RegisterInsert(r) ==
    /\ pc[r] = "insert"
    /\ account' = TRUE
    /\ Goto(r, IF account THEN "aborted" ELSE "closeLinks")
    /\ UNCHANGED <<verified, mfa, link, code, given, now, using, faults, hist>>

-----------------------------------------------------------------------------
(* envoyerLien, for a registration or a new request of a link.             *)

ResendRead(r) ==
    /\ pc[r] = "idle"
    /\ account /\ ~verified
    /\ Goto(r, "closeLinks")
    /\ UNCHANGED <<user, link, code, given, now, using, faults, hist>>

(* Mutant: the links of before left open.                                  *)
CloseNoLink(r) ==
    /\ pc[r] = "closeLinks"
    /\ Goto(r, "createLink")
    /\ linkPeak' = Larger(linkPeak, Cardinality(At("createLink")) + 1)
    /\ UNCHANGED <<user, link, code, given, now, using, faults, peak, codePeak>>

CloseLinks(r) ==
    /\ pc[r] = "closeLinks"
    /\ linksUsed' = links
    /\ Goto(r, "createLink")
    /\ linkPeak' = Larger(linkPeak, Cardinality(At("createLink")) + 1)
    /\ UNCHANGED <<user, links, linkEnd, code, given, now, using, faults, peak, codePeak>>

CreateLink(r) ==
    /\ pc[r] = "createLink"
    /\ links' = links \cup {r}
    /\ linkEnd' = [linkEnd EXCEPT ![r] = now + LinkTtl]
    /\ Goto(r, "mailLink")
    /\ UNCHANGED <<user, linksUsed, code, given, now, using, faults, hist>>

MailLink(r) ==
    /\ pc[r] = "mailLink"
    /\ mailed' = mailed \cup {r}
    /\ Goto(r, "done")
    /\ UNCHANGED <<user, link, code, sessions, known, now, using, faults, hist>>

-----------------------------------------------------------------------------
(* confirmer.                                                              *)

ReadLink(r) ==
    /\ pc[r] = "idle"
    /\ \E t \in (mailed \cap links) \ linksUsed :
         /\ linkEnd[t] > now
         /\ using' = [using EXCEPT ![r] = t]
    /\ Goto(r, "confirm")
    /\ UNCHANGED <<user, link, code, given, now, faults, hist>>

(* Mutant: the transaction without its second update.                      *)
ConfirmLinkOnly(r) ==
    /\ pc[r] = "confirm"
    /\ linksUsed' = linksUsed \cup {using[r]}
    /\ Goto(r, "done")
    /\ UNCHANGED <<user, links, linkEnd, code, given, now, using, faults, hist>>

(* One transaction, by the ids read: whatever became of the link since.    *)
Confirm(r) ==
    /\ pc[r] = "confirm"
    /\ linksUsed' = linksUsed \cup {using[r]}
    /\ verified' = TRUE
    /\ Goto(r, "done")
    /\ UNCHANGED <<account, mfa, links, linkEnd, code, given, now, using, faults, hist>>

-----------------------------------------------------------------------------
(* login and emettre.                                                      *)

(* The row is read once; what it says of the second factor may be stale    *)
(* when the password has been checked.                                     *)
LoginRead(r) ==
    /\ pc[r] = "idle"
    /\ account /\ verified
    /\ Goto(r, IF mfa THEN "closeCodes" ELSE "open")
    /\ UNCHANGED <<user, link, code, given, now, using, faults, hist>>

(* Mutant: the codes of before left open.                                  *)
CloseNoCode(r) ==
    /\ pc[r] = "closeCodes"
    /\ Goto(r, "createCode")
    /\ codePeak' = Larger(codePeak, Cardinality(At("createCode")) + 1)
    /\ UNCHANGED <<user, link, code, given, now, using, faults, peak, linkPeak>>

CloseCodes(r) ==
    /\ pc[r] = "closeCodes"
    /\ codesUsed' = codes
    /\ Goto(r, "createCode")
    /\ codePeak' = Larger(codePeak, Cardinality(At("createCode")) + 1)
    /\ UNCHANGED <<user, link, codes, codeEnd, tries, given, now, using, faults, peak,
                   linkPeak>>

CreateCode(r) ==
    /\ pc[r] = "createCode"
    /\ codes' = codes \cup {r}
    /\ codeEnd' = [codeEnd EXCEPT ![r] = now + CodeTtl]
    /\ Goto(r, "mailCode")
    /\ UNCHANGED <<user, link, codesUsed, tries, given, now, using, faults, hist>>

(* The mail has gone: the client is told which challenge to answer.        *)
MailCode(r) ==
    /\ pc[r] = "mailCode"
    /\ mailed' = mailed \cup {r}
    /\ known' = known \cup {r}
    /\ Goto(r, "done")
    /\ UNCHANGED <<user, link, code, sessions, now, using, faults, hist>>

OpenSession(r) ==
    /\ pc[r] = "open"
    /\ sessions' = sessions \cup {r}
    /\ Goto(r, "done")
    /\ UNCHANGED <<user, link, code, mailed, known, now, using, faults, hist>>

-----------------------------------------------------------------------------
(* verifier.                                                               *)

Checking(c) == {r \in Request : using[r] = c /\ pc[r] \in {"count", "use"}}

Present(r, c) ==
    /\ using' = [using EXCEPT ![r] = c]
    /\ peak' = [peak EXCEPT ![c] = Larger(@, Cardinality(Checking(c)) + 1)]

(* Mutant: the attempts not looked at.                                     *)
ReadCodeUncounted(r) ==
    /\ pc[r] = "idle"
    /\ \E c \in (known \cap codes) \ codesUsed : codeEnd[c] > now /\ Present(r, c)
    /\ \E right \in BOOLEAN : Goto(r, IF right THEN "use" ELSE "count")
    /\ UNCHANGED <<user, link, code, given, now, faults, linkPeak, codePeak>>

(* The challenge is open, as read here; the code is right or wrong.        *)
ReadCode(r) ==
    /\ pc[r] = "idle"
    /\ \E c \in (known \cap codes) \ codesUsed :
         /\ tries[c] < MaxTries
         /\ codeEnd[c] > now
         /\ Present(r, c)
    /\ \E right \in BOOLEAN : Goto(r, IF right THEN "use" ELSE "count")
    /\ UNCHANGED <<user, link, code, given, now, faults, linkPeak, codePeak>>

(* One increment in the database, and what it returns.                     *)
CountTry(r) ==
    /\ pc[r] = "count"
    /\ tries' = [tries EXCEPT ![using[r]] = @ + 1]
    /\ Goto(r, IF tries[using[r]] + 1 >= MaxTries THEN "abandon" ELSE "done")
    /\ UNCHANGED <<user, link, codes, codesUsed, codeEnd, given, now, using, faults, hist>>

Abandon(r) ==
    /\ pc[r] = "abandon"
    /\ codesUsed' = codesUsed \cup {using[r]}
    /\ Goto(r, "done")
    /\ UNCHANGED <<user, link, codes, codeEnd, tries, given, now, using, faults, hist>>

(* Mutant: the challenge left open.                                        *)
UseCodeAgain(r) ==
    /\ pc[r] = "use"
    /\ Goto(r, "open")
    /\ UNCHANGED <<user, link, code, given, now, using, faults, hist>>

(* By its id, whatever became of the challenge since it was read.          *)
UseCode(r) ==
    /\ pc[r] = "use"
    /\ codesUsed' = codesUsed \cup {using[r]}
    /\ Goto(r, "open")
    /\ UNCHANGED <<user, link, codes, codeEnd, tries, given, now, using, faults, hist>>

-----------------------------------------------------------------------------
(* changerMfa, from a session.                                             *)
ChangeMfa ==
    /\ sessions # {}
    /\ mfa' \in BOOLEAN \ {mfa}
    /\ UNCHANGED <<account, verified, link, code, given, now, pc, using, faults, hist>>

(* The database or the mail service refuses, or the process stops; a mail  *)
(* whose answer came too late has gone all the same.                       *)
Fault(r) ==
    /\ faults < MaxFaults
    /\ pc[r] \notin {"idle", "done", "aborted"}
    /\ faults' = faults + 1
    /\ \/ UNCHANGED mailed
       \/ pc[r] \in {"mailLink", "mailCode"} /\ mailed' = mailed \cup {r}
    /\ Goto(r, "aborted")
    /\ UNCHANGED <<user, link, code, sessions, known, now, using, hist>>

Tick ==
    /\ now < MaxTime
    /\ now' = now + 1
    /\ UNCHANGED <<user, link, code, given, pc, using, faults, hist>>

Next ==
    \/ \E r \in Request :
         \/ RegisterCheck(r) \/ RegisterInsert(r)
         \/ ResendRead(r) \/ CloseLinks(r) \/ CreateLink(r) \/ MailLink(r)
         \/ ReadLink(r) \/ Confirm(r)
         \/ LoginRead(r) \/ CloseCodes(r) \/ CreateCode(r) \/ MailCode(r) \/ OpenSession(r)
         \/ ReadCode(r) \/ CountTry(r) \/ Abandon(r) \/ UseCode(r)
         \/ Fault(r)
    \/ ChangeMfa \/ Tick

Spec == Init /\ [][Next]_vars

-----------------------------------------------------------------------------
(* The tables with their keys; each variable has its type.                 *)
TypeOK ==
    /\ account \in BOOLEAN /\ verified \in BOOLEAN /\ mfa \in BOOLEAN
    /\ linksUsed \subseteq links /\ links \subseteq Request
    /\ codesUsed \subseteq codes /\ codes \subseteq Request
    /\ links \cap codes = {}
    /\ linkEnd \in [Request -> Nat] /\ codeEnd \in [Request -> Nat]
    /\ tries \in [Request -> Nat]
    /\ sessions \subseteq Request /\ mailed \subseteq links \cup codes
    /\ known \subseteq codes
    /\ now \in Nat /\ pc \in [Request -> Label]
    /\ using \in [Request -> Request \cup {None}]
    /\ \A r \in Request : /\ pc[r] \in {"count", "abandon", "use"} => using[r] \in codes
                          /\ pc[r] = "confirm" => using[r] \in links
    /\ faults \in Nat /\ peak \in [Request -> Nat] /\ linkPeak \in Nat /\ codePeak \in Nat

(* "Cinq essais, apres quoi le defi est clos": the attempts are read long  *)
(* before they are counted, so a challenge takes as many wrong codes as    *)
(* that, and one more for each verification that ran beside another, never *)
(* more (verifier).                                                        *)
TriesBounded ==
    \A c \in codes : tries[c] > 0 => tries[c] < MaxTries + peak[c]

OpenedBy(c) == {r \in sessions : using[r] = c}

(* A code opens one session, and one more for each verification that ran   *)
(* beside another: never one that began after a first had been accepted    *)
(* (verifier, ouvrirSessionApresMfa).                                      *)
SessionsBounded == \A c \in codes : Cardinality(OpenedBy(c)) <= peak[c]

(* A new login closes the codes of those before it: as many are open as    *)
(* logins were once between the closing and the creation, one when they    *)
(* follow one another (emettre).                                           *)
OpenCodesBounded == Cardinality(codes \ codesUsed) <= codePeak

(* "Un seul lien doit fonctionner a la fois": likewise (envoyerLien).      *)
OpenLinksBounded == Cardinality(links \ linksUsed) <= linkPeak

(* Someone who registered is never left without a link, however requests   *)
(* of new links and confirmations cross, unless one of them failed: a link *)
(* is closed only with the address confirmed or another on its way         *)
(* (register, envoyerLien, confirmer).                                     *)
Sending(r) == pc[r] \in {"closeLinks", "createLink", "mailLink"}

NotLockedOut ==
    (account /\ ~verified) =>
        \/ \E r \in Request : Sending(r)
        \/ \E t \in links \ linksUsed : t \in mailed
        \/ faults > 0
=============================================================================
