------------------------------ MODULE OwnerPage -----------------------------
(***************************************************************************)
(* The page of an account holder, file-transfer-app.tsx: what its handlers *)
(* do when a button is pressed, and what they do when the answer arrives,  *)
(* in whatever order the answers do.  Nothing ties an answer to the        *)
(* moment, the screen or the person it was asked for: a listing replaces   *)
(* the list even if it was read before a deletion the page has already     *)
(* been told of.                                                           *)
(*                                                                         *)
(* The service is reduced to what the page can tell: which files and links *)
(* there are, and whose.  Its own steps are the business of ShareLinks,    *)
(* Deposit and Sessions, and the exchange of tokens that of Browser.       *)
(* Quota, progress, messages and the administration screen are left out.   *)
(***************************************************************************)
EXTENDS Integers, FiniteSets

CONSTANTS
    Account, File, Link, None,
    Earlier,        \* who deposited which file on an earlier visit
    Slot,           \* bound: calls of the page under way at once
    MaxLost,        \* bound: calls whose answer never arrives
    MaxPresses      \* bound: what the person does, reloads included

ASSUME OwnerPageAssumption ==
    /\ None \notin Account \cup File \cup Link /\ File \cap Link = {}
    /\ IsFiniteSet(Link) /\ IsFiniteSet(Slot)
    /\ Earlier \in [File -> Account \cup {None}] /\ Slot # {}
    /\ MaxLost \in Nat /\ MaxPresses \in Nat

VARIABLES
    owner, erased,  \* the service: who deposited a file, the files erased since
    link,           \* and its links: the files, the account, the status
    cookie,         \* the account the session cookies stand for
    call,           \* the calls under way
    user, screen,   \* the page, by the names of its state
    rows,           \* files: how often a file stands in the list
    shares,         \* the status shown on the screen of links
    uploads, sessionShares, claimed,
    fileShareLinks,
    deletingId, sharingFileId, revokingShareId, shareBusy,
    lost, presses,
    known, late,    \* history: the newest that answers said of a file or a link,
                    \* and those for which an answer came after a newer one
    drafted         \* history: the files of each link created from the sending screen

server  == <<owner, erased, link>>
lists   == <<rows, shares, fileShareLinks>>
draft   == <<uploads, sessionShares, claimed>>
busy    == <<deletingId, sharingFileId, revokingShareId, shareBusy>>
history == <<known, late>>
vars    == <<owner, erased, link, cookie, call, user, screen, rows, shares, uploads,
             sessionShares, claimed, fileShareLinks, deletingId, sharingFileId,
             revokingShareId, shareBusy, lost, presses, known, late, drafted>>

Op     == {"me", "login", "logout", "files", "shares", "upload", "delete", "link", "relink",
           "revoke"}
Screen == {"signin", "drop", "files", "links", "account"}
Status == {"ABSENT", "ACTIVE", "VOID", "CONSUMED", "REVOKED"}

NoCall   == [at |-> "idle", op |-> "me", arg |-> None, as |-> None, who |-> None,
             files |-> {}, status |-> {}]
Unknown  == [x \in File \cup Link |-> 0]
NoRows   == [f \in File |-> 0]
NoLinks  == [f \in File |-> [id |-> None, revoked |-> FALSE]]

Stored  == {f \in File : owner[f] # None} \ erased
Live(s) == call[s].at \in {"sent", "served", "failed"}
Free    == {s \in Slot : call[s].at = "idle"}

(* The screens offer nothing until the first call has said who is there,   *)
(* and the form nothing while it waits for its own answer.                 *)
Waits(op) == \E s \in Slot : Live(s) /\ call[s].op = op
Signed    == user # None

(* A call leaves with the cookies of the moment.                           *)
Sent(op, arg, files) == [at |-> "sent", op |-> op, arg |-> arg, as |-> cookie, who |-> None,
                         files |-> files, status |-> {}]
Asks(op, arg, files) ==
    /\ Free # {}
    /\ call' = [call EXCEPT ![CHOOSE s \in Free : TRUE] = Sent(op, arg, files)]

(* The page opens, in a browser that has a session or not, and asks.       *)
Init ==
    /\ owner = Earlier /\ erased = {}
    /\ link = [l \in Link |-> [files |-> {}, by |-> None, status |-> "ABSENT"]]
    /\ cookie \in Account \cup {None}
    /\ call = [s \in Slot |-> IF s = CHOOSE q \in Slot : TRUE THEN Sent("me", None, {}) ELSE NoCall]
    /\ user = None /\ screen = "signin"
    /\ rows = NoRows /\ shares = [l \in Link |-> "ABSENT"]
    /\ uploads = [f \in File |-> "none"] /\ sessionShares = [l \in Link |-> "none"]
    /\ claimed = {} /\ fileShareLinks = NoLinks
    /\ deletingId = None /\ sharingFileId = None /\ revokingShareId = None /\ shareBusy = FALSE
    /\ lost = 0 /\ presses = 0 /\ known = Unknown /\ late = {} /\ drafted = [l \in Link |-> {}]

-----------------------------------------------------------------------------
(* What the person does.                                                   *)

(* The form, once the page knows that nobody is signed in.                 *)
SigninForm == screen = "signin" /\ ~Waits("login") /\ ~Waits("me")

Login(a) ==
    /\ SigninForm
    /\ Asks("login", a, {})
    /\ UNCHANGED <<server, cookie, user, screen, lists, draft, busy, lost, history, drafted>>

Logout ==
    /\ Signed /\ screen = "account"
    /\ Asks("logout", None, {})
    /\ UNCHANGED <<server, cookie, user, screen, lists, draft, busy, lost, history, drafted>>

(* The page is loaded again: its state is gone, the cookies are not, and   *)
(* the calls under way run on with nobody listening.                       *)
Reload ==
    /\ Free # {}
    /\ LET s0 == CHOOSE s \in Free : TRUE IN
       call' = [s \in Slot |->
                  IF s = s0 THEN Sent("me", None, {})
                  ELSE IF Live(s) THEN [call[s] EXCEPT !.at = IF @ = "sent" THEN "deaf" ELSE "idle"]
                  ELSE call[s]]
    /\ user' = None /\ screen' = "signin"
    /\ rows' = NoRows /\ shares' = [l \in Link |-> "ABSENT"] /\ fileShareLinks' = NoLinks
    /\ uploads' = [f \in File |-> "none"] /\ sessionShares' = [l \in Link |-> "none"]
    /\ claimed' = {}
    /\ deletingId' = None /\ sharingFileId' = None /\ revokingShareId' = None
    /\ shareBusy' = FALSE
    /\ known' = Unknown /\ late' = {}
    /\ UNCHANGED <<server, cookie, lost, drafted>>

UploadOne(f) ==
    /\ Signed /\ screen = "drop"
    /\ uploads[f] \in {"none", "error"} /\ owner[f] = None
    /\ ~\E s \in Slot : call[s].op = "upload" /\ call[s].arg = f /\ call[s].at # "idle"
    /\ Asks("upload", f, {})
    /\ uploads' = [uploads EXCEPT ![f] = "uploading"]
    /\ UNCHANGED <<server, cookie, user, screen, lists, sessionShares, claimed, busy, lost,
                   history, drafted>>

(* Mutant: what was given a link is forgotten, and the sendings are kept.  *)
LeavesClaims ==
    /\ claimed' = {}
    /\ UNCHANGED <<uploads, sessionShares>>

(* Leaving the sending screen clears it.                                   *)
LeavesDrop ==
    /\ uploads' = [f \in File |-> "none"]
    /\ sessionShares' = [l \in Link |-> "none"]
    /\ claimed' = {}

(* Entering a list reads it again.                                         *)
GoTo(next) ==
    /\ Signed /\ next # "signin"
    /\ screen' = next
    /\ IF screen = "drop" /\ next # "drop" THEN LeavesDrop ELSE UNCHANGED draft
    /\ IF next \in {"files", "links"}
         THEN Asks(IF next = "files" THEN "files" ELSE "shares", None, {})
         ELSE UNCHANGED call
    /\ UNCHANGED <<server, cookie, user, lists, busy, lost, history, drafted>>

DeleteFile(f) ==
    /\ Signed /\ screen = "files" /\ rows[f] > 0 /\ deletingId # f
    /\ Asks("delete", f, {})
    /\ deletingId' = f
    /\ UNCHANGED <<server, cookie, user, screen, lists, draft, sharingFileId, revokingShareId,
                   shareBusy, lost, history, drafted>>

(* Bound: a link is asked for while there is one left to create.           *)
LinksLeft == Cardinality({l \in Link : link[l].status = "ABSENT"})
               > Cardinality({s \in Slot : /\ call[s].op \in {"link", "relink"}
                                           /\ call[s].at \in {"sent", "deaf"}})

CreateLinkForFile(f) ==
    /\ Signed /\ screen = "files" /\ rows[f] > 0 /\ sharingFileId # f /\ LinksLeft
    /\ fileShareLinks[f].id = None \/ fileShareLinks[f].revoked
    /\ Asks("relink", f, {f})
    /\ sharingFileId' = f
    /\ UNCHANGED <<server, cookie, user, screen, lists, draft, deletingId, revokingShareId,
                   shareBusy, lost, history, drafted>>

Pending == {f \in File : uploads[f] = "done"} \ claimed

CreateShareLink ==
    /\ Signed /\ screen = "drop" /\ Pending # {} /\ ~shareBusy /\ LinksLeft
    /\ Asks("link", None, Pending)
    /\ shareBusy' = TRUE
    /\ UNCHANGED <<server, cookie, user, screen, lists, draft, deletingId, sharingFileId,
                   revokingShareId, lost, history, drafted>>

(* Where a link may be revoked from: the list under the sendings, the line *)
(* of its file, or the screen of links.                                    *)
UnderSendings(l) == screen = "drop" /\ sessionShares[l] = "live"

BesideItsFile(l) ==
    /\ screen = "files"
    /\ \E f \in File : rows[f] > 0 /\ fileShareLinks[f] = [id |-> l, revoked |-> FALSE]

AmongLinks(l) == screen = "links" /\ shares[l] = "ACTIVE"

Offered(l) == UnderSendings(l) \/ BesideItsFile(l) \/ AmongLinks(l)

RevokeShare(l) ==
    /\ Signed /\ Offered(l) /\ revokingShareId # l
    /\ Asks("revoke", l, {})
    /\ revokingShareId' = l
    /\ UNCHANGED <<server, cookie, user, screen, lists, draft, deletingId, sharingFileId,
                   shareBusy, lost, history, drafted>>

-----------------------------------------------------------------------------
(* What the service does.  A call refused for its access token is sent     *)
(* again with the cookies there are by then; an upload, which does not go  *)
(* through request(), is not.                                              *)
Speakers(c) == IF c.op = "upload" THEN {c.as, None} ELSE {c.as, cookie}

Shown(l) == IF link[l].status = "ACTIVE" /\ link[l].files \subseteq erased THEN "VOID"
            ELSE link[l].status

(* What the listings say.  The files gone by then are history: they are    *)
(* told by their absence.                                                  *)
ListedFiles(c, w) ==
    [c EXCEPT !.files = {f \in Stored : owner[f] = w},
              !.status = {<<f, "GONE">> : f \in {g \in erased : owner[g] = w}}]

ListedShares(c, w) ==
    [c EXCEPT !.status = {<<l, Shown(l)>> : l \in {k \in Link : link[k].by = w}}]

(* The call is over for the service; nobody listens to a page that is gone. *)
Settle(s, answer, stage, w) ==
    call' = [call EXCEPT ![s] = IF @.at = "deaf" THEN NoCall
                                ELSE [answer EXCEPT !.at = stage, !.who = w]]

Refuse(s, w) == Settle(s, call[s], "failed", w) /\ UNCHANGED <<server, drafted>>

ServeSession(s, w) ==
    /\ call[s].op \in {"me", "login", "logout"}
    /\ Settle(s, call[s], "served", w) /\ UNCHANGED <<server, drafted>>

ServeListing(s, w) ==
    /\ \/ call[s].op = "files" /\ Settle(s, ListedFiles(call[s], w), "served", w)
       \/ call[s].op = "shares" /\ Settle(s, ListedShares(call[s], w), "served", w)
    /\ UNCHANGED <<server, drafted>>

ServeUpload(s, w) ==
    /\ call[s].op = "upload"
    /\ owner' = [owner EXCEPT ![call[s].arg] = w]
    /\ Settle(s, call[s], "served", w) /\ UNCHANGED <<erased, link, drafted>>

ServeDelete(s, w) ==
    LET f == call[s].arg IN
    /\ call[s].op = "delete"
    /\ IF f \in Stored /\ owner[f] = w
         THEN /\ erased' = erased \cup {f}
              /\ Settle(s, call[s], "served", w) /\ UNCHANGED <<owner, link, drafted>>
         ELSE Refuse(s, w)

Fresh == CHOOSE l \in Link : link[l].status = "ABSENT"

ServeLink(s, w) ==
    LET files == call[s].files IN
    /\ call[s].op \in {"link", "relink"}
    /\ IF \A f \in files : f \in Stored /\ owner[f] = w
         THEN /\ link' = [link EXCEPT ![Fresh] = [files |-> files, by |-> w, status |-> "ACTIVE"]]
              /\ drafted' = IF call[s].op = "link" THEN [drafted EXCEPT ![Fresh] = files]
                            ELSE drafted
              /\ Settle(s, [call[s] EXCEPT !.arg = Fresh], "served", w)
              /\ UNCHANGED <<owner, erased>>
         ELSE Refuse(s, w)

ServeRevoke(s, w) ==
    LET l == call[s].arg IN
    /\ call[s].op = "revoke"
    /\ IF link[l].by = w
         THEN /\ link' = [link EXCEPT ![l].status = "REVOKED"]
              /\ Settle(s, call[s], "served", w) /\ UNCHANGED <<owner, erased, drafted>>
         ELSE Refuse(s, w)

Serve(s) ==
    /\ call[s].at \in {"sent", "deaf"}
    /\ \E w \in IF call[s].op = "login" THEN {call[s].arg} ELSE Speakers(call[s]) :
         \/ w = None /\ call[s].op # "logout" /\ Refuse(s, w)
         \/ /\ w # None \/ call[s].op = "logout"
            /\ \/ ServeSession(s, w) \/ ServeListing(s, w) \/ ServeUpload(s, w)
               \/ ServeDelete(s, w) \/ ServeLink(s, w) \/ ServeRevoke(s, w)
    /\ UNCHANGED <<cookie, user, screen, lists, draft, busy, lost, presses, history>>

(* A recipient uses up a link, and its files are erased.  Nobody tells the *)
(* page.                                                                   *)
Consume(l) ==
    /\ link[l].status = "ACTIVE" /\ link[l].files \cap erased = {}
    /\ link' = [link EXCEPT ![l].status = "CONSUMED"]
    /\ erased' = erased \cup link[l].files
    /\ UNCHANGED <<owner, cookie, call, user, screen, lists, draft, busy, lost, presses, history,
                   drafted>>

(* The network fails a call, before or after it was served.                *)
Lose(s) ==
    /\ call[s].at \in {"sent", "served"} /\ lost < MaxLost
    /\ lost' = lost + 1
    /\ call' = [call EXCEPT ![s].at = "failed"]
    /\ UNCHANGED <<server, cookie, user, screen, lists, draft, busy, presses, history, drafted>>

-----------------------------------------------------------------------------
(* What the page does when an answer arrives.                              *)

(* History.  A file is unknown, stored, gone; a link unknown, active, used *)
(* up, revoked: the later, the newer.  An answer obtained for an account   *)
(* other than the one the page is at says nothing of the files listed, and *)
(* leaves the list in doubt; the screen of links is read for itself alone. *)
Level(status) == CASE status \in {"ACTIVE", "VOID"} -> 1
                   [] status \in {"CONSUMED", "GONE"} -> 2
                   [] status = "REVOKED" -> 3

Said(c) ==
    CASE c.op = "files"  -> {<<f, 1>> : f \in c.files} \cup {<<p[1], Level(p[2])>> : p \in c.status}
      [] c.op = "shares" -> {<<p[1], Level(p[2])>> : p \in c.status}
      [] c.op = "upload" -> {<<c.arg, 1>>}
      [] c.op = "delete" -> {<<c.arg, 2>>}
      [] c.op \in {"link", "relink"} -> {<<c.arg, 1>>}
      [] c.op = "revoke" -> {<<c.arg, 3>>}

Info(c, x) == IF \E p \in Said(c) : p[1] = x THEN (CHOOSE p \in Said(c) : p[1] = x)[2] ELSE 0

Doubts(c) ==
    CASE c.op = "files"  -> IF c.who = user THEN {f \in File : Info(c, f) < known[f]} ELSE File
      [] c.op = "shares" -> {l \in Link : Info(c, l) < known[l]}
      [] c.op = "upload" -> IF c.who = user /\ known[c.arg] = 0 THEN {} ELSE {c.arg}
      [] OTHER           -> {p[1] : p \in {q \in Said(c) : q[2] < known[q[1]]}}

Dispels(c) ==
    CASE c.op = "files" -> IF c.who = user THEN File ELSE {}
      [] c.op \in {"delete", "revoke"} -> {c.arg}
      [] OTHER -> {}

Hears(c) ==
    /\ known' = [x \in File \cup Link |->
                   IF c.who = user /\ c.op # "shares" /\ Info(c, x) > known[x]
                     THEN Info(c, x) ELSE known[x]]
    /\ late' = (late \ Dispels(c)) \cup Doubts(c)

Ends(s) == call' = [call EXCEPT ![s] = NoCall]

(* Signed in, whether just now or already: the first screen, and a listing.*)
Enter(s, a) ==
    /\ user' = a /\ screen' = "drop" /\ cookie' = a
    /\ call' = [call EXCEPT ![s] = [Sent("files", None, {}) EXCEPT !.as = a]]
    /\ UNCHANGED <<server, lists, draft, busy, history, drafted, lost, presses>>

(* Mutant: the list of the account that leaves stays in the page.          *)
KeepRows == rows' = rows

EmptyRows == rows' = NoRows

(* Signed out, even if the service could not be told.  The screen of links *)
(* and the links of the list of files are not emptied.                     *)
Leave(s) ==
    /\ user' = None /\ screen' = "signin"
    /\ cookie' = IF call[s].at = "served" THEN None ELSE cookie
    /\ EmptyRows /\ LeavesDrop
    /\ Ends(s)
    /\ known' = Unknown /\ late' = {}
    /\ UNCHANGED <<server, shares, fileShareLinks, busy, drafted, lost, presses>>

(* A listing replaces the list, and drops the links of the files it lacks. *)
SetFiles(c) ==
    /\ rows' = [f \in File |-> IF f \in c.files THEN 1 ELSE 0]
    /\ fileShareLinks' = [f \in File |-> IF f \in c.files THEN fileShareLinks[f] ELSE NoLinks[f]]
    /\ UNCHANGED <<shares, draft, busy>>

SetShares(c) ==
    /\ shares' = [l \in Link |-> IF \E p \in c.status : p[1] = l
                                 THEN (CHOOSE p \in c.status : p[1] = l)[2] ELSE "ABSENT"]
    /\ UNCHANGED <<rows, fileShareLinks, draft, busy>>

Uploaded(f) ==
    /\ uploads' = [uploads EXCEPT ![f] = IF @ = "uploading" THEN "done" ELSE @]
    /\ rows' = [rows EXCEPT ![f] = IF @ < 2 THEN @ + 1 ELSE @]
    /\ UNCHANGED <<shares, fileShareLinks, sessionShares, claimed, busy>>

Deleted(f) ==
    /\ rows' = [rows EXCEPT ![f] = 0]
    /\ deletingId' = None
    /\ UNCHANGED <<shares, fileShareLinks, draft, sharingFileId, revokingShareId, shareBusy>>

(* Mutant: the button is left to the link instead of to nothing.           *)
RelinkedOther(c) ==
    /\ fileShareLinks' = [f \in File |-> IF f \in c.files THEN [id |-> c.arg, revoked |-> FALSE]
                                          ELSE fileShareLinks[f]]
    /\ sharingFileId' = c.arg
    /\ UNCHANGED <<rows, shares, draft, deletingId, revokingShareId, shareBusy>>

Relinked(c) ==
    /\ fileShareLinks' = [f \in File |-> IF f \in c.files THEN [id |-> c.arg, revoked |-> FALSE]
                                          ELSE fileShareLinks[f]]
    /\ sharingFileId' = None
    /\ UNCHANGED <<rows, shares, draft, deletingId, revokingShareId, shareBusy>>

Linked(c) ==
    /\ sessionShares' = [sessionShares EXCEPT ![c.arg] = "live"]
    /\ claimed' = claimed \cup c.files
    /\ shareBusy' = FALSE
    /\ UNCHANGED <<lists, uploads, deletingId, sharingFileId, revokingShareId>>

(* Mutant: only the list the button is on is struck through.               *)
RevokedHere(l) ==
    /\ sessionShares' = [sessionShares EXCEPT ![l] = IF @ = "none" THEN @ ELSE "revoked"]
    /\ shares' = [shares EXCEPT ![l] = IF @ = "ABSENT" THEN @ ELSE "REVOKED"]
    /\ revokingShareId' = None
    /\ UNCHANGED <<rows, fileShareLinks, uploads, claimed, deletingId, sharingFileId, shareBusy>>

(* A link is struck through wherever it stands.                            *)
Revoked(l) ==
    /\ sessionShares' = [sessionShares EXCEPT ![l] = IF @ = "none" THEN @ ELSE "revoked"]
    /\ shares' = [shares EXCEPT ![l] = IF @ = "ABSENT" THEN @ ELSE "REVOKED"]
    /\ fileShareLinks' = [f \in File |->
                            [fileShareLinks[f] EXCEPT !.revoked = @ \/ fileShareLinks[f].id = l]]
    /\ revokingShareId' = None
    /\ UNCHANGED <<rows, uploads, claimed, deletingId, sharingFileId, shareBusy>>

(* Mutant: only a success gives the button back.                           *)
FailedStuck(c) ==
    /\ uploads' = IF c.op = "upload" /\ uploads[c.arg] = "uploading"
                    THEN [uploads EXCEPT ![c.arg] = "error"] ELSE uploads
    /\ UNCHANGED <<lists, sessionShares, claimed, busy>>

(* A call that failed: its button is offered again.                        *)
Failed(c) ==
    /\ uploads' = IF c.op = "upload" /\ uploads[c.arg] = "uploading"
                    THEN [uploads EXCEPT ![c.arg] = "error"] ELSE uploads
    /\ deletingId' = IF c.op = "delete" THEN None ELSE deletingId
    /\ sharingFileId' = IF c.op = "relink" THEN None ELSE sharingFileId
    /\ revokingShareId' = IF c.op = "revoke" THEN None ELSE revokingShareId
    /\ shareBusy' = IF c.op = "link" THEN FALSE ELSE shareBusy
    /\ UNCHANGED <<lists, sessionShares, claimed>>

(* The answer to a call that asks for no session.                          *)
Applies(c) ==
    \/ c.op = "files" /\ SetFiles(c)
    \/ c.op = "shares" /\ SetShares(c)
    \/ c.op = "upload" /\ Uploaded(c.arg)
    \/ c.op = "delete" /\ Deleted(c.arg)
    \/ c.op = "link" /\ Linked(c)
    \/ c.op = "relink" /\ Relinked(c)
    \/ c.op = "revoke" /\ Revoked(c.arg)

Deliver(s) ==
    LET c == call[s] IN
    \/ /\ c.at = "served" /\ c.op \in {"me", "login"}
       /\ Enter(s, c.who)
    \/ /\ c.at \in {"served", "failed"} /\ c.op = "logout"
       /\ Leave(s)
    \/ /\ c.at = "served" /\ c.op \notin {"me", "login", "logout"}
       /\ Applies(c) /\ Hears(c) /\ Ends(s)
       /\ UNCHANGED <<server, cookie, user, screen, lost, presses, drafted>>
    \/ /\ c.at = "failed" /\ c.op # "logout"
       /\ Failed(c) /\ Ends(s)
       /\ UNCHANGED <<server, cookie, user, screen, lost, presses, history, drafted>>

Press ==
    /\ presses < MaxPresses /\ presses' = presses + 1
    /\ \/ \E a \in Account : Login(a)
       \/ Logout \/ Reload \/ CreateShareLink
       \/ \E f \in File : UploadOne(f) \/ DeleteFile(f) \/ CreateLinkForFile(f)
       \/ \E next \in Screen : GoTo(next)
       \/ \E l \in Link : RevokeShare(l)

Next ==
    \/ Press
    \/ \E l \in Link : Consume(l)
    \/ \E s \in Slot : Serve(s) \/ Lose(s) \/ Deliver(s)

Spec == Init /\ [][Next]_vars

-----------------------------------------------------------------------------
(* Types.                                                                  *)
Items == Account \cup File \cup Link \cup {None}
Calls == [at : {"idle", "sent", "deaf", "served", "failed"}, op : Op, arg : Items,
          as : Account \cup {None}, who : Account \cup {None}, files : SUBSET File,
          status : SUBSET ((Link \X Status) \cup (File \X {"GONE"}))]

TypeOK ==
    /\ owner \in [File -> Account \cup {None}] /\ erased \subseteq File
    /\ link \in [Link -> [files : SUBSET File, by : Account \cup {None}, status : Status]]
    /\ cookie \in Account \cup {None} /\ user \in Account \cup {None} /\ screen \in Screen
    /\ call \in [Slot -> Calls]
    /\ rows \in [File -> 0..2] /\ shares \in [Link -> Status]
    /\ uploads \in [File -> {"none", "uploading", "done", "error"}]
    /\ sessionShares \in [Link -> {"none", "live", "revoked"}] /\ claimed \subseteq File
    /\ fileShareLinks \in [File -> [id : Link \cup {None}, revoked : BOOLEAN]]
    /\ {deletingId, sharingFileId} \subseteq File \cup {None}
    /\ revokingShareId \in Link \cup {None} /\ shareBusy \in BOOLEAN
    /\ lost \in 0..MaxLost /\ presses \in 0..MaxPresses
    /\ known \in [File \cup Link -> 0..3] /\ late \subseteq File \cup Link
    /\ drafted \in [Link -> SUBSET File]

(* The list of files is what the newest answers said, each file once: a    *)
(* file uploaded stands in it, a file the page was told is gone does not,  *)
(* and signing out or in as another leaves none behind.  The exceptions    *)
(* are the files about which an answer came after a newer one, until the   *)
(* next listing puts them right (setFiles in file-transfer-app.tsx).       *)
ListFollows ==
    \A f \in File \ late : rows[f] = IF known[f] = 1 THEN 1 ELSE 0

(* A link the page was told is revoked is offered nowhere as live, neither *)
(* among the links of the sending screen, nor beside its file, nor on the  *)
(* screen of links, but for an answer overtaken by the revocation          *)
(* (handleRevokeShare).                                                    *)
RevokedEverywhere ==
    \A l \in Link \ late : known[l] = 3 =>
        /\ sessionShares[l] # "live"
        /\ \A f \in File : fileShareLinks[f].id = l => fileShareLinks[f].revoked
        /\ shares[l] \notin {"ACTIVE", "VOID"}

(* A deposited file goes into one link of the sending screen, however the  *)
(* person hops between screens while it is made; every further one answers *)
(* for a call whose answer was lost (createShareLink, claimedFileIds).     *)
OneDraftPerFile ==
    \A f \in File : Cardinality({l \in Link : f \in drafted[l]}) <= 1 + lost

(* A button is out of use only while a call of its own is under way, so it *)
(* comes back whatever becomes of the call and of the others made through  *)
(* the same state, which holds one row or link (the finally of handlers).  *)
(* Not the converse: a row whose call is under way has its button back as  *)
(* soon as another row is pressed, or another row's answer comes.          *)
Underway(op, arg) ==
    \E s \in Slot : Live(s) /\ call[s].op = op /\ arg \in {call[s].arg} \cup call[s].files

ButtonsReturn ==
    /\ deletingId # None => Underway("delete", deletingId)
    /\ sharingFileId # None => Underway("relink", sharingFileId)
    /\ revokingShareId # None => Underway("revoke", revokingShareId)
    /\ shareBusy => Waits("link")
=============================================================================
