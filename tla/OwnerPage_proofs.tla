-------------------------- MODULE OwnerPage_proofs --------------------------
(***************************************************************************)
(* Proofs about OwnerPage, for any number of accounts, files, links, calls *)
(* under way, calls lost and presses.                                      *)
(***************************************************************************)
EXTENDS OwnerPage, FiniteSetTheorems, TLAPS

USE DEF server, lists, draft, busy, history

-----------------------------------------------------------------------------
(* What a call carries, and what its answer says, by its kind.             *)
SentInv ==
    \A s \in Slot : call[s].at # "idle" =>
       /\ call[s].op = "login" => call[s].arg \in Account
       /\ call[s].op \in {"upload", "delete"} => call[s].arg \in File
       /\ call[s].op = "revoke" => call[s].arg \in Link
       /\ call[s].op = "relink" /\ call[s].at = "sent" => call[s].files = {call[s].arg}

AnswerInv ==
    \A s \in Slot : call[s].at = "served" =>
       /\ call[s].op # "logout" => call[s].who # None
       /\ call[s].op \in {"upload", "delete"} => owner[call[s].arg] = call[s].who
       /\ call[s].op \in {"link", "relink"} => call[s].arg \in Link
       /\ call[s].op = "files" =>
             /\ \A f \in call[s].files : owner[f] = call[s].who /\ <<f, "GONE">> \notin call[s].status
             /\ \A p \in call[s].status : /\ p[1] \in File /\ p = <<p[1], "GONE">>
                                          /\ owner[p[1]] = call[s].who
       /\ call[s].op = "shares" =>
             \A p \in call[s].status : /\ p[1] \in Link /\ p[2] \in Status \ {"ABSENT"}
                                       /\ p = <<p[1], p[2]>>
                                       /\ \A q \in call[s].status : q[1] = p[1] => q = p

(* A file is uploaded by one call at a time, which is its first.           *)
Uploading(s) == call[s].op = "upload" /\ call[s].at # "idle"
UploadInv ==
    \A s \in Slot : Uploading(s) =>
       /\ call[s].at \in {"sent", "deaf"} => owner[call[s].arg] = None
       /\ \A q \in Slot : Uploading(q) /\ call[q].arg = call[s].arg => q = s

(* A link has an owner once it is created, and files not before.           *)
LinkInv == \A l \in Link : /\ link[l].status = "ABSENT" <=> link[l].by = None
                           /\ link[l].status = "ABSENT" => drafted[l] = {}

(* There is a link left for every call that will create one.               *)
Absent == {l \in Link : link[l].status = "ABSENT"}
Asked  == {s \in Slot : call[s].op \in {"link", "relink"} /\ call[s].at \in {"sent", "deaf"}}
LeftInv == Cardinality(Asked) <= Cardinality(Absent)

(* One call at a time asks who the person is, and while nobody is signed   *)
(* in; what the page knows of a file, it knows of the person signed in.    *)
Signing(s) == Live(s) /\ call[s].op \in {"me", "login"}
PersonInv ==
    /\ user = None <=> screen = "signin"
    /\ \A s \in Slot : Signing(s) => user = None /\ \A q \in Slot : Signing(q) => q = s
    /\ user = None => \A x \in File \cup Link : known[x] = 0
    /\ \A f \in File : known[f] # 0 => owner[f] = user

(* One call at a time asks for a link from the sending screen.             *)
Linking(s) == Live(s) /\ call[s].op = "link"
BusyInv ==
    \A s \in Slot : Linking(s) => shareBusy /\ \A q \in Slot : Linking(q) => q = s

(* A file that is not sent yet is in no link of the sending screen, and    *)
(* asked for in none; while one is asked for, or once it is known not to   *)
(* be coming, there are no more than calls were lost.                      *)
Drafts(f) == {l \in Link : f \in drafted[l]}
Drafting(s, f) == call[s].op = "link" /\ call[s].at # "idle" /\ f \in call[s].files
Ahead(s, f) == Drafting(s, f) /\ call[s].at \in {"sent", "deaf"}

NewInv(f) == owner[f] = None \/ uploads[f] = "uploading" =>
                Drafts(f) = {} /\ \A s \in Slot : ~Drafting(s, f)
AheadInv(f) == \A s \in Slot : Ahead(s, f) => /\ Cardinality(Drafts(f)) <= lost
                                              /\ \A q \in Slot : Ahead(q, f) => q = s
PendingInv(f) == f \in Pending =>
                   /\ owner[f] # None
                   /\ \A s \in Slot : Drafting(s, f) => call[s].at # "deaf"
                   /\ (\A s \in Slot : Drafting(s, f) => call[s].at = "failed")
                         => Cardinality(Drafts(f)) <= lost
DraftInv == \A f \in File : NewInv(f) /\ AheadInv(f) /\ PendingInv(f)

-----------------------------------------------------------------------------
(* How calls move.                                                         *)
LEMMA NoCallType == NoCall \in Calls
BY DEF NoCall, Calls, Items, Op

(* A call leaves from a slot that was free.                                *)
LEMMA AsksMoves ==
  ASSUME TypeOK, NEW op \in Op, NEW arg \in Items, NEW files \in SUBSET File,
         Asks(op, arg, files)
  PROVE  /\ call' \in [Slot -> Calls]
         /\ \E s \in Slot : /\ call[s].at = "idle"
                            /\ \A q \in Slot : q # s => call'[q] = call[q]
                            /\ call'[s].at = "sent" /\ call'[s].op = op
                            /\ call'[s].arg = arg /\ call'[s].files = files
<1> DEFINE s == CHOOSE q \in Free : TRUE
<1>1. s \in Free
  BY DEF Asks
<1>2. s \in Slot /\ call[s].at = "idle"
  BY <1>1 DEF Free
<1>3. call' = [call EXCEPT ![s] = Sent(op, arg, files)]
  BY DEF Asks
<1>4. Sent(op, arg, files) \in Calls
  BY DEF Sent, TypeOK, Calls
<1> HIDE DEF s
<1>5. call' \in [Slot -> Calls] /\ \A q \in Slot : q # s => call'[q] = call[q]
  BY <1>2, <1>3, <1>4 DEF TypeOK
<1>6. /\ call'[s].at = "sent" /\ call'[s].op = op /\ call'[s].arg = arg
      /\ call'[s].files = files
  BY <1>2, <1>3 DEF TypeOK, Sent
<1>7. QED
  BY <1>2, <1>5, <1>6

(* An answer keeps the kind and the account of the call; nobody hears that *)
(* of a page that is gone.                                                 *)
LEMMA SettleMoves ==
  ASSUME TypeOK, NEW s \in Slot, NEW answer \in Calls, NEW stage \in {"served", "failed"},
         NEW w \in Account \cup {None}, Settle(s, answer, stage, w)
  PROVE  /\ call' \in [Slot -> Calls]
         /\ \A q \in Slot : q # s => call'[q] = call[q]
         /\ call[s].at = "deaf" => call'[s] = NoCall
         /\ call[s].at # "deaf" => /\ call'[s].at = stage /\ call'[s].who = w
                                   /\ call'[s].op = answer.op /\ call'[s].arg = answer.arg
                                   /\ call'[s].files = answer.files
                                   /\ call'[s].status = answer.status
<1> DEFINE new == [answer EXCEPT !.at = stage, !.who = w]
<1>1. /\ new \in Calls /\ new.at = stage /\ new.who = w /\ new.op = answer.op
      /\ new.arg = answer.arg /\ new.files = answer.files /\ new.status = answer.status
  BY DEF Calls
<1>2. call' = [call EXCEPT ![s] = IF call[s].at = "deaf" THEN NoCall ELSE new]
  BY DEF Settle
<1> HIDE DEF new
<1>3. /\ call' \in [Slot -> Calls] /\ \A q \in Slot : q # s => call'[q] = call[q]
      /\ call'[s] = IF call[s].at = "deaf" THEN NoCall ELSE new
  BY <1>1, <1>2, NoCallType DEF TypeOK
<1>4. QED
  BY <1>1, <1>3

LEMMA LoseMoves ==
  ASSUME TypeOK, NEW s \in Slot, Lose(s)
  PROVE  /\ call' \in [Slot -> Calls]
         /\ \A q \in Slot : q # s => call'[q] = call[q]
         /\ call'[s].at = "failed" /\ call'[s].op = call[s].op /\ call'[s].arg = call[s].arg
         /\ call'[s].who = call[s].who /\ call'[s].files = call[s].files
         /\ call'[s].status = call[s].status
<1> DEFINE new == [call[s] EXCEPT !.at = "failed"]
<1>1. /\ new \in Calls /\ new.at = "failed" /\ new.who = call[s].who /\ new.op = call[s].op
      /\ new.arg = call[s].arg /\ new.files = call[s].files /\ new.status = call[s].status
  <2>1. call[s] \in Calls
    BY DEF TypeOK
  <2>2. QED
    BY <2>1 DEF Calls
<1>2. call' = [call EXCEPT ![s] = new]
  BY DEF Lose
<1> HIDE DEF new
<1>3. QED
  BY <1>1, <1>2 DEF TypeOK

LEMMA EndsMoves ==
  ASSUME TypeOK, NEW s \in Slot, Ends(s)
  PROVE  /\ call' \in [Slot -> Calls]
         /\ \A q \in Slot : q # s => call'[q] = call[q]
         /\ call'[s] = NoCall
BY NoCallType DEF Ends, TypeOK

LEMMA EnterMoves ==
  ASSUME TypeOK, NEW s \in Slot, NEW a \in Account, Enter(s, a)
  PROVE  /\ call' \in [Slot -> Calls]
         /\ \A q \in Slot : q # s => call'[q] = call[q]
         /\ call'[s].at = "sent" /\ call'[s].op = "files" /\ call'[s].files = {}
<1> DEFINE new == [Sent("files", None, {}) EXCEPT !.as = a]
<1>1. new \in Calls /\ new.at = "sent" /\ new.op = "files" /\ new.files = {}
  BY DEF Calls, Sent, TypeOK, Items, Op
<1>2. call' = [call EXCEPT ![s] = new]
  BY DEF Enter
<1> HIDE DEF new
<1>3. QED
  BY <1>1, <1>2 DEF TypeOK

LEMMA ReloadMoves ==
  ASSUME TypeOK, Reload
  PROVE  /\ call' \in [Slot -> Calls]
         /\ \E s \in Slot :
              /\ call[s].at = "idle" /\ call'[s] = Sent("me", None, {})
              /\ \A q \in Slot \ {s} :
                   \/ call[q].at \in {"idle", "deaf"} /\ call'[q] = call[q]
                   \/ /\ call[q].at = "sent" /\ call'[q].at = "deaf"
                      /\ call'[q].op = call[q].op /\ call'[q].arg = call[q].arg
                      /\ call'[q].files = call[q].files
                   \/ call[q].at \in {"served", "failed"} /\ call'[q].at = "idle"
<1> DEFINE s0 == CHOOSE s \in Free : TRUE
           Left(q) == [call[q] EXCEPT !.at = IF @ = "sent" THEN "deaf" ELSE "idle"]
<1>1. s0 \in Slot /\ call[s0].at = "idle"
  BY DEF Reload, Free
<1>2. call' = [s \in Slot |-> IF s = s0 THEN Sent("me", None, {})
                              ELSE IF Live(s) THEN Left(s) ELSE call[s]]
  BY DEF Reload
<1>3. ASSUME NEW q \in Slot
      PROVE  /\ Left(q) \in Calls /\ Left(q).op = call[q].op /\ Left(q).arg = call[q].arg
             /\ Left(q).files = call[q].files
             /\ Left(q).at = IF call[q].at = "sent" THEN "deaf" ELSE "idle"
  <2>1. call[q] \in Calls
    BY DEF TypeOK
  <2>2. QED
    BY <2>1 DEF Calls
<1>4. Sent("me", None, {}) \in Calls
  BY DEF Calls, Sent, TypeOK, Items, Op
<1> HIDE DEF Left, s0
<1>5. ASSUME NEW q \in Slot
      PROVE  call'[q] = IF q = s0 THEN Sent("me", None, {})
                        ELSE IF Live(q) THEN Left(q) ELSE call[q]
  BY <1>2
<1>6. call' \in [Slot -> Calls]
  BY <1>2, <1>3, <1>4 DEF TypeOK
<1>7. ASSUME NEW q \in Slot \ {s0}
      PROVE  \/ call[q].at \in {"idle", "deaf"} /\ call'[q] = call[q]
             \/ /\ call[q].at = "sent" /\ call'[q].at = "deaf"
                /\ call'[q].op = call[q].op /\ call'[q].arg = call[q].arg
                /\ call'[q].files = call[q].files
             \/ call[q].at \in {"served", "failed"} /\ call'[q].at = "idle"
  <2>1. call[q].at \in {"idle", "sent", "deaf", "served", "failed"}
    BY DEF TypeOK, Calls
  <2>2. QED
    BY <1>3, <1>5, <2>1 DEF Live
<1>8. QED
  BY <1>1, <1>5, <1>6, <1>7

(* A link is left for a call that will create one.                         *)
LEMMA FreshLeft ==
  ASSUME TypeOK, LeftInv, NEW s \in Asked
  PROVE  Fresh \in Link /\ link[Fresh].status = "ABSENT"
<1>1. IsFiniteSet(Asked) /\ IsFiniteSet(Absent)
  BY OwnerPageAssumption, FS_Subset DEF Asked, Absent
<1>2. Cardinality(Asked) \in Nat /\ Cardinality(Asked) # 0
  BY <1>1, FS_CardinalityType, FS_EmptySet
<1>3. Absent # {}
  BY <1>1, <1>2, FS_EmptySet, FS_CardinalityType DEF LeftInv
<1>4. QED
  BY <1>3 DEF Absent, Fresh

(* What a button that calls the service gives.                             *)
Allowed(op, arg, files) ==
    /\ op = "login" => arg \in Account /\ SigninForm
    /\ op = "upload" => /\ arg \in File /\ owner[arg] = None
                        /\ uploads' = [uploads EXCEPT ![arg] = "uploading"]
                        /\ ~\E s \in Slot : call[s].op = "upload" /\ call[s].arg = arg
                                            /\ call[s].at # "idle"
    /\ op # "upload" => /\ uploads' = uploads \/ uploads' = [f \in File |-> "none"]
    /\ op = "delete" => arg \in File /\ deletingId' = arg
    /\ op # "delete" => deletingId' = deletingId
    /\ op = "relink" => arg \in File /\ sharingFileId' = arg /\ files = {arg}
    /\ op # "relink" => sharingFileId' = sharingFileId
    /\ op = "revoke" => arg \in Link /\ revokingShareId' = arg
    /\ op # "revoke" => revokingShareId' = revokingShareId
    /\ op = "link" => ~shareBusy /\ shareBusy' /\ files = Pending
    /\ op # "link" => shareBusy' = shareBusy
    /\ op \in {"link", "relink"} => LinksLeft

LEMMA PressAsks ==
  ASSUME TypeOK, Press, ~Reload
  PROVE  /\ UNCHANGED <<owner, erased, link, cookie, lost, drafted, user, known, late, rows, shares,
                        fileShareLinks>>
         /\ user = None => screen' = screen
         /\ screen' \in Screen /\ (screen # "signin" => screen' # "signin")
         /\ \/ UNCHANGED <<call, uploads, deletingId, sharingFileId, revokingShareId, shareBusy>>
            \/ /\ UNCHANGED <<call, deletingId, sharingFileId, revokingShareId, shareBusy>>
               /\ LeavesDrop
            \/ \E op \in Op \ {"me"}, arg \in Items, files \in SUBSET File :
                  Asks(op, arg, files) /\ Allowed(op, arg, files)
         /\ \/ UNCHANGED <<sessionShares, claimed>>
            \/ LeavesDrop
<1> DEFINE Still == UNCHANGED <<owner, erased, link, cookie, lost, drafted, user, known, late, rows,
                                shares, fileShareLinks>>
           Page  == UNCHANGED <<screen, sessionShares, claimed>>
           Goes  == /\ user # None /\ screen' \in Screen \ {"signin"}
                    /\ UNCHANGED <<uploads, sessionShares, claimed>> \/ LeavesDrop
           Asking(op, arg, files) == Asks(op, arg, files) /\ Allowed(op, arg, files)
<1>1. ASSUME NEW a \in Account, Login(a) PROVE Still /\ Page /\ Asking("login", a, {})
  BY <1>1 DEF Login, Allowed
<1>2. ASSUME Logout PROVE Still /\ Page /\ Asking("logout", None, {})
  BY <1>2 DEF Logout, Allowed
<1>3. ASSUME NEW f \in File, UploadOne(f) PROVE Still /\ Page /\ Asking("upload", f, {})
  BY <1>3 DEF UploadOne, Allowed
<1>4. ASSUME NEW f \in File, DeleteFile(f) PROVE Still /\ Page /\ Asking("delete", f, {})
  BY <1>4 DEF DeleteFile, Allowed
<1>5. ASSUME NEW f \in File, CreateLinkForFile(f) PROVE Still /\ Page /\ Asking("relink", f, {f})
  BY <1>5 DEF CreateLinkForFile, Allowed
<1>6. ASSUME CreateShareLink PROVE Still /\ Page /\ Asking("link", None, Pending)
  BY <1>6 DEF CreateShareLink, Allowed
<1>7. ASSUME NEW l \in Link, RevokeShare(l) PROVE Still /\ Page /\ Asking("revoke", l, {})
  BY <1>7 DEF RevokeShare, Allowed
<1>8. ASSUME NEW next \in Screen, GoTo(next)
      PROVE  /\ Still /\ Goes
             /\ UNCHANGED <<deletingId, sharingFileId, revokingShareId, shareBusy>>
             /\ \/ UNCHANGED call
                \/ \E op \in {"files", "shares"} : Asking(op, None, {})
  <2>1. Still /\ Goes /\ UNCHANGED <<deletingId, sharingFileId, revokingShareId, shareBusy>>
    BY <1>8 DEF GoTo, Signed
  <2>2. UNCHANGED call \/ \E op \in {"files", "shares"} : Asks(op, None, {})
    BY <1>8 DEF GoTo
  <2>3. ASSUME NEW op \in {"files", "shares"} PROVE Allowed(op, None, {})
    BY <2>1 DEF Allowed, LeavesDrop
  <2>4. QED
    BY <2>1, <2>2, <2>3
<1>9. /\ \A op \in {"login", "logout", "upload", "delete", "relink", "link", "revoke", "files",
                    "shares"} : op \in Op \ {"me"}
      /\ Account \cup File \cup Link \cup {None} = Items
      /\ {} \in SUBSET File /\ Pending \in SUBSET File /\ \A f \in File : {f} \in SUBSET File
  BY DEF Op, Items, Pending
<1>10. screen \in Screen
  BY DEF TypeOK
<1> HIDE DEF Asking
<1>11. \/ Still /\ Page /\ \E op \in Op \ {"me"}, arg \in Items, files \in SUBSET File :
                              Asking(op, arg, files)
       \/ /\ Still /\ Goes
          /\ UNCHANGED <<deletingId, sharingFileId, revokingShareId, shareBusy>>
          /\ \/ UNCHANGED call
             \/ \E op \in Op \ {"me"}, arg \in Items, files \in SUBSET File : Asking(op, arg, files)
  <2>1. CASE \E a \in Account : Login(a)
    BY <1>1, <1>9, <2>1
  <2>2. CASE Logout \/ CreateShareLink
    BY <1>2, <1>6, <1>9, <2>2
  <2>3. CASE \E f \in File : UploadOne(f) \/ DeleteFile(f) \/ CreateLinkForFile(f)
    BY <1>3, <1>4, <1>5, <1>9, <2>3
  <2>4. CASE \E next \in Screen : GoTo(next)
    BY <1>8, <1>9, <2>4
  <2>5. CASE \E l \in Link : RevokeShare(l)
    BY <1>7, <1>9, <2>5
  <2>6. QED
    BY <2>1, <2>2, <2>3, <2>4, <2>5 DEF Press
<1>12. QED
  BY <1>10, <1>11 DEF Asking

(* What the answer of the service to a call is, by its kind.               *)
Answered(s, w, stage, arg, files, status) ==
    call[s].at = "sent" => /\ call'[s].at = stage /\ call'[s].who = w /\ call'[s].arg = arg
                           /\ call'[s].files = files /\ call'[s].status = status

Unserved(s, w) ==
    /\ UNCHANGED <<server, drafted>>
    /\ Answered(s, w, "failed", call[s].arg, call[s].files, call[s].status)

ServedSession(s, w) ==
    /\ call[s].op \in {"me", "login", "logout"} /\ UNCHANGED <<server, drafted>>
    /\ Answered(s, w, "served", call[s].arg, call[s].files, call[s].status)

ServedFiles(s, w) ==
    /\ call[s].op = "files" /\ UNCHANGED <<server, drafted>>
    /\ Answered(s, w, "served", call[s].arg, {f \in Stored : owner[f] = w},
                {<<f, "GONE">> : f \in {g \in erased : owner[g] = w}})

ServedShares(s, w) ==
    /\ call[s].op = "shares" /\ UNCHANGED <<server, drafted>>
    /\ Answered(s, w, "served", call[s].arg, call[s].files,
                {<<l, Shown(l)>> : l \in {k \in Link : link[k].by = w}})

ServedUpload(s, w) ==
    /\ call[s].op = "upload" /\ UNCHANGED <<erased, link, drafted>>
    /\ owner' = [owner EXCEPT ![call[s].arg] = w]
    /\ Answered(s, w, "served", call[s].arg, call[s].files, call[s].status)

ServedDelete(s, w) ==
    /\ call[s].op = "delete" /\ UNCHANGED <<owner, link, drafted>>
    /\ call[s].arg \in Stored /\ owner[call[s].arg] = w
    /\ erased' = erased \cup {call[s].arg}
    /\ Answered(s, w, "served", call[s].arg, call[s].files, call[s].status)

ServedLink(s, w) ==
    /\ call[s].op \in {"link", "relink"} /\ UNCHANGED <<owner, erased>>
    /\ \A f \in call[s].files : f \in Stored /\ owner[f] = w
    /\ Fresh \in Link /\ link[Fresh].status = "ABSENT"
    /\ link' = [link EXCEPT ![Fresh] = [files |-> call[s].files, by |-> w, status |-> "ACTIVE"]]
    /\ drafted' = IF call[s].op = "link" THEN [drafted EXCEPT ![Fresh] = call[s].files]
                  ELSE drafted
    /\ Answered(s, w, "served", Fresh, call[s].files, call[s].status)

ServedRevoke(s, w) ==
    /\ call[s].op = "revoke" /\ UNCHANGED <<owner, erased, drafted>>
    /\ link[call[s].arg].by = w
    /\ link' = [link EXCEPT ![call[s].arg].status = "REVOKED"]
    /\ Answered(s, w, "served", call[s].arg, call[s].files, call[s].status)

LEMMA ServeMoves ==
  ASSUME TypeOK, SentInv, LeftInv, NEW s \in Slot, Serve(s)
  PROVE  /\ call[s].at \in {"sent", "deaf"} /\ call' \in [Slot -> Calls]
         /\ \A q \in Slot : q # s => call'[q] = call[q]
         /\ call[s].at = "deaf" => call'[s] = NoCall
         /\ call[s].at = "sent" => call'[s].at \in {"served", "failed"} /\ call'[s].op = call[s].op
         /\ \E w \in Account \cup {None} :
               \/ Unserved(s, w)
               \/ call[s].op = "logout" /\ ServedSession(s, w)
               \/ /\ w # None
                  /\ \/ ServedSession(s, w) \/ ServedFiles(s, w) \/ ServedShares(s, w)
                     \/ ServedUpload(s, w) \/ ServedDelete(s, w) \/ ServedLink(s, w)
                     \/ ServedRevoke(s, w)
<1> DEFINE c == call[s]
           Base == /\ call' \in [Slot -> Calls]
                   /\ \A q \in Slot : q # s => call'[q] = call[q]
                   /\ call[s].at = "deaf" => call'[s] = NoCall
                   /\ call[s].at = "sent" => /\ call'[s].at \in {"served", "failed"}
                                             /\ call'[s].op = call[s].op
<1>1. c \in Calls /\ c.at \in {"sent", "deaf"}
  BY DEF TypeOK, Serve
<1>2. PICK w \in IF c.op = "login" THEN {c.arg} ELSE Speakers(c) :
             \/ w = None /\ c.op # "logout" /\ Refuse(s, w)
             \/ /\ w # None \/ c.op = "logout"
                /\ \/ ServeSession(s, w) \/ ServeListing(s, w) \/ ServeUpload(s, w)
                   \/ ServeDelete(s, w) \/ ServeLink(s, w) \/ ServeRevoke(s, w)
  BY DEF Serve
<1>3. w \in Account \cup {None}
  BY <1>1, <1>2 DEF SentInv, Speakers, TypeOK, Calls
<1> HIDE DEF c
<1>4. ASSUME NEW answer \in Calls, NEW stage \in {"served", "failed"}, answer.op = c.op,
             Settle(s, answer, stage, w)
      PROVE  Base /\ Answered(s, w, stage, answer.arg, answer.files, answer.status)
  BY <1>1, <1>3, <1>4, SettleMoves DEF Answered, c
<1>5. ASSUME Refuse(s, w) PROVE Base /\ Unserved(s, w)
  BY <1>1, <1>4, <1>5 DEF Refuse, Unserved, c
<1>6. ASSUME ServeSession(s, w) PROVE Base /\ ServedSession(s, w)
  BY <1>1, <1>4, <1>6 DEF ServeSession, ServedSession, c
<1>7. ASSUME ServeListing(s, w), w # None PROVE Base /\ (ServedFiles(s, w) \/ ServedShares(s, w))
  <2>1. CASE c.op = "files" /\ Settle(s, ListedFiles(c, w), "served", w)
    <3> DEFINE files  == {f \in Stored : owner[f] = w}
               status == {<<f, "GONE">> : f \in {g \in erased : owner[g] = w}}
               answer == [c EXCEPT !.files = files, !.status = status]
    <3>1. files \in SUBSET File /\ status \in SUBSET (File \X {"GONE"})
      BY DEF TypeOK, Stored
    <3> HIDE DEF files, status
    <3>2. /\ answer \in Calls /\ answer.op = c.op /\ answer.arg = c.arg
          /\ answer.files = files /\ answer.status = status
      BY <1>1, <3>1 DEF Calls
    <3> HIDE DEF answer
    <3>3. Settle(s, answer, "served", w)
      BY <2>1 DEF ListedFiles, answer, files, status
    <3>4. Base /\ Answered(s, w, "served", c.arg, files, status)
      BY <1>4, <3>2, <3>3
    <3>5. UNCHANGED <<server, drafted>>
      BY <1>7 DEF ServeListing
    <3>6. QED
      BY <2>1, <3>4, <3>5 DEF ServedFiles, files, status, c
  <2>2. CASE c.op = "shares" /\ Settle(s, ListedShares(c, w), "served", w)
    <3> DEFINE status == {<<l, Shown(l)>> : l \in {k \in Link : link[k].by = w}}
               answer == [c EXCEPT !.status = status]
    <3>1. status \in SUBSET (Link \X Status)
      BY DEF TypeOK, Shown, Status
    <3> HIDE DEF status
    <3>2. /\ answer \in Calls /\ answer.op = c.op /\ answer.arg = c.arg
          /\ answer.files = c.files /\ answer.status = status
      BY <1>1, <3>1 DEF Calls
    <3> HIDE DEF answer
    <3>3. Settle(s, answer, "served", w)
      BY <2>2 DEF ListedShares, answer, status
    <3>4. Base /\ Answered(s, w, "served", c.arg, c.files, status)
      BY <1>4, <3>2, <3>3
    <3>5. UNCHANGED <<server, drafted>>
      BY <1>7 DEF ServeListing
    <3>6. QED
      BY <2>2, <3>4, <3>5 DEF ServedShares, status, c
  <2>3. QED
    BY <1>7, <2>1, <2>2 DEF ServeListing, c
<1>8. ASSUME ServeUpload(s, w) PROVE Base /\ ServedUpload(s, w)
  BY <1>1, <1>4, <1>8 DEF ServeUpload, ServedUpload, c
<1>9. ASSUME ServeDelete(s, w) PROVE Base /\ (Unserved(s, w) \/ ServedDelete(s, w))
  BY <1>1, <1>4, <1>5, <1>9 DEF ServeDelete, ServedDelete, c
<1>10. ASSUME ServeLink(s, w) PROVE Base /\ (Unserved(s, w) \/ ServedLink(s, w))
  <2>1. c.op \in {"link", "relink"}
    BY <1>10 DEF ServeLink, c
  <2>2. Fresh \in Link /\ link[Fresh].status = "ABSENT"
    BY <1>1, <2>1, FreshLeft DEF Asked, c
  <2>3. CASE Refuse(s, w)
    BY <1>5, <2>3
  <2>4. CASE ~Refuse(s, w)
    <3> DEFINE answer == [c EXCEPT !.arg = Fresh]
    <3>1. /\ answer \in Calls /\ answer.op = c.op /\ answer.arg = Fresh
          /\ answer.files = c.files /\ answer.status = c.status
      BY <1>1, <2>2 DEF Calls, Items
    <3> HIDE DEF answer
    <3>2. /\ \A f \in c.files : f \in Stored /\ owner[f] = w
          /\ link' = [link EXCEPT ![Fresh] = [files |-> c.files, by |-> w, status |-> "ACTIVE"]]
          /\ drafted' = IF c.op = "link" THEN [drafted EXCEPT ![Fresh] = c.files] ELSE drafted
          /\ Settle(s, answer, "served", w)
          /\ UNCHANGED <<owner, erased>>
      BY <1>10, <2>4 DEF ServeLink, answer, c
    <3>3. Base /\ Answered(s, w, "served", Fresh, c.files, c.status)
      BY <1>4, <3>1, <3>2
    <3>4. QED
      BY <2>1, <2>2, <3>2, <3>3 DEF ServedLink, c
  <2>5. QED
    BY <2>3, <2>4
<1>11. ASSUME ServeRevoke(s, w) PROVE Base /\ (Unserved(s, w) \/ ServedRevoke(s, w))
  BY <1>1, <1>4, <1>5, <1>11 DEF ServeRevoke, ServedRevoke, c
<1>12. CASE c.op = "logout"
  <2>1. /\ ~ServeListing(s, w) /\ ~ServeUpload(s, w) /\ ~ServeDelete(s, w) /\ ~ServeLink(s, w)
        /\ ~ServeRevoke(s, w)
    BY <1>12 DEF ServeListing, ServeUpload, ServeDelete, ServeLink, ServeRevoke, c
  <2>2. QED
    BY <1>1, <1>2, <1>3, <1>6, <1>12, <2>1 DEF c
<1>13. CASE c.op # "logout"
  <2> DEFINE Some == \/ ServedSession(s, w) \/ ServedFiles(s, w) \/ ServedShares(s, w)
                     \/ ServedUpload(s, w) \/ ServedDelete(s, w) \/ ServedLink(s, w)
                     \/ ServedRevoke(s, w)
  <2>1. Refuse(s, w) => Base /\ Unserved(s, w)
    BY <1>5
  <2>2. w # None =>
          /\ ServeSession(s, w) => Base /\ Some
          /\ ServeListing(s, w) => Base /\ Some
          /\ ServeUpload(s, w) => Base /\ Some
          /\ ServeDelete(s, w) => Base /\ (Unserved(s, w) \/ Some)
          /\ ServeLink(s, w) => Base /\ (Unserved(s, w) \/ Some)
          /\ ServeRevoke(s, w) => Base /\ (Unserved(s, w) \/ Some)
    BY <1>6, <1>7, <1>8, <1>9, <1>10, <1>11
  <2> HIDE DEF Base, Some
  <2>3. Base /\ (Unserved(s, w) \/ (w # None /\ Some))
    BY <1>2, <1>13, <2>1, <2>2
  <2>4. QED
    BY <1>1, <1>3, <2>3 DEF Base, Some, c
<1>14. QED
  BY <1>12, <1>13

(* What the page makes of an answer ends the call, or starts the listing   *)
(* of one who has just signed in.                                          *)
LEMMA DeliverMoves ==
  ASSUME TypeOK, AnswerInv, NEW s \in Slot, Deliver(s)
  PROVE  /\ call' \in [Slot -> Calls]
         /\ \A q \in Slot : q # s => call'[q] = call[q]
         /\ \/ /\ call[s].at = "served" /\ call[s].op \in {"me", "login"}
               /\ call[s].who \in Account /\ Enter(s, call[s].who)
               /\ call'[s].at = "sent" /\ call'[s].op = "files" /\ call'[s].files = {}
            \/ /\ call[s].at \in {"served", "failed"} /\ call'[s] = NoCall
               /\ \/ call[s].op = "logout" /\ Leave(s)
                  \/ /\ UNCHANGED <<server, cookie, user, screen, lost, presses, drafted>>
                     /\ \/ /\ call[s].at = "served" /\ call[s].op \notin {"me", "login", "logout"}
                           /\ Applies(call[s]) /\ Hears(call[s])
                        \/ /\ call[s].at = "failed" /\ call[s].op # "logout"
                           /\ Failed(call[s]) /\ UNCHANGED history
<1>1. CASE call[s].at = "served" /\ call[s].op \in {"me", "login"}
  <2>1. Enter(s, call[s].who)
    BY <1>1 DEF Deliver
  <2>2. call[s].who \in Account
    BY <1>1 DEF AnswerInv, TypeOK, Calls
  <2>3. QED
    BY <1>1, <2>1, <2>2, EnterMoves
<1>2. CASE ~(call[s].at = "served" /\ call[s].op \in {"me", "login"})
  <2>1. /\ call[s].at \in {"served", "failed"} /\ Ends(s)
        /\ \/ call[s].op = "logout" /\ Leave(s)
           \/ /\ UNCHANGED <<server, cookie, user, screen, lost, presses, drafted>>
              /\ \/ /\ call[s].at = "served" /\ call[s].op \notin {"me", "login", "logout"}
                    /\ Applies(call[s]) /\ Hears(call[s])
                 \/ /\ call[s].at = "failed" /\ call[s].op # "logout"
                    /\ Failed(call[s]) /\ UNCHANGED history
    BY <1>2 DEF Deliver, Leave
  <2>2. QED
    BY <2>1, EndsMoves
<1>3. QED
  BY <1>1, <1>2

(* What a step may be.                                                     *)
LEMMA Steps ==
  ASSUME [Next]_vars
  PROVE  \/ Press /\ ~Reload
         \/ Press /\ Reload
         \/ \E l \in Link : Consume(l)
         \/ \E s \in Slot : Serve(s)
         \/ \E s \in Slot : Lose(s)
         \/ \E s \in Slot : Deliver(s)
         \/ UNCHANGED vars
BY DEF Next

-----------------------------------------------------------------------------
(* Types.                                                                  *)
ServerType ==
    /\ owner \in [File -> Account \cup {None}] /\ erased \subseteq File
    /\ link \in [Link -> [files : SUBSET File, by : Account \cup {None}, status : Status]]
    /\ drafted \in [Link -> SUBSET File]

PageType ==
    /\ rows \in [File -> 0..2] /\ shares \in [Link -> Status]
    /\ uploads \in [File -> {"none", "uploading", "done", "error"}]
    /\ sessionShares \in [Link -> {"none", "live", "revoked"}] /\ claimed \subseteq File
    /\ fileShareLinks \in [File -> [id : Link \cup {None}, revoked : BOOLEAN]]
    /\ {deletingId, sharingFileId} \subseteq File \cup {None}
    /\ revokingShareId \in Link \cup {None} /\ shareBusy \in BOOLEAN

HistoryType == known \in [File \cup Link -> 0..3] /\ late \subseteq File \cup Link

PersonType ==
    /\ cookie \in Account \cup {None} /\ user \in Account \cup {None} /\ screen \in Screen
    /\ lost \in 0..MaxLost

LEMMA StatusMoves ==
  ASSUME TypeOK, NEW l \in Link, NEW status \in Status,
         link' = [link EXCEPT ![l].status = status]
  PROVE  /\ link' \in [Link -> [files : SUBSET File, by : Account \cup {None}, status : Status]]
         /\ \A k \in Link : link'[k].by = link[k].by
         /\ \A k \in Link : k # l => link'[k].status = link[k].status
         /\ link'[l].status = status
<1> DEFINE T == [files : SUBSET File, by : Account \cup {None}, status : Status]
           new == [link[l] EXCEPT !.status = status]
<1>1. link \in [Link -> T]
  BY DEF TypeOK
<1>2. new \in T /\ new.by = link[l].by /\ new.status = status
  <2>1. link[l] \in T
    BY <1>1
  <2>2. QED
    BY <2>1
<1>3. link' = [link EXCEPT ![l] = new]
  OBVIOUS
<1> HIDE DEF new
<1>4. QED
  BY <1>1, <1>2, <1>3

LEMMA ServerTypeStep == TypeOK /\ SentInv /\ LeftInv /\ [Next]_vars => ServerType'
<1> SUFFICES ASSUME TypeOK, SentInv, LeftInv, [Next]_vars PROVE ServerType'
  OBVIOUS
<1>1. CASE UNCHANGED <<server, drafted>>
  BY <1>1 DEF ServerType, TypeOK
<1>2. ASSUME NEW l \in Link, Consume(l) PROVE ServerType'
  <2>1. link' \in [Link -> [files : SUBSET File, by : Account \cup {None}, status : Status]]
    BY <1>2, StatusMoves DEF Consume, Status
  <2>2. erased' \subseteq File
    BY <1>2 DEF Consume, TypeOK
  <2>3. QED
    BY <1>2, <2>1, <2>2 DEF Consume, ServerType, TypeOK
<1>3. ASSUME NEW s \in Slot, Serve(s) PROVE ServerType'
  <2>1. call[s] \in Calls /\ call[s].at # "idle"
    BY <1>3, ServeMoves DEF TypeOK
  <2>2. PICK w \in Account \cup {None} :
           \/ UNCHANGED <<server, drafted>>
           \/ ServedUpload(s, w) \/ ServedDelete(s, w) \/ ServedLink(s, w) \/ ServedRevoke(s, w)
    BY <1>3, ServeMoves DEF Unserved, ServedSession, ServedFiles, ServedShares
  <2>3. CASE ServedUpload(s, w)
    BY <2>1, <2>3 DEF ServedUpload, ServerType, TypeOK, SentInv
  <2>4. CASE ServedDelete(s, w)
    BY <2>1, <2>4 DEF ServedDelete, ServerType, TypeOK, SentInv
  <2>5. CASE ServedLink(s, w)
    BY <2>1, <2>5 DEF ServedLink, ServerType, TypeOK, Calls, Status
  <2>6. CASE ServedRevoke(s, w)
    <3>1. call[s].arg \in Link
      BY <2>1, <2>6 DEF ServedRevoke, SentInv
    <3>2. link' \in [Link -> [files : SUBSET File, by : Account \cup {None}, status : Status]]
      BY <2>6, <3>1, StatusMoves DEF ServedRevoke, Status
    <3>3. QED
      BY <2>6, <3>2 DEF ServedRevoke, ServerType, TypeOK
  <2>7. QED
    BY <1>1, <2>2, <2>3, <2>4, <2>5, <2>6
<1>4. CASE (Press /\ ~Reload) \/ Reload
  BY <1>1, <1>4, PressAsks DEF Reload
<1>5. ASSUME NEW s \in Slot, Lose(s) \/ Deliver(s) PROVE UNCHANGED <<server, drafted>>
  BY <1>5 DEF Lose, Deliver, Enter, Leave
<1>6. QED
  BY <1>1, <1>2, <1>3, <1>4, <1>5, Steps DEF vars

LEMMA CallTypeStep == TypeOK /\ SentInv /\ AnswerInv /\ LeftInv /\ [Next]_vars => call' \in [Slot -> Calls]
<1> SUFFICES ASSUME TypeOK, SentInv, AnswerInv, LeftInv, [Next]_vars PROVE call' \in [Slot -> Calls]
  OBVIOUS
<1>1. CASE UNCHANGED call
  BY <1>1 DEF TypeOK
<1>2. CASE Press /\ ~Reload
  BY <1>1, <1>2, PressAsks, AsksMoves
<1>3. CASE Reload
  BY <1>3, ReloadMoves
<1>4. ASSUME NEW s \in Slot, Serve(s) \/ Lose(s) PROVE call' \in [Slot -> Calls]
  BY <1>4, ServeMoves, LoseMoves
<1>5. ASSUME NEW s \in Slot, Deliver(s) PROVE call' \in [Slot -> Calls]
  BY <1>5, DeliverMoves
<1>6. QED
  BY <1>1, <1>2, <1>3, <1>4, <1>5, Steps DEF vars, Consume

-----------------------------------------------------------------------------
(* What an answer says.                                                    *)
(* The answer to a call about one file or link.                            *)
About(c) == CASE c.op \in {"upload", "link", "relink"} -> 1
              [] c.op = "delete" -> 2
              [] c.op = "revoke" -> 3

LEMMA InfoOne ==
  ASSUME NEW c, c.op \in {"upload", "link", "relink", "delete", "revoke"}
  PROVE  /\ Said(c) = {<<c.arg, About(c)>>} /\ About(c) \in 1..3
         /\ Info(c, c.arg) = About(c)
         /\ \A x : x # c.arg => Info(c, x) = 0
<1>1. Said(c) = {<<c.arg, About(c)>>} /\ About(c) \in 1..3
  BY DEF Said, About
<1>2. <<c.arg, About(c)>> \in Said(c) /\ \A p \in Said(c) : p[1] = c.arg /\ p[2] = About(c)
  BY <1>1
<1>3. QED
  BY <1>1, <1>2 DEF Info

LEMMA InfoFiles ==
  ASSUME TypeOK, AnswerInv, NEW s \in Slot, call[s].at = "served", call[s].op = "files"
  PROVE  /\ \A f \in call[s].files : Info(call[s], f) = 1
         /\ \A f \in File \ call[s].files : Info(call[s], f) \in {0, 2}
         /\ \A f \in File : Info(call[s], f) # 0 => owner[f] = call[s].who
         /\ \A l \in Link : Info(call[s], l) = 0
<1> DEFINE c == call[s]
<1>1. /\ \A f \in c.files : f \in File /\ owner[f] = c.who /\ <<f, "GONE">> \notin c.status
      /\ \A p \in c.status : p[1] \in File /\ p = <<p[1], "GONE">> /\ owner[p[1]] = c.who
  BY DEF AnswerInv, TypeOK, Calls
<1>2. /\ \A p \in Said(c) : \/ p[1] \in c.files /\ p[2] = 1
                            \/ /\ p[1] \in File /\ owner[p[1]] = c.who /\ p[1] \notin c.files
                               /\ p[2] = 2
      /\ \A f \in c.files : <<f, 1>> \in Said(c)
  <2>1. Said(c) = {<<f, 1>> : f \in c.files} \cup {<<p[1], Level(p[2])>> : p \in c.status}
    BY DEF Said
  <2>2. ASSUME NEW p \in c.status
        PROVE  p[1] \in File /\ owner[p[1]] = c.who /\ p[1] \notin c.files /\ Level(p[2]) = 2
    <3>1. p[1] \in File /\ p = <<p[1], "GONE">> /\ owner[p[1]] = c.who
      BY <1>1
    <3>2. p[2] = "GONE" /\ p[1] \notin c.files
      BY <1>1, <3>1
    <3>3. QED
      BY <3>1, <3>2 DEF Level
  <2>3. QED
    BY <2>1, <2>2
<1> HIDE DEF c
<1>3. ASSUME NEW f \in c.files PROVE Info(c, f) = 1
  <2>1. \E p \in Said(c) : p[1] = f
    BY <1>2
  <2>2. \A p \in Said(c) : p[1] = f => p[2] = 1
    BY <1>2
  <2>3. QED
    BY <2>1, <2>2 DEF Info
<1>4. ASSUME NEW f \in File, f \notin c.files
      PROVE  Info(c, f) \in {0, 2} /\ (Info(c, f) # 0 => owner[f] = c.who)
  <2>1. CASE \A p \in Said(c) : p[1] # f
    BY <2>1 DEF Info
  <2>2. CASE \E p \in Said(c) : p[1] = f
    <3>1. owner[f] = c.who /\ \A p \in Said(c) : p[1] = f => p[2] = 2
      BY <1>2, <1>4, <2>2
    <3>2. QED
      BY <2>2, <3>1 DEF Info
  <2>3. QED
    BY <2>1, <2>2
<1>5. ASSUME NEW l \in Link PROVE Info(c, l) = 0
  <2>1. l \notin File
    BY OwnerPageAssumption
  <2>2. \A p \in Said(c) : p[1] # l
    BY <1>1, <1>2, <2>1
  <2>3. QED
    BY <2>2 DEF Info
<1>6. QED
  BY <1>1, <1>3, <1>4, <1>5 DEF c

LEMMA InfoShares ==
  ASSUME TypeOK, AnswerInv, NEW s \in Slot, call[s].at = "served", call[s].op = "shares"
  PROVE  /\ \A p \in call[s].status : Info(call[s], p[1]) = Level(p[2]) /\ Level(p[2]) \in 1..3
         /\ \A x : (\A p \in call[s].status : p[1] # x) => Info(call[s], x) = 0
<1> DEFINE c == call[s]
<1>1. \A p \in c.status : /\ p[2] \in Status \ {"ABSENT"}
                          /\ \A q \in c.status : q[1] = p[1] => q = p
  BY DEF AnswerInv
<1>2. Said(c) = {<<p[1], Level(p[2])>> : p \in c.status}
  BY DEF Said
<1> HIDE DEF c
<1>3. ASSUME NEW p \in c.status PROVE Info(c, p[1]) = Level(p[2]) /\ Level(p[2]) \in 1..3
  <2>1. <<p[1], Level(p[2])>> \in Said(c)
    BY <1>2
  <2>2. \A r \in Said(c) : r[1] = p[1] => r[2] = Level(p[2])
    BY <1>1, <1>2
  <2>3. Level(p[2]) \in 1..3
    BY <1>1 DEF Status, Level
  <2>4. QED
    BY <2>1, <2>2, <2>3 DEF Info
<1>4. ASSUME NEW x, \A p \in c.status : p[1] # x PROVE Info(c, x) = 0
  <2>1. \A r \in Said(c) : r[1] # x
    BY <1>2, <1>4
  <2>2. QED
    BY <2>1 DEF Info
<1>5. QED
  BY <1>3, <1>4 DEF c

LEMMA InfoType ==
  ASSUME TypeOK, AnswerInv, NEW s \in Slot, call[s].at = "served",
         call[s].op \notin {"me", "login", "logout"}, NEW x \in File \cup Link
  PROVE  Info(call[s], x) \in 0..3
<1>1. call[s].op \in Op
  BY DEF TypeOK, Calls
<1>2. CASE call[s].op = "files"
  BY <1>2, InfoFiles
<1>3. CASE call[s].op = "shares"
  BY <1>3, InfoShares
<1>4. CASE call[s].op \in {"upload", "link", "relink", "delete", "revoke"}
  BY <1>4, InfoOne
<1>5. QED
  BY <1>1, <1>2, <1>3, <1>4 DEF Op

LEMMA HistoryTypeStep == TypeOK /\ SentInv /\ AnswerInv /\ [Next]_vars => HistoryType'
<1> SUFFICES ASSUME TypeOK, SentInv, AnswerInv, [Next]_vars PROVE HistoryType'
  OBVIOUS
<1>1. CASE UNCHANGED history
  BY <1>1 DEF HistoryType, TypeOK
<1>2. CASE known' = Unknown /\ late' = {}
  BY <1>2 DEF HistoryType, Unknown
<1>3. ASSUME NEW s \in Slot, Deliver(s) PROVE HistoryType'
  <2>1. CASE call[s].at = "served" /\ call[s].op \notin {"me", "login", "logout"} /\ Hears(call[s])
    <3>1. known' \in [File \cup Link -> 0..3]
      BY <2>1, InfoType DEF Hears, TypeOK
    <3>2. Doubts(call[s]) \subseteq File \cup Link
      <4>1. call[s].op \in Op
        BY DEF TypeOK, Calls
      <4>2. CASE call[s].op = "files"
        BY <4>2 DEF Doubts
      <4>3. CASE call[s].op = "shares"
        BY <4>3 DEF Doubts
      <4>4. CASE call[s].op = "upload"
        <5>1. call[s].arg \in File /\ Doubts(call[s]) \subseteq {call[s].arg}
          BY <2>1, <4>4 DEF Doubts, SentInv
        <5>2. QED
          BY <5>1
      <4>5. CASE call[s].op \in {"delete", "link", "relink", "revoke"}
        <5>1. Doubts(call[s]) = {p[1] : p \in {q \in Said(call[s]) : q[2] < known[q[1]]}}
          BY <4>5 DEF Doubts
        <5>2. Said(call[s]) = {<<call[s].arg, About(call[s])>>}
          BY <4>5, InfoOne
        <5>3. call[s].arg \in File \cup Link
          BY <2>1, <4>5 DEF SentInv, AnswerInv
        <5>4. QED
          BY <5>1, <5>2, <5>3
      <4>6. QED
        BY <2>1, <4>1, <4>2, <4>3, <4>4, <4>5 DEF Op
    <3>3. QED
      BY <2>1, <3>1, <3>2 DEF Hears, HistoryType, TypeOK
  <2>2. QED
    BY <1>1, <1>2, <1>3, <2>1, DeliverMoves DEF Enter, Leave
<1>4. CASE Press /\ ~Reload
  BY <1>1, <1>4, PressAsks
<1>5. ASSUME NEW s \in Slot, Serve(s) \/ Lose(s) PROVE UNCHANGED history
  BY <1>5 DEF Serve, Lose
<1>6. QED
  BY <1>1, <1>2, <1>3, <1>4, <1>5, Steps DEF Reload, Consume, vars

LEMMA PersonTypeStep == TypeOK /\ AnswerInv /\ [Next]_vars => PersonType'
<1> SUFFICES ASSUME TypeOK, AnswerInv, [Next]_vars PROVE PersonType'
  OBVIOUS
<1> USE DEF PersonType, TypeOK, Screen
<1>1. CASE UNCHANGED <<cookie, user, screen, lost>>
  BY <1>1
<1>2. CASE (Press /\ ~Reload) \/ Reload
  BY <1>2, PressAsks DEF Reload
<1>3. ASSUME NEW s \in Slot, Lose(s) PROVE PersonType'
  BY <1>3, OwnerPageAssumption DEF Lose
<1>4. ASSUME NEW s \in Slot, Deliver(s) PROVE PersonType'
  BY <1>1, <1>4, DeliverMoves DEF Enter, Leave
<1>5. QED
  BY <1>1, <1>2, <1>3, <1>4, Steps DEF Serve, Consume, vars

LEMMA PressesStep == TypeOK /\ [Next]_vars => presses' \in 0..MaxPresses
<1> SUFFICES ASSUME TypeOK, [Next]_vars PROVE presses' \in 0..MaxPresses
  OBVIOUS
<1>1. CASE Press
  BY <1>1, OwnerPageAssumption DEF Press, TypeOK
<1>2. CASE UNCHANGED presses
  BY <1>2 DEF TypeOK
<1>3. ASSUME NEW s \in Slot, Serve(s) \/ Lose(s) \/ Deliver(s) PROVE UNCHANGED presses
  BY <1>3 DEF Serve, Lose, Deliver, Enter, Leave
<1>4. QED
  BY <1>1, <1>2, <1>3, Steps DEF Consume, vars

LEMMA PageTypeStep == TypeOK /\ SentInv /\ AnswerInv /\ [Next]_vars => PageType'
<1> SUFFICES ASSUME TypeOK, SentInv, AnswerInv, [Next]_vars PROVE PageType'
  OBVIOUS
<1>1. CASE UNCHANGED <<lists, draft, busy>>
  BY <1>1 DEF PageType, TypeOK
<1>2. CASE Press /\ ~Reload
  <2> USE DEF PageType, TypeOK
  <2>1. rows' = rows /\ shares' = shares /\ fileShareLinks' = fileShareLinks
    BY <1>2, PressAsks
  <2>2. /\ sessionShares' \in [Link -> {"none", "live", "revoked"}] /\ claimed' \subseteq File
    BY <1>2, PressAsks DEF LeavesDrop
  <2>3. /\ uploads' \in [File -> {"none", "uploading", "done", "error"}]
        /\ {deletingId', sharingFileId'} \subseteq File \cup {None}
        /\ revokingShareId' \in Link \cup {None} /\ shareBusy' \in BOOLEAN
    <3>1. CASE UNCHANGED <<uploads, deletingId, sharingFileId, revokingShareId, shareBusy>>
      BY <3>1
    <3>2. CASE LeavesDrop /\ UNCHANGED <<deletingId, sharingFileId, revokingShareId, shareBusy>>
      BY <3>2 DEF LeavesDrop
    <3>3. ASSUME NEW op \in Op \ {"me"}, NEW arg \in Items, NEW files \in SUBSET File,
                 Allowed(op, arg, files)
          PROVE  /\ uploads' \in [File -> {"none", "uploading", "done", "error"}]
                 /\ {deletingId', sharingFileId'} \subseteq File \cup {None}
                 /\ revokingShareId' \in Link \cup {None} /\ shareBusy' \in BOOLEAN
      <4>1. uploads' \in [File -> {"none", "uploading", "done", "error"}]
        BY <3>3 DEF Allowed
      <4>2. deletingId' \in File \cup {None} /\ sharingFileId' \in File \cup {None}
        BY <3>3 DEF Allowed
      <4>3. revokingShareId' \in Link \cup {None}
        BY <3>3 DEF Allowed
      <4>4. shareBusy' \in BOOLEAN
        BY <3>3 DEF Allowed
      <4>5. QED
        BY <4>1, <4>2, <4>3, <4>4
    <3>4. QED
      BY <1>2, <3>1, <3>2, <3>3, PressAsks
  <2>4. QED
    BY <2>1, <2>2, <2>3
<1>3. CASE Reload
  <2>1. /\ rows' = NoRows /\ shares' = [l \in Link |-> "ABSENT"] /\ fileShareLinks' = NoLinks
        /\ uploads' = [f \in File |-> "none"] /\ sessionShares' = [l \in Link |-> "none"]
        /\ claimed' = {} /\ deletingId' = None /\ sharingFileId' = None
        /\ revokingShareId' = None /\ shareBusy' = FALSE
    BY <1>3 DEF Reload
  <2>2. NoRows \in [File -> 0..2] /\ NoLinks \in [File -> [id : Link \cup {None}, revoked : BOOLEAN]]
    BY DEF NoRows, NoLinks
  <2>3. [l \in Link |-> "ABSENT"] \in [Link -> Status]
    BY DEF Status
  <2>4. QED
    BY <2>1, <2>2, <2>3 DEF PageType
<1>4. ASSUME NEW s \in Slot, Deliver(s) PROVE PageType'
  <2>1. call[s] \in Calls /\ call[s].op \in Op
    BY DEF TypeOK, Calls
  <2>2. CASE Leave(s)
    BY <2>2 DEF Leave, LeavesDrop, EmptyRows, NoRows, PageType, TypeOK
  <2>3. CASE call[s].at = "failed" /\ Failed(call[s])
    <3>1. uploads' \in [File -> {"none", "uploading", "done", "error"}]
      BY <2>3 DEF Failed, TypeOK, SentInv
    <3>2. /\ deletingId' \in File \cup {None} /\ sharingFileId' \in File \cup {None}
          /\ revokingShareId' \in Link \cup {None}
      BY <2>3 DEF Failed, TypeOK
    <3>3. shareBusy' \in BOOLEAN
      BY <2>3 DEF Failed, TypeOK
    <3>4. QED
      BY <2>3, <3>1, <3>2, <3>3 DEF Failed, PageType, TypeOK
  <2>4. CASE call[s].at = "served" /\ Applies(call[s])
    <3>1. CASE call[s].op = "files" /\ SetFiles(call[s])
      BY <2>1, <3>1 DEF SetFiles, NoLinks, PageType, TypeOK, Calls
    <3>2. CASE call[s].op = "shares" /\ SetShares(call[s])
      <4>1. ASSUME NEW l \in Link, \E p \in call[s].status : p[1] = l
            PROVE  (CHOOSE p \in call[s].status : p[1] = l)[2] \in Status
        BY <2>4, <3>2, <4>1 DEF AnswerInv
      <4>2. shares' \in [Link -> Status]
        BY <3>2, <4>1 DEF SetShares, Status
      <4>3. QED
        BY <3>2, <4>2 DEF SetShares, PageType, TypeOK
    <3>3. CASE call[s].op = "upload" /\ Uploaded(call[s].arg)
      BY <2>4, <3>3 DEF Uploaded, PageType, TypeOK, SentInv
    <3>4. CASE call[s].op = "delete" /\ Deleted(call[s].arg)
      BY <2>4, <3>4 DEF Deleted, PageType, TypeOK, SentInv
    <3>5. CASE call[s].op = "link" /\ Linked(call[s])
      BY <2>1, <2>4, <3>5 DEF Linked, PageType, TypeOK, AnswerInv, Calls
    <3>6. CASE call[s].op = "relink" /\ Relinked(call[s])
      BY <2>1, <2>4, <3>6 DEF Relinked, PageType, TypeOK, AnswerInv, Calls
    <3>7. CASE call[s].op = "revoke" /\ Revoked(call[s].arg)
      BY <2>4, <3>7 DEF Revoked, PageType, TypeOK, SentInv, Status
    <3>8. QED
      BY <2>4, <3>1, <3>2, <3>3, <3>4, <3>5, <3>6, <3>7 DEF Applies
  <2>5. QED
    BY <1>1, <1>4, <2>2, <2>3, <2>4, DeliverMoves DEF Enter
<1>5. ASSUME NEW s \in Slot, Serve(s) \/ Lose(s) PROVE UNCHANGED <<lists, draft, busy>>
  BY <1>5 DEF Serve, Lose
<1>6. QED
  BY <1>1, <1>2, <1>3, <1>4, <1>5, Steps DEF Consume, vars

LEMMA TypeStep == TypeOK /\ SentInv /\ AnswerInv /\ LeftInv /\ [Next]_vars => TypeOK'
BY ServerTypeStep, CallTypeStep, HistoryTypeStep, PersonTypeStep, PressesStep, PageTypeStep
   DEF TypeOK, ServerType, PageType, HistoryType, PersonType

-----------------------------------------------------------------------------
(* Calls.                                                                  *)
LEMMA SentStep == TypeOK /\ SentInv /\ AnswerInv /\ LeftInv /\ [Next]_vars => SentInv'
<1> SUFFICES ASSUME TypeOK, SentInv, AnswerInv, LeftInv, [Next]_vars PROVE SentInv'
  OBVIOUS
<1> USE DEF SentInv
<1>1. CASE UNCHANGED call
  BY <1>1
<1>2. CASE Press /\ ~Reload
  <2>1. ASSUME NEW op \in Op \ {"me"}, NEW arg \in Items, NEW files \in SUBSET File,
               Asks(op, arg, files), Allowed(op, arg, files)
        PROVE  SentInv'
    <3>1. PICK s \in Slot : /\ \A q \in Slot : q # s => call'[q] = call[q]
                            /\ call'[s].op = op /\ call'[s].arg = arg /\ call'[s].files = files
      BY <2>1, AsksMoves
    <3>2. /\ op = "login" => arg \in Account
          /\ op \in {"upload", "delete"} => arg \in File
          /\ op = "revoke" => arg \in Link
          /\ op = "relink" => files = {arg}
      BY <2>1 DEF Allowed
    <3>3. QED
      BY <3>1, <3>2
  <2>2. QED
    BY <1>1, <1>2, <2>1, PressAsks
<1>3. CASE Reload
  BY <1>3, ReloadMoves DEF Sent
<1>4. ASSUME NEW s \in Slot, Serve(s) PROVE SentInv'
  <2>1. ASSUME call[s].at = "sent", call[s].op \in {"login", "upload", "delete", "revoke"}
        PROVE  call'[s].arg = call[s].arg
    <3>1. PICK w \in Account \cup {None} :
             \/ Unserved(s, w) \/ ServedSession(s, w) \/ ServedUpload(s, w) \/ ServedDelete(s, w)
             \/ ServedRevoke(s, w)
      BY <1>4, <2>1, ServeMoves DEF ServedFiles, ServedShares, ServedLink
    <3>2. QED
      BY <2>1, <3>1 DEF Unserved, ServedSession, ServedUpload, ServedDelete, ServedRevoke, Answered
  <2>2. QED
    BY <1>4, <2>1, ServeMoves DEF NoCall
<1>5. ASSUME NEW s \in Slot, Lose(s) PROVE SentInv'
  BY <1>5, LoseMoves DEF Lose
<1>6. ASSUME NEW s \in Slot, Deliver(s) PROVE SentInv'
  BY <1>6, DeliverMoves DEF NoCall
<1>7. QED
  BY <1>1, <1>2, <1>3, <1>4, <1>5, <1>6, Steps DEF Consume, vars

LEMMA LinkStep == TypeOK /\ SentInv /\ LeftInv /\ LinkInv /\ [Next]_vars => LinkInv'
<1> SUFFICES ASSUME TypeOK, SentInv, LeftInv, LinkInv, [Next]_vars PROVE LinkInv'
  OBVIOUS
<1> USE DEF LinkInv
<1>1. CASE UNCHANGED <<link, drafted>>
  BY <1>1
<1>2. ASSUME NEW l \in Link, NEW status \in {"CONSUMED", "REVOKED"}, UNCHANGED drafted,
             link' = [link EXCEPT ![l].status = status], link[l].by # None
      PROVE  LinkInv'
  BY <1>2, StatusMoves DEF Status
<1>3. ASSUME NEW l \in Link, Consume(l) PROVE LinkInv'
  BY <1>2, <1>3 DEF Consume
<1>4. ASSUME NEW s \in Slot, Serve(s) PROVE LinkInv'
  <2>1. call[s].at # "idle"
    BY <1>4, ServeMoves
  <2>2. PICK w \in Account \cup {None} :
           UNCHANGED <<link, drafted>> \/ (w # None /\ (ServedLink(s, w) \/ ServedRevoke(s, w)))
    BY <1>4, ServeMoves DEF Unserved, ServedSession, ServedFiles, ServedShares, ServedUpload,
                            ServedDelete
  <2>3. CASE w # None /\ ServedLink(s, w)
    BY <2>3 DEF ServedLink, TypeOK
  <2>4. CASE w # None /\ ServedRevoke(s, w)
    BY <1>2, <2>1, <2>4 DEF ServedRevoke, SentInv
  <2>5. QED
    BY <1>1, <2>2, <2>3, <2>4
<1>5. CASE (Press /\ ~Reload) \/ (Press /\ Reload)
  BY <1>1, <1>5, PressAsks DEF Reload
<1>6. ASSUME NEW s \in Slot, Lose(s) \/ Deliver(s) PROVE UNCHANGED <<link, drafted>>
  BY <1>6 DEF Lose, Deliver, Enter, Leave
<1>7. QED
  BY <1>1, <1>3, <1>4, <1>5, <1>6, Steps DEF vars

(* What the service is asked only once is who owns a file.                 *)
LEMMA OwnerMoves ==
  TypeOK /\ SentInv /\ LeftInv /\ UploadInv /\ [Next]_vars =>
    \A f \in File : owner[f] # None => owner'[f] = owner[f]
<1> SUFFICES ASSUME TypeOK, SentInv, LeftInv, UploadInv, [Next]_vars, NEW f \in File, owner[f] # None
             PROVE  owner'[f] = owner[f]
  OBVIOUS
<1>1. ASSUME NEW s \in Slot, Serve(s) PROVE owner'[f] = owner[f]
  <2>1. PICK w \in Account \cup {None} : UNCHANGED owner \/ ServedUpload(s, w)
    BY <1>1, ServeMoves DEF Unserved, ServedSession, ServedFiles, ServedShares, ServedDelete,
                            ServedLink, ServedRevoke
  <2>2. CASE ServedUpload(s, w)
    <3>1. call[s].arg # f
      BY <1>1, <2>2, ServeMoves DEF ServedUpload, UploadInv, Uploading
    <3>2. QED
      BY <2>2, <3>1 DEF ServedUpload, TypeOK
  <2>3. QED
    BY <2>1, <2>2
<1>2. CASE (Press /\ ~Reload) \/ (Press /\ Reload)
  BY <1>2, PressAsks DEF Reload
<1>3. ASSUME NEW s \in Slot, Lose(s) \/ Deliver(s) PROVE UNCHANGED owner
  BY <1>3 DEF Lose, Deliver, Enter, Leave
<1>4. QED
  BY <1>1, <1>2, <1>3, Steps DEF Consume, vars

LEMMA AnswerStep ==
  TypeOK /\ SentInv /\ AnswerInv /\ LeftInv /\ LinkInv /\ UploadInv /\ [Next]_vars => AnswerInv'
<1> DEFINE Tells(s) ==
       /\ call[s].op # "logout" => call[s].who # None
       /\ call[s].op \in {"upload", "delete"} => owner[call[s].arg] = call[s].who
       /\ call[s].op \in {"link", "relink"} => call[s].arg \in Link
       /\ call[s].op = "files" =>
             /\ \A f \in call[s].files : owner[f] = call[s].who /\ <<f, "GONE">> \notin call[s].status
             /\ \A p \in call[s].status : /\ p[1] \in File /\ p = <<p[1], "GONE">>
                                          /\ owner[p[1]] = call[s].who
       /\ call[s].op = "shares" =>
             \A p \in call[s].status : /\ p[1] \in Link /\ p[2] \in Status \ {"ABSENT"}
                                       /\ p = <<p[1], p[2]>>
                                       /\ \A q \in call[s].status : q[1] = p[1] => q = p
<1> SUFFICES ASSUME TypeOK, SentInv, AnswerInv, LeftInv, LinkInv, UploadInv, [Next]_vars,
                    NEW q \in Slot, call'[q].at = "served"
             PROVE  Tells(q)'
  BY DEF AnswerInv
<1>1. ASSUME call'[q] = call[q] PROVE Tells(q)'
  <2>1. Tells(q)
    BY <1>1 DEF AnswerInv
  <2>2. call[q] \in Calls
    BY DEF TypeOK
  <2>3. /\ call[q].op # "logout" => call[q].who # None
        /\ call[q].op \in {"upload", "delete"} => call[q].arg \in File
    BY <1>1 DEF AnswerInv, SentInv
  <2>4. \A f \in File : owner[f] # None => owner'[f] = owner[f]
    BY OwnerMoves
  <2>5. QED
    BY <1>1, <2>1, <2>2, <2>3, <2>4 DEF Calls
<1>2. ASSUME NEW s \in Slot, Serve(s) PROVE Tells(q)'
  <2>1. CASE q # s
    BY <1>1, <1>2, <2>1, ServeMoves
  <2>2. CASE q = s
    <3>1. call[s].at = "sent" /\ call'[s].op = call[s].op /\ call[s].op \in Op
      BY <1>2, <2>2, ServeMoves DEF NoCall, TypeOK, Calls
    <3>2. PICK w \in Account \cup {None} :
             \/ call[s].op = "logout" /\ ServedSession(s, w)
             \/ /\ w # None
                /\ \/ ServedSession(s, w) \/ ServedFiles(s, w) \/ ServedShares(s, w)
                   \/ ServedUpload(s, w) \/ ServedDelete(s, w) \/ ServedLink(s, w)
                   \/ ServedRevoke(s, w)
      BY <1>2, <2>2, <3>1, ServeMoves DEF Unserved, Answered
    <3>3. CASE ServedSession(s, w)
      BY <2>2, <3>1, <3>2, <3>3 DEF ServedSession, Answered
    <3>4. CASE w # None /\ ServedFiles(s, w)
      <4>1. /\ call'[s].op = "files" /\ call'[s].who = w /\ owner' = owner
            /\ call'[s].files = {f \in Stored : owner[f] = w}
            /\ call'[s].status = {<<f, "GONE">> : f \in {g \in erased : owner[g] = w}}
        BY <3>1, <3>4 DEF ServedFiles, Answered
      <4>2. \A f \in call'[s].files : owner'[f] = w /\ <<f, "GONE">> \notin call'[s].status
        BY <4>1 DEF Stored
      <4>3. \A p \in call'[s].status : p[1] \in File /\ p = <<p[1], "GONE">> /\ owner'[p[1]] = w
        BY <4>1 DEF TypeOK
      <4>4. QED
        BY <2>2, <3>4, <4>1, <4>2, <4>3
    <3>5. CASE w # None /\ ServedShares(s, w)
      <4>1. /\ call'[s].op = "shares" /\ call'[s].who = w
            /\ call'[s].status = {<<l, Shown(l)>> : l \in {k \in Link : link[k].by = w}}
        BY <3>1, <3>5 DEF ServedShares, Answered
      <4>2. ASSUME NEW l \in Link, link[l].by = w PROVE Shown(l) \in Status \ {"ABSENT"}
        BY <3>5, <4>2 DEF Shown, LinkInv, TypeOK, Status
      <4>3. \A p \in call'[s].status : /\ p[1] \in Link /\ p[2] \in Status \ {"ABSENT"}
                                       /\ p = <<p[1], p[2]>>
                                       /\ \A r \in call'[s].status : r[1] = p[1] => r = p
        BY <4>1, <4>2
      <4>4. QED
        BY <2>2, <3>5, <4>1, <4>3
    <3>6. CASE w # None /\ ServedUpload(s, w)
      BY <2>2, <3>1, <3>6 DEF ServedUpload, Answered, TypeOK, SentInv
    <3>7. CASE w # None /\ ServedDelete(s, w)
      BY <2>2, <3>1, <3>7 DEF ServedDelete, Answered
    <3>8. CASE w # None /\ ServedLink(s, w)
      BY <2>2, <3>1, <3>8 DEF ServedLink, Answered
    <3>9. CASE w # None /\ ServedRevoke(s, w)
      BY <2>2, <3>1, <3>9 DEF ServedRevoke, Answered
    <3>10. QED
      BY <3>2, <3>3, <3>4, <3>5, <3>6, <3>7, <3>8, <3>9
  <2>3. QED
    BY <2>1, <2>2
<1>3. CASE Press /\ ~Reload
  BY <1>1, <1>3, PressAsks, AsksMoves
<1>4. CASE Reload
  BY <1>1, <1>4, ReloadMoves DEF Sent
<1>5. ASSUME NEW s \in Slot, Lose(s) \/ Deliver(s) PROVE Tells(q)'
  BY <1>1, <1>5, LoseMoves, DeliverMoves DEF NoCall
<1>6. QED
  BY <1>1, <1>2, <1>3, <1>4, <1>5, Steps DEF Consume, vars

LEMMA UploadStep == TypeOK /\ SentInv /\ AnswerInv /\ LeftInv /\ UploadInv /\ [Next]_vars => UploadInv'
<1> SUFFICES ASSUME TypeOK, SentInv, AnswerInv, LeftInv, UploadInv, [Next]_vars PROVE UploadInv'
  OBVIOUS
<1> USE DEF UploadInv, Uploading
<1>1. CASE UNCHANGED <<call, owner>>
  BY <1>1
<1>2. CASE Press /\ ~Reload
  <2>1. ASSUME NEW op \in Op \ {"me"}, NEW arg \in Items, NEW files \in SUBSET File,
               Asks(op, arg, files), Allowed(op, arg, files), owner' = owner
        PROVE  UploadInv'
    <3>1. PICK s \in Slot : /\ \A q \in Slot : q # s => call'[q] = call[q]
                            /\ call'[s].op = op /\ call'[s].arg = arg
      BY <2>1, AsksMoves
    <3>2. CASE op # "upload"
      BY <2>1, <3>1, <3>2
    <3>3. CASE op = "upload"
      <4>1. owner[arg] = None /\ ~\E q \in Slot : Uploading(q) /\ call[q].arg = arg
        BY <2>1, <3>3 DEF Allowed
      <4>2. QED
        BY <2>1, <3>1, <3>3, <4>1
    <3>4. QED
      BY <3>2, <3>3
  <2>2. QED
    BY <1>1, <1>2, <2>1, PressAsks
<1>3. CASE Reload
  BY <1>3, ReloadMoves DEF Reload, Sent
<1>4. ASSUME NEW s \in Slot, Serve(s) PROVE UploadInv'
  <2>1. PICK w \in Account \cup {None} : UNCHANGED owner \/ ServedUpload(s, w)
    BY <1>4, ServeMoves DEF Unserved, ServedSession, ServedFiles, ServedShares, ServedDelete,
                            ServedLink, ServedRevoke
  <2>2. ASSUME call[s].op = "upload", call[s].at = "sent" PROVE call'[s].arg = call[s].arg
    BY <1>4, <2>2, ServeMoves DEF Unserved, ServedSession, ServedFiles, ServedShares,
                    ServedUpload, ServedDelete, ServedLink, ServedRevoke, Answered
  <2>3. CASE UNCHANGED owner
    BY <1>4, <2>2, <2>3, ServeMoves DEF NoCall
  <2>4. CASE ServedUpload(s, w)
    <3>1. \A q \in Slot : Uploading(q) /\ q # s => call[q].arg # call[s].arg
      BY <1>4, <2>4, ServeMoves DEF ServedUpload
    <3>2. \A q \in Slot : Uploading(q) /\ q # s => owner'[call[q].arg] = owner[call[q].arg]
      BY <2>4, <3>1 DEF ServedUpload, TypeOK, SentInv
    <3>3. QED
      BY <1>4, <2>2, <3>2, ServeMoves DEF NoCall
  <2>5. QED
    BY <2>1, <2>3, <2>4
<1>5. ASSUME NEW s \in Slot, Lose(s) PROVE UploadInv'
  BY <1>5, LoseMoves DEF Lose
<1>6. ASSUME NEW s \in Slot, Deliver(s) PROVE UploadInv'
  <2>1. UNCHANGED owner
    BY <1>6 DEF Deliver, Enter, Leave
  <2>2. QED
    BY <1>6, <2>1, DeliverMoves DEF NoCall
<1>7. QED
  BY <1>1, <1>2, <1>3, <1>4, <1>5, <1>6, Steps DEF Consume, vars

LEMMA FewerAsked ==
  ASSUME LeftInv, Asked' \subseteq Asked, Absent' = Absent
  PROVE  LeftInv'
<1>1. IsFiniteSet(Asked) /\ IsFiniteSet(Absent)
  BY OwnerPageAssumption, FS_Subset DEF Asked, Absent
<1>2. IsFiniteSet(Asked') /\ Cardinality(Asked') <= Cardinality(Asked)
  BY <1>1, FS_Subset
<1>3. Cardinality(Asked') \in Nat /\ Cardinality(Asked) \in Nat /\ Cardinality(Absent) \in Nat
  BY <1>1, <1>2, FS_CardinalityType
<1>4. QED
  BY <1>2, <1>3 DEF LeftInv

LEMMA LeftStep ==
  TypeOK /\ SentInv /\ AnswerInv /\ LeftInv /\ LinkInv /\ [Next]_vars => LeftInv'
<1> SUFFICES ASSUME TypeOK, SentInv, AnswerInv, LeftInv, LinkInv, [Next]_vars PROVE LeftInv'
  OBVIOUS
<1>1. /\ IsFiniteSet(Asked) /\ IsFiniteSet(Absent)
      /\ Cardinality(Asked) \in Nat /\ Cardinality(Absent) \in Nat
  BY OwnerPageAssumption, FS_Subset, FS_CardinalityType DEF Asked, Absent
<1>2. CASE UNCHANGED <<call, link>>
  BY <1>2, FewerAsked DEF Asked, Absent
<1>3. CASE Press /\ ~Reload
  <2>1. ASSUME NEW op \in Op \ {"me"}, NEW arg \in Items, NEW files \in SUBSET File,
               Asks(op, arg, files), Allowed(op, arg, files), link' = link
        PROVE  LeftInv'
    <3>1. PICK s \in Slot : /\ \A q \in Slot : q # s => call'[q] = call[q]
                            /\ call[s].at = "idle" /\ call'[s].op = op
      BY <2>1, AsksMoves
    <3>2. Absent' = Absent
      BY <2>1 DEF Absent
    <3>3. CASE op \notin {"link", "relink"}
      <4>1. Asked' \subseteq Asked
        BY <3>1, <3>3 DEF Asked
      <4>2. QED
        BY <3>2, <4>1, FewerAsked
    <3>4. CASE op \in {"link", "relink"}
      <4>1. Cardinality(Asked) < Cardinality(Absent)
        BY <1>1, <2>1, <3>4 DEF Allowed, LinksLeft, Asked, Absent
      <4>2. Asked' \subseteq Asked \cup {s}
        BY <3>1 DEF Asked
      <4>3. s \notin Asked
        BY <3>1 DEF Asked
      <4>4. IsFiniteSet(Asked \cup {s}) /\ Cardinality(Asked \cup {s}) = Cardinality(Asked) + 1
        BY <1>1, <4>3, FS_AddElement
      <4>5. IsFiniteSet(Asked') /\ Cardinality(Asked') <= Cardinality(Asked) + 1
        BY <4>2, <4>4, FS_Subset
      <4>6. Cardinality(Asked') \in Nat
        BY <4>5, FS_CardinalityType
      <4>7. QED
        BY <1>1, <3>2, <4>1, <4>5, <4>6 DEF LeftInv
    <3>5. QED
      BY <3>3, <3>4
  <2>2. QED
    BY <1>2, <1>3, <2>1, PressAsks
<1>4. CASE Reload
  <2>1. Absent' = Absent
    BY <1>4 DEF Absent, Reload
  <2>2. Asked' \subseteq Asked
    BY <1>4, ReloadMoves DEF Asked, Sent
  <2>3. QED
    BY <2>1, <2>2, FewerAsked
<1>5. ASSUME NEW s \in Slot, Serve(s) PROVE LeftInv'
  <2>1. Asked' \subseteq Asked /\ s \notin Asked'
    BY <1>5, ServeMoves DEF Asked, NoCall
  <2>2. PICK w \in Account \cup {None} :
           UNCHANGED link \/ (w # None /\ (ServedLink(s, w) \/ ServedRevoke(s, w)))
    BY <1>5, ServeMoves DEF Unserved, ServedSession, ServedFiles, ServedShares, ServedUpload,
                            ServedDelete
  <2>3. CASE UNCHANGED link
    BY <2>1, <2>3, FewerAsked DEF Absent
  <2>4. CASE w # None /\ ServedRevoke(s, w)
    <3>1. call[s].arg \in Link /\ link[call[s].arg].status # "ABSENT"
      BY <1>5, <2>4, ServeMoves DEF ServedRevoke, SentInv, LinkInv
    <3>2. Absent' = Absent
      BY <2>4, <3>1, StatusMoves DEF ServedRevoke, Status, Absent
    <3>3. QED
      BY <2>1, <3>2, FewerAsked
  <2>5. CASE w # None /\ ServedLink(s, w)
    <3>1. s \in Asked /\ Asked' \subseteq Asked \ {s}
      BY <1>5, <2>1, <2>5, ServeMoves DEF ServedLink, Asked
    <3>2. Fresh \in Absent /\ Absent' = Absent \ {Fresh}
      BY <2>5 DEF ServedLink, Absent, TypeOK
    <3>3. /\ Cardinality(Asked \ {s}) = Cardinality(Asked) - 1 /\ IsFiniteSet(Asked \ {s})
          /\ Cardinality(Absent \ {Fresh}) = Cardinality(Absent) - 1
      BY <1>1, <3>1, <3>2, FS_RemoveElement
    <3>4. IsFiniteSet(Asked') /\ Cardinality(Asked') <= Cardinality(Asked \ {s})
      BY <3>1, <3>3, FS_Subset
    <3>5. Cardinality(Asked') \in Nat
      BY <3>4, FS_CardinalityType
    <3>6. QED
      BY <1>1, <3>2, <3>3, <3>4, <3>5 DEF LeftInv
  <2>6. QED
    BY <2>2, <2>3, <2>4, <2>5
<1>6. ASSUME NEW s \in Slot, Lose(s) PROVE LeftInv'
  <2>1. Asked' \subseteq Asked
    BY <1>6, LoseMoves DEF Asked
  <2>2. Absent' = Absent
    BY <1>6 DEF Lose, Absent
  <2>3. QED
    BY <2>1, <2>2, FewerAsked
<1>7. ASSUME NEW s \in Slot, Deliver(s) PROVE LeftInv'
  <2>1. Asked' \subseteq Asked
    BY <1>7, DeliverMoves DEF Asked, NoCall
  <2>2. Absent' = Absent
    BY <1>7 DEF Deliver, Enter, Leave, Absent
  <2>3. QED
    BY <2>1, <2>2, FewerAsked
<1>8. ASSUME NEW l \in Link, Consume(l) PROVE LeftInv'
  <2>1. Absent' = Absent
    BY <1>8, StatusMoves DEF Consume, Absent, Status
  <2>2. Asked' \subseteq Asked
    BY <1>8 DEF Consume, Asked
  <2>3. QED
    BY <2>1, <2>2, FewerAsked
<1>9. QED
  BY <1>2, <1>3, <1>4, <1>5, <1>6, <1>7, <1>8, Steps DEF vars

-----------------------------------------------------------------------------
(* The person.                                                             *)
LEMMA HearsOwn ==
  ASSUME TypeOK, SentInv, AnswerInv, PersonInv, NEW s \in Slot, call[s].at = "served",
         call[s].op \notin {"me", "login", "logout"}, Hears(call[s])
  PROVE  /\ user = None => \A x \in File \cup Link : known'[x] = 0
         /\ \A f \in File : known'[f] # 0 => owner[f] = user
<1> DEFINE c == call[s]
<1>1. /\ \A x \in File \cup Link :
            known'[x] = IF c.who = user /\ c.op # "shares" /\ Info(c, x) > known[x]
                          THEN Info(c, x) ELSE known[x]
      /\ c.who # None /\ c.op \in Op
  BY DEF Hears, AnswerInv, TypeOK, Calls
<1>2. ASSUME user = None, NEW x \in File \cup Link PROVE known'[x] = 0
  BY <1>1, <1>2 DEF PersonInv
<1>3. ASSUME NEW f \in File, known'[f] # 0 PROVE owner[f] = user
  <2>1. CASE known'[f] = known[f]
    BY <1>3, <2>1 DEF PersonInv
  <2>2. CASE known'[f] # known[f]
    <3>1. c.who = user /\ c.op # "shares" /\ known'[f] = Info(c, f)
      BY <1>1, <2>2
    <3>2. CASE c.op = "files"
      BY <1>3, <3>1, <3>2, InfoFiles
    <3>3. CASE c.op \in {"upload", "delete"}
      BY <1>3, <3>1, <3>3, InfoOne DEF AnswerInv
    <3>4. CASE c.op \in {"link", "relink", "revoke"}
      <4>1. c.arg \in Link
        BY <3>4 DEF SentInv, AnswerInv
      <4>2. c.arg # f
        BY <4>1, OwnerPageAssumption
      <4>3. QED
        BY <1>3, <3>1, <3>4, <4>2, InfoOne
    <3>5. QED
      BY <1>1, <3>1, <3>2, <3>3, <3>4 DEF Op
  <2>3. QED
    BY <2>1, <2>2
<1>4. QED
  BY <1>2, <1>3

LEMMA PersonStep ==
  TypeOK /\ SentInv /\ AnswerInv /\ LeftInv /\ UploadInv /\ PersonInv /\ [Next]_vars => PersonInv'
<1> SUFFICES ASSUME TypeOK, SentInv, AnswerInv, LeftInv, UploadInv, PersonInv, [Next]_vars
             PROVE  PersonInv'
  OBVIOUS
<1> USE DEF PersonInv, Signing, Live
<1>1. UNCHANGED <<user, screen, known>> =>
        /\ user' = None <=> screen' = "signin"
        /\ user' = None => \A x \in File \cup Link : known'[x] = 0
        /\ \A f \in File : known'[f] # 0 => owner'[f] = user'
  BY OwnerMoves
<1>2. CASE UNCHANGED <<user, screen, known, call>>
  BY <1>1, <1>2
<1>3. CASE Press /\ ~Reload
  <2>1. UNCHANGED <<user, owner, known>> /\ (user' = None <=> screen' = "signin")
    BY <1>3, PressAsks DEF Signed
  <2>2. ASSUME NEW op \in Op \ {"me"}, NEW arg \in Items, NEW files \in SUBSET File,
               Asks(op, arg, files), Allowed(op, arg, files)
        PROVE  \A s \in Slot : Signing(s)' => user' = None /\ \A q \in Slot : Signing(q)' => q = s
    <3>1. PICK s \in Slot : /\ \A q \in Slot : q # s => call'[q] = call[q]
                            /\ call'[s].op = op
      BY <2>2, AsksMoves
    <3>2. op = "login" => user = None /\ \A q \in Slot : ~Signing(q)
      BY <2>2 DEF Allowed, SigninForm, Waits
    <3>3. QED
      BY <2>1, <3>1, <3>2
  <2>3. \A s \in Slot : Signing(s)' => user' = None /\ \A q \in Slot : Signing(q)' => q = s
    BY <1>3, <2>1, <2>2, PressAsks
  <2>4. QED
    BY <2>1, <2>3
<1>4. CASE Reload
  <2>1. user' = None /\ screen' = "signin" /\ \A x \in File \cup Link : known'[x] = 0
    BY <1>4 DEF Reload, Unknown
  <2>2. QED
    BY <1>4, <2>1, ReloadMoves
<1>5. ASSUME NEW s \in Slot, Serve(s) PROVE PersonInv'
  <2>1. UNCHANGED <<user, screen, known>>
    BY <1>5 DEF Serve
  <2>2. QED
    BY <1>1, <1>5, <2>1, ServeMoves DEF NoCall
<1>6. ASSUME NEW s \in Slot, Lose(s) PROVE PersonInv'
  <2>1. UNCHANGED <<user, screen, known>>
    BY <1>6 DEF Lose
  <2>2. QED
    BY <1>1, <1>6, <2>1, LoseMoves DEF Lose
<1>7. ASSUME NEW s \in Slot, Deliver(s) PROVE PersonInv'
  <2>1. CASE call[s].op \in {"me", "login"} /\ call[s].at = "served"
    <3>1. /\ user' \in Account /\ screen' = "drop" /\ known' = known
          /\ call'[s].op = "files" /\ \A q \in Slot : q # s => call'[q] = call[q]
      BY <1>7, <2>1, DeliverMoves DEF Enter, NoCall
    <3>2. user = None /\ \A q \in Slot : Signing(q) => q = s
      BY <2>1
    <3>3. user' # None
      BY <3>1, OwnerPageAssumption
    <3>4. QED
      BY <3>1, <3>2, <3>3
  <2>2. CASE ~(call[s].op \in {"me", "login"} /\ call[s].at = "served")
    <3>1. \A q \in Slot : Signing(q)' => Signing(q)
      BY <1>7, <2>2, DeliverMoves DEF NoCall
    <3>2. CASE Leave(s)
      BY <3>1, <3>2 DEF Leave, Unknown
    <3>3. CASE /\ UNCHANGED <<owner, user, screen>>
               /\ \/ /\ call[s].at = "served" /\ call[s].op \notin {"me", "login", "logout"}
                     /\ Hears(call[s])
                  \/ UNCHANGED history
      BY <1>1, <3>1, <3>3, HearsOwn
    <3>4. QED
      BY <1>7, <2>2, <3>2, <3>3, DeliverMoves
  <2>3. QED
    BY <2>1, <2>2
<1>8. QED
  BY <1>2, <1>3, <1>4, <1>5, <1>6, <1>7, Steps DEF Consume, vars

LEMMA BusyStep ==
  TypeOK /\ SentInv /\ AnswerInv /\ LeftInv /\ BusyInv /\ [Next]_vars => BusyInv'
<1> SUFFICES ASSUME TypeOK, SentInv, AnswerInv, LeftInv, BusyInv, [Next]_vars PROVE BusyInv'
  OBVIOUS
<1> USE DEF BusyInv, Linking, Live
<1>1. CASE UNCHANGED <<call, shareBusy>>
  BY <1>1
<1>2. CASE Press /\ ~Reload
  <2>1. ASSUME NEW op \in Op \ {"me"}, NEW arg \in Items, NEW files \in SUBSET File,
               Asks(op, arg, files), Allowed(op, arg, files)
        PROVE  BusyInv'
    <3>1. PICK s \in Slot : /\ \A q \in Slot : q # s => call'[q] = call[q]
                            /\ call'[s].op = op
      BY <2>1, AsksMoves
    <3>2. /\ op = "link" => ~shareBusy /\ shareBusy'
          /\ op # "link" => shareBusy' = shareBusy
      BY <2>1 DEF Allowed
    <3>3. QED
      BY <3>1, <3>2
  <2>2. QED
    BY <1>1, <1>2, <2>1, PressAsks
<1>3. CASE Reload
  BY <1>3, ReloadMoves DEF Sent
<1>4. ASSUME NEW s \in Slot, Serve(s) \/ Lose(s) PROVE BusyInv'
  <2>1. UNCHANGED shareBusy
    BY <1>4 DEF Serve, Lose
  <2>2. QED
    BY <1>4, <2>1, ServeMoves, LoseMoves DEF NoCall, Lose
<1>5. ASSUME NEW s \in Slot, Deliver(s) PROVE BusyInv'
  <2>1. \A q \in Slot : Linking(q)' => Linking(q) /\ q # s
    BY <1>5, DeliverMoves DEF NoCall
  <2>2. shareBusy' = shareBusy \/ Linking(s)
    BY <1>5, DeliverMoves DEF Enter, Leave, Applies, SetFiles, SetShares, Uploaded, Deleted,
                              Linked, Relinked, Revoked, Failed
  <2>3. QED
    BY <2>1, <2>2
<1>6. QED
  BY <1>1, <1>2, <1>3, <1>4, <1>5, Steps DEF Consume, vars

-----------------------------------------------------------------------------
(* The list of files.                                                      *)

(* What the history makes of an answer about one file or link.             *)
LEMMA HearsOne ==
  ASSUME TypeOK, SentInv, AnswerInv, NEW s \in Slot, call[s].at = "served",
         call[s].op \in {"upload", "delete", "link", "relink", "revoke"}, Hears(call[s])
  PROVE  LET c == call[s] IN
         /\ c.arg \in File \cup Link
         /\ known'[c.arg] = IF c.who = user /\ About(c) > known[c.arg] THEN About(c)
                            ELSE known[c.arg]
         /\ \A x \in File \cup Link : x # c.arg => /\ known'[x] = known[x]
                                                   /\ x \in late' <=> x \in late
         /\ c.op = "upload" => (c.arg \notin late' => c.who = user /\ known[c.arg] = 0)
         /\ c.op # "upload" => (c.arg \notin late' => ~(About(c) < known[c.arg]))
<1> DEFINE c == call[s]
<1>1. /\ Said(c) = {<<c.arg, About(c)>>} /\ About(c) \in 1..3 /\ Info(c, c.arg) = About(c)
      /\ \A x : x # c.arg => Info(c, x) = 0
  BY InfoOne
<1>2. c.arg \in File \cup Link
  BY DEF SentInv, AnswerInv
<1>3. /\ \A x \in File \cup Link :
            known'[x] = IF c.who = user /\ c.op # "shares" /\ Info(c, x) > known[x]
                          THEN Info(c, x) ELSE known[x]
      /\ late' = (late \ Dispels(c)) \cup Doubts(c)
  BY DEF Hears
<1>4. \A x \in File \cup Link : known[x] \in 0..3
  BY DEF TypeOK
<1>5. Dispels(c) \subseteq {c.arg}
  BY DEF Dispels
<1>6. CASE c.op = "upload"
  <2>1. Doubts(c) = IF c.who = user /\ known[c.arg] = 0 THEN {} ELSE {c.arg}
    BY <1>6 DEF Doubts
  <2>2. QED
    BY <1>1, <1>2, <1>3, <1>4, <1>5, <1>6, <2>1
<1>7. CASE c.op # "upload"
  <2>1. Doubts(c) = {p[1] : p \in {q \in Said(c) : q[2] < known[q[1]]}}
    BY <1>7 DEF Doubts
  <2>2. Doubts(c) = IF About(c) < known[c.arg] THEN {c.arg} ELSE {}
    <3> DEFINE p == <<c.arg, About(c)>>
    <3>1. {q \in Said(c) : q[2] < known[q[1]]} = IF About(c) < known[c.arg] THEN {p} ELSE {}
      BY <1>1
    <3>2. {r[1] : r \in {p}} = {c.arg} /\ {r[1] : r \in {}} = {}
      OBVIOUS
    <3>3. QED
      BY <2>1, <3>1, <3>2
  <2>3. QED
    BY <1>1, <1>2, <1>3, <1>4, <1>5, <1>7, <2>2
<1>8. QED
  BY <1>6, <1>7

LEMMA ListStep ==
  /\ TypeOK /\ SentInv /\ AnswerInv /\ PersonInv /\ ListFollows /\ [Next]_vars
  => ListFollows'
<1> SUFFICES ASSUME TypeOK, SentInv, AnswerInv, PersonInv, ListFollows, [Next]_vars
             PROVE  ListFollows'
  OBVIOUS
<1> USE DEF ListFollows
<1>1. CASE UNCHANGED <<rows, known, late>>
  BY <1>1
<1>2. CASE rows' = NoRows /\ known' = Unknown /\ late' = {}
  BY <1>2 DEF NoRows, Unknown
<1>3. ASSUME NEW s \in Slot, call[s].at = "served", Applies(call[s]), Hears(call[s]),
             call[s].op \notin {"me", "login", "logout"}
      PROVE  ListFollows'
  <2> DEFINE c == call[s]
  <2>1. c \in Calls /\ c.who # None
    BY <1>3 DEF TypeOK, AnswerInv
  <2>2. \A x \in File \cup Link : known[x] \in 0..3
    BY DEF TypeOK
  <2>3. CASE c.op = "files" /\ SetFiles(c)
    <3>1. CASE c.who = user
      <4>1. ASSUME NEW f \in File \ late' PROVE rows'[f] = IF known'[f] = 1 THEN 1 ELSE 0
        <5>1. Info(c, f) >= known[f]
          <6>1. Doubts(c) = {g \in File : Info(c, g) < known[g]}
            BY <2>3, <3>1 DEF Doubts
          <6>2. ~(Info(c, f) < known[f]) /\ Info(c, f) \in 0..3
            BY <1>3, <4>1, <6>1, InfoType DEF Hears
          <6>3. QED
            BY <2>2, <6>2
        <5>2. known'[f] = Info(c, f)
          BY <1>3, <2>2, <2>3, <3>1, <5>1, InfoType DEF Hears
        <5>3. QED
          BY <1>3, <2>3, <5>2, InfoFiles DEF SetFiles
      <4>2. QED
        BY <4>1
    <3>2. CASE c.who # user
      BY <1>3, <2>3, <3>2 DEF Hears, Doubts
    <3>3. QED
      BY <3>1, <3>2
  <2>4. CASE c.op = "shares" /\ SetShares(c)
    BY <1>3, <2>4 DEF Hears, SetShares, Dispels
  <2>5. CASE c.op = "upload" /\ Uploaded(c.arg)
    <3>1. c.arg \in File /\ About(c) = 1 /\ rows' = [rows EXCEPT ![c.arg] = IF @ < 2 THEN @ + 1 ELSE @]
      BY <1>3, <2>5 DEF SentInv, About, Uploaded
    <3>2. ASSUME NEW f \in File \ late' PROVE rows'[f] = IF known'[f] = 1 THEN 1 ELSE 0
      <4>1. CASE f = c.arg
        <5>1. c.who = user /\ known[f] = 0 /\ known'[f] = 1
          BY <1>3, <2>5, <3>1, <3>2, <4>1, HearsOne
        <5>2. f \notin late
          BY <1>3, <2>5, <3>2 DEF Hears, Dispels
        <5>3. rows[f] = 0
          BY <5>1, <5>2
        <5>4. QED
          BY <3>1, <4>1, <5>1, <5>3 DEF TypeOK
      <4>2. CASE f # c.arg
        BY <1>3, <2>5, <3>1, <3>2, <4>2, HearsOne DEF TypeOK
      <4>3. QED
        BY <4>1, <4>2
    <3>3. QED
      BY <3>2
  <2>6. CASE c.op = "delete" /\ Deleted(c.arg)
    <3>1. c.arg \in File /\ About(c) = 2 /\ rows' = [rows EXCEPT ![c.arg] = 0]
      BY <1>3, <2>6 DEF SentInv, About, Deleted
    <3>2. ASSUME NEW f \in File \ late' PROVE rows'[f] = IF known'[f] = 1 THEN 1 ELSE 0
      <4>1. CASE f = c.arg
        <5>1. c.who = user \/ known[f] = 0
          BY <1>3, <2>6, <4>1 DEF AnswerInv, PersonInv
        <5>2. known'[f] # 1
          BY <1>3, <2>2, <2>6, <3>1, <4>1, <5>1, HearsOne
        <5>3. QED
          BY <3>1, <4>1, <5>2 DEF TypeOK
      <4>2. CASE f # c.arg
        BY <1>3, <2>6, <3>1, <3>2, <4>2, HearsOne DEF TypeOK
      <4>3. QED
        BY <4>1, <4>2
    <3>3. QED
      BY <3>2
  <2>7. CASE c.op \in {"link", "relink", "revoke"} /\ UNCHANGED rows
    <3>1. \A f \in File : f # c.arg
      BY <1>3, <2>7, OwnerPageAssumption DEF SentInv, AnswerInv
    <3>2. QED
      BY <1>3, <2>7, <3>1, HearsOne
  <2>8. QED
    BY <1>3, <2>3, <2>4, <2>5, <2>6, <2>7 DEF Applies, Linked, Relinked, Revoked
<1>4. ASSUME NEW s \in Slot, Deliver(s) PROVE ListFollows'
  BY <1>1, <1>2, <1>3, <1>4, DeliverMoves DEF Enter, Leave, EmptyRows, Failed
<1>5. CASE Press /\ ~Reload
  BY <1>1, <1>5, PressAsks
<1>6. ASSUME NEW s \in Slot, Serve(s) \/ Lose(s) PROVE UNCHANGED <<rows, known, late>>
  BY <1>6 DEF Serve, Lose
<1>7. QED
  BY <1>1, <1>2, <1>4, <1>5, <1>6, Steps DEF Reload, Consume, vars

-----------------------------------------------------------------------------
(* The links.                                                              *)
Struck(l) == /\ sessionShares[l] # "live"
             /\ \A f \in File : fileShareLinks[f].id = l => fileShareLinks[f].revoked
             /\ shares[l] \notin {"ACTIVE", "VOID"}

LEMMA RevokedStep ==
  TypeOK /\ SentInv /\ AnswerInv /\ RevokedEverywhere /\ [Next]_vars => RevokedEverywhere'
<1> SUFFICES ASSUME TypeOK, SentInv, AnswerInv, RevokedEverywhere, [Next]_vars,
                    NEW l \in Link \ late', known'[l] = 3
             PROVE  Struck(l)'
  BY DEF RevokedEverywhere, Struck
<1>1. l \notin late /\ known[l] = 3 => Struck(l)
  BY DEF RevokedEverywhere, Struck
<1>2. l # None /\ l \notin File
  BY OwnerPageAssumption
<1>3. CASE l \notin late /\ known[l] = 3 /\ UNCHANGED <<sessionShares, fileShareLinks, shares>>
  BY <1>1, <1>3 DEF Struck
<1>4. ASSUME NEW s \in Slot, call[s].at = "served", Applies(call[s]), Hears(call[s]),
             call[s].op \notin {"me", "login", "logout"}
      PROVE  Struck(l)'
  <2> DEFINE c == call[s]
  <2>1. \A x \in File \cup Link : known[x] \in 0..3
    BY DEF TypeOK
  <2>2. CASE c.op = "files" /\ SetFiles(c)
    <3>1. Info(c, l) = 0
      BY <1>4, <2>2, InfoFiles
    <3>2. known[l] = 3 /\ l \notin late
      BY <1>2, <1>4, <2>1, <2>2, <3>1 DEF Hears, Dispels
    <3>3. QED
      BY <1>1, <1>2, <2>2, <3>2 DEF SetFiles, Struck, NoLinks
  <2>3. CASE c.op = "shares" /\ SetShares(c)
    <3>1. known[l] = 3 /\ l \notin late /\ ~(Info(c, l) < 3)
      BY <1>4, <2>3 DEF Hears, Dispels, Doubts
    <3>2. PICK p \in c.status : p[1] = l
      BY <1>4, <2>3, <3>1, InfoShares
    <3>3. Level(p[2]) = 3 /\ p[2] \in Status \ {"ABSENT"} /\ \A q \in c.status : q[1] = l => q = p
      BY <1>4, <2>3, <3>1, <3>2, InfoShares DEF AnswerInv
    <3>4. p[2] = "REVOKED"
      BY <3>3 DEF Level, Status
    <3>5. shares'[l] = "REVOKED"
      BY <2>3, <3>2, <3>3, <3>4 DEF SetShares
    <3>6. QED
      BY <1>1, <2>3, <3>1, <3>5 DEF SetShares, Struck
  <2>4. CASE c.op \in {"upload", "delete"} /\ UNCHANGED <<sessionShares, fileShareLinks, shares>>
    <3>1. c.arg # l
      BY <1>2, <1>4, <2>4 DEF SentInv
    <3>2. QED
      BY <1>3, <1>4, <2>4, <3>1, HearsOne
  <2>5. CASE c.op = "link" /\ Linked(c)
    <3>1. c.arg # l
      BY <1>4, <2>1, <2>5, HearsOne DEF About
    <3>2. known[l] = 3 /\ l \notin late
      BY <1>4, <2>5, <3>1, HearsOne
    <3>3. QED
      BY <1>1, <2>5, <3>1, <3>2 DEF Linked, Struck, TypeOK
  <2>6. CASE c.op = "relink" /\ Relinked(c)
    <3>1. c.arg # l
      BY <1>4, <2>1, <2>6, HearsOne DEF About
    <3>2. known[l] = 3 /\ l \notin late
      BY <1>4, <2>6, <3>1, HearsOne
    <3>3. QED
      BY <1>1, <2>6, <3>1, <3>2 DEF Relinked, Struck, TypeOK
  <2>7. CASE c.op = "revoke" /\ Revoked(c.arg)
    <3>1. CASE c.arg = l
      <4>1. sessionShares'[l] # "live" /\ shares'[l] \notin {"ACTIVE", "VOID"}
        BY <2>7, <3>1 DEF Revoked, TypeOK
      <4>2. ASSUME NEW f \in File, fileShareLinks'[f].id = l PROVE fileShareLinks'[f].revoked
        <5> DEFINE r == fileShareLinks[f]
        <5>1. r \in [id : Link \cup {None}, revoked : BOOLEAN]
          BY DEF TypeOK
        <5>2. fileShareLinks'[f] = [r EXCEPT !.revoked = r.revoked \/ r.id = l]
          BY <2>7, <3>1 DEF Revoked
        <5>3. QED
          BY <4>2, <5>1, <5>2
      <4>3. QED
        BY <4>1, <4>2 DEF Struck
    <3>2. CASE c.arg # l
      <4>1. Struck(l)
        BY <1>1, <1>4, <2>7, <3>2, HearsOne
      <4>2. sessionShares'[l] = sessionShares[l] /\ shares'[l] = shares[l]
        BY <2>7, <3>2 DEF Revoked, TypeOK
      <4>3. ASSUME NEW f \in File, fileShareLinks'[f].id = l PROVE fileShareLinks'[f].revoked
        <5> DEFINE r == fileShareLinks[f]
        <5>1. r \in [id : Link \cup {None}, revoked : BOOLEAN]
          BY DEF TypeOK
        <5>2. fileShareLinks'[f] = [r EXCEPT !.revoked = r.revoked \/ r.id = c.arg]
          BY <2>7 DEF Revoked
        <5>3. r.id = l
          BY <4>3, <5>1, <5>2
        <5>4. r.revoked
          BY <4>1, <5>3 DEF Struck
        <5>5. QED
          BY <5>1, <5>2, <5>4
      <4>4. QED
        BY <4>1, <4>2, <4>3 DEF Struck
    <3>3. QED
      BY <3>1, <3>2
  <2>8. QED
    BY <1>4, <2>2, <2>3, <2>4, <2>5, <2>6, <2>7 DEF Applies, Uploaded, Deleted
<1>5. ASSUME NEW s \in Slot, Deliver(s) PROVE Struck(l)'
  <2>1. CASE UNCHANGED <<sessionShares, fileShareLinks, shares, known, late>>
    BY <1>3, <2>1
  <2>2. CASE known' = Unknown
    BY <2>2 DEF Unknown
  <2>3. QED
    BY <1>4, <1>5, <2>1, <2>2, DeliverMoves DEF Enter, Leave, Failed
<1>6. CASE Press /\ ~Reload
  <2>1. /\ UNCHANGED <<known, late, fileShareLinks, shares>>
        /\ sessionShares' = sessionShares \/ LeavesDrop
    BY <1>6, PressAsks
  <2>2. sessionShares' = sessionShares \/ sessionShares'[l] = "none"
    BY <2>1 DEF LeavesDrop
  <2>3. QED
    BY <1>1, <2>1, <2>2 DEF Struck
<1>7. CASE Reload
  BY <1>7 DEF Reload, Unknown
<1>8. ASSUME NEW s \in Slot, Serve(s) \/ Lose(s)
      PROVE  UNCHANGED <<sessionShares, fileShareLinks, shares, known, late>>
  BY <1>8 DEF Serve, Lose
<1>9. QED
  BY <1>3, <1>5, <1>6, <1>7, <1>8, Steps DEF Consume, vars

-----------------------------------------------------------------------------
(* The buttons.                                                            *)
LEMMA ButtonsStep ==
  TypeOK /\ SentInv /\ AnswerInv /\ LeftInv /\ ButtonsReturn /\ [Next]_vars => ButtonsReturn'
<1> SUFFICES ASSUME TypeOK, SentInv, AnswerInv, LeftInv, ButtonsReturn, [Next]_vars
             PROVE  ButtonsReturn'
  OBVIOUS
<1> USE DEF ButtonsReturn, Underway, Waits, Live
<1>1. CASE UNCHANGED <<call, deletingId, sharingFileId, revokingShareId, shareBusy>>
  BY <1>1
<1>2. CASE Press /\ ~Reload
  <2>1. ASSUME NEW op \in Op \ {"me"}, NEW arg \in Items, NEW files \in SUBSET File,
               Asks(op, arg, files), Allowed(op, arg, files)
        PROVE  ButtonsReturn'
    <3>1. PICK s \in Slot : /\ \A q \in Slot : q # s => call'[q] = call[q]
                            /\ call[s].at = "idle"
                            /\ call'[s].at = "sent" /\ call'[s].op = op
                            /\ call'[s].arg = arg /\ call'[s].files = files
      BY <2>1, AsksMoves
    <3>2. /\ deletingId' = deletingId \/ (op = "delete" /\ deletingId' = arg)
          /\ sharingFileId' = sharingFileId \/ (op = "relink" /\ sharingFileId' = arg)
          /\ revokingShareId' = revokingShareId \/ (op = "revoke" /\ revokingShareId' = arg)
          /\ shareBusy' = shareBusy \/ op = "link"
      BY <2>1 DEF Allowed
    <3>3. \A o, a : Underway(o, a) => Underway(o, a)'
      BY <3>1
    <3>4. Underway(op, arg)' /\ Waits(op)'
      BY <3>1
    <3>5. Waits("link") => Waits("link")'
      BY <3>1
    <3>6. QED
      BY <3>2, <3>3, <3>4, <3>5
  <2>2. QED
    BY <1>1, <1>2, <2>1, PressAsks
<1>3. CASE Reload
  BY <1>3 DEF Reload
<1>4. ASSUME NEW s \in Slot, Serve(s) \/ Lose(s) PROVE ButtonsReturn'
  <2>1. UNCHANGED <<deletingId, sharingFileId, revokingShareId, shareBusy>>
    BY <1>4 DEF Serve, Lose
  <2>2. ASSUME Live(s) PROVE Live(s)' /\ call'[s].op = call[s].op
    BY <1>4, <2>2, ServeMoves, LoseMoves DEF Lose
  <2>3. ASSUME Live(s), call[s].op \in {"delete", "revoke"} PROVE call'[s].arg = call[s].arg
    BY <1>4, <2>3, ServeMoves, LoseMoves
       DEF Unserved, ServedSession, ServedFiles, ServedShares, ServedUpload, ServedDelete,
           ServedLink, ServedRevoke, Answered, Lose
  <2>4. ASSUME Live(s), call[s].op \in {"delete", "relink", "revoke"}
        PROVE  call'[s].files = call[s].files
    BY <1>4, <2>4, ServeMoves, LoseMoves
       DEF Unserved, ServedSession, ServedFiles, ServedShares, ServedUpload, ServedDelete,
           ServedLink, ServedRevoke, Answered, Lose
  <2>5. ASSUME Live(s), call[s].op = "relink"
        PROVE  call'[s].arg = call[s].arg \/ call[s].files = {call[s].arg}
    BY <1>4, <2>5, ServeMoves, LoseMoves DEF SentInv, Lose
  <2>6. \A q \in Slot : q # s => call'[q] = call[q]
    BY <1>4, ServeMoves, LoseMoves
  <2>7. \A o \in {"delete", "relink", "revoke"} : \A a : Underway(o, a) => Underway(o, a)'
    BY <2>2, <2>3, <2>4, <2>5, <2>6
  <2>8. Waits("link") => Waits("link")'
    BY <2>2, <2>6
  <2>9. QED
    BY <2>1, <2>7, <2>8
<1>5. ASSUME NEW s \in Slot, Deliver(s) PROVE ButtonsReturn'
  <2>1. \A q \in Slot : q # s => call'[q] = call[q]
    BY <1>5, DeliverMoves
  <2>3. /\ IF call[s].op = "delete" THEN deletingId' = None ELSE deletingId' = deletingId
        /\ IF call[s].op = "relink" THEN sharingFileId' = None ELSE sharingFileId' = sharingFileId
        /\ IF call[s].op = "revoke" THEN revokingShareId' = None
           ELSE revokingShareId' = revokingShareId
        /\ IF call[s].op = "link" THEN shareBusy' = FALSE ELSE shareBusy' = shareBusy
    BY <1>5, DeliverMoves DEF Enter, Leave, Applies, SetFiles, SetShares, Uploaded, Deleted,
                              Linked, Relinked, Revoked, Failed
  <2>4. deletingId' # None => Underway("delete", deletingId)'
    <3>1. CASE call[s].op = "delete"
      BY <2>3, <3>1
    <3>2. CASE call[s].op # "delete"
      BY <2>1, <2>3, <3>2
    <3>3. QED
      BY <3>1, <3>2
  <2>5. sharingFileId' # None => Underway("relink", sharingFileId)'
    <3>1. CASE call[s].op = "relink"
      BY <2>3, <3>1
    <3>2. CASE call[s].op # "relink"
      BY <2>1, <2>3, <3>2
    <3>3. QED
      BY <3>1, <3>2
  <2>6. revokingShareId' # None => Underway("revoke", revokingShareId)'
    <3>1. CASE call[s].op = "revoke"
      BY <2>3, <3>1
    <3>2. CASE call[s].op # "revoke"
      BY <2>1, <2>3, <3>2
    <3>3. QED
      BY <3>1, <3>2
  <2>7. shareBusy' => Waits("link")'
    BY <2>1, <2>3
  <2>8. QED
    BY <2>4, <2>5, <2>6, <2>7
<1>6. QED
  BY <1>1, <1>2, <1>3, <1>4, <1>5, Steps DEF Consume, vars

-----------------------------------------------------------------------------
(* The links of the sending screen.                                        *)
LEMMA DraftsFinite ==
  ASSUME NEW f \in File
  PROVE  IsFiniteSet(Drafts(f)) /\ Cardinality(Drafts(f)) \in Nat
BY OwnerPageAssumption, FS_Subset, FS_CardinalityType DEF Drafts

(* A step that creates no link, loses no call and asks for no link leaves  *)
(* a file as it is, if it does not make it new, or pending.                *)
LEMMA DraftStays ==
  ASSUME NEW f \in File, NewInv(f), AheadInv(f), PendingInv(f),
         Drafts(f)' = Drafts(f), lost' = lost, owner[f] # None => owner'[f] # None,
         uploads'[f] = "uploading" => uploads[f] = "uploading" \/ owner[f] = None,
         f \in Pending' => f \in Pending,
         \A q \in Slot : Drafting(q, f)' => Drafting(q, f),
         \A q \in Slot : Ahead(q, f)' => Ahead(q, f),
         f \in Pending' => \A q \in Slot : /\ Drafting(q, f)' /\ call[q].at # "deaf" => call'[q].at # "deaf"
                                           /\ Drafting(q, f) /\ call[q].at # "failed"
                                                => Drafting(q, f)' /\ call'[q].at # "failed"
  PROVE  NewInv(f)' /\ AheadInv(f)' /\ PendingInv(f)'
<1>1. NewInv(f)'
  BY DEF NewInv
<1>2. AheadInv(f)'
  BY DEF AheadInv
<1>3. PendingInv(f)'
  BY DEF PendingInv
<1>4. QED
  BY <1>1, <1>2, <1>3

LEMMA DraftPress ==
  ASSUME TypeOK, BusyInv, DraftInv, Press, ~Reload, NEW f \in File
  PROVE  NewInv(f)' /\ AheadInv(f)' /\ PendingInv(f)'
<1>1. /\ UNCHANGED <<drafted, lost, owner>>
      /\ UNCHANGED claimed \/ LeavesDrop
  BY PressAsks
<1>2. NewInv(f) /\ AheadInv(f) /\ PendingInv(f)
  BY DEF DraftInv
<1>3. CASE UNCHANGED call /\ (UNCHANGED uploads \/ LeavesDrop)
  <2>1. /\ f \in Pending' => f \in Pending
        /\ uploads'[f] = "uploading" => uploads[f] = "uploading"
    BY <1>1, <1>3 DEF Pending, LeavesDrop
  <2>2. QED
    BY <1>1, <1>2, <1>3, <2>1, DraftStays DEF Drafting, Ahead, Drafts
<1>4. ASSUME NEW op \in Op \ {"me"}, NEW arg \in Items, NEW files \in SUBSET File,
             Asks(op, arg, files), Allowed(op, arg, files)
      PROVE  NewInv(f)' /\ AheadInv(f)' /\ PendingInv(f)'
  <2>1. PICK s \in Slot : /\ \A q \in Slot : q # s => call'[q] = call[q]
                          /\ call[s].at = "idle"
                          /\ call'[s].at = "sent" /\ call'[s].op = op /\ call'[s].files = files
    BY <1>4, AsksMoves
  <2>2. /\ uploads'[f] = "uploading" => uploads[f] = "uploading" \/ owner[f] = None
        /\ uploads'[f] = "done" => uploads[f] = "done"
        /\ op # "upload" /\ uploads'[f] = "uploading" => uploads[f] = "uploading"
    BY <1>4 DEF Allowed, TypeOK
  <2>3. f \in Pending' => f \in Pending
    BY <1>1, <2>2 DEF Pending, LeavesDrop
  <2>4. CASE ~(op = "link" /\ f \in files)
    <3>1. ~Drafting(s, f) /\ ~Drafting(s, f)'
      BY <2>1, <2>4 DEF Drafting
    <3>2. QED
      BY <1>1, <1>2, <2>1, <2>2, <2>3, <3>1, DraftStays DEF Drafting, Ahead, Drafts
  <2>5. CASE op = "link" /\ f \in files
    <3>1. ~shareBusy /\ f \in Pending
      BY <1>4, <2>5 DEF Allowed
    <3>2. \A q \in Slot : ~Drafting(q, f)
      <4>1. ASSUME NEW q \in Slot, Drafting(q, f) PROVE FALSE
        <5>1. call[q].at # "deaf" /\ call[q].at # "idle"
          BY <1>2, <3>1, <4>1 DEF PendingInv, Drafting
        <5>2. call[q].at \in {"idle", "sent", "deaf", "served", "failed"}
          BY DEF TypeOK, Calls
        <5>3. QED
          BY <3>1, <4>1, <5>1, <5>2 DEF BusyInv, Linking, Live, Drafting
      <4>2. QED
        BY <4>1
    <3>3. owner[f] # None /\ Cardinality(Drafts(f)) <= lost /\ Drafts(f)' = Drafts(f)
      BY <1>1, <1>2, <3>1, <3>2 DEF PendingInv, Drafts
    <3>4. Drafting(s, f)' /\ \A q \in Slot : q # s => ~Drafting(q, f)'
      BY <2>1, <2>5, <3>2 DEF Drafting
    <3>5. NewInv(f)'
      BY <1>1, <2>2, <2>5, <3>1, <3>3 DEF NewInv, Pending
    <3>6. AheadInv(f)' /\ PendingInv(f)'
      BY <1>1, <2>1, <3>3, <3>4 DEF AheadInv, PendingInv, Ahead
    <3>7. QED
      BY <3>5, <3>6
  <2>6. QED
    BY <2>4, <2>5
<1>5. QED
  BY <1>3, <1>4, PressAsks

LEMMA DraftReload ==
  ASSUME TypeOK, DraftInv, Reload, NEW f \in File
  PROVE  NewInv(f)' /\ AheadInv(f)' /\ PendingInv(f)'
<1>1. /\ UNCHANGED <<drafted, lost, owner>> /\ f \notin Pending' /\ uploads'[f] = "none"
  BY DEF Reload, Pending
<1>2. \A q \in Slot : /\ Drafting(q, f)' => Drafting(q, f)
                      /\ Ahead(q, f)' => Ahead(q, f)
  BY ReloadMoves DEF Drafting, Ahead, Sent
<1>3. NewInv(f) /\ AheadInv(f) /\ PendingInv(f)
  BY DEF DraftInv
<1>4. QED
  BY <1>1, <1>2, <1>3, DraftStays DEF Drafts

LEMMA DraftServe ==
  ASSUME TypeOK, SentInv, LeftInv, LinkInv, UploadInv, DraftInv, OneDraftPerFile, [Next]_vars,
         NEW s \in Slot, Serve(s), NEW f \in File
  PROVE  /\ NewInv(f)' /\ AheadInv(f)' /\ PendingInv(f)'
         /\ Cardinality(Drafts(f)') <= 1 + lost
<1>1. /\ NewInv(f) /\ AheadInv(f) /\ PendingInv(f) /\ Cardinality(Drafts(f)) <= 1 + lost
      /\ IsFiniteSet(Drafts(f)) /\ Cardinality(Drafts(f)) \in Nat
  BY DraftsFinite DEF DraftInv, OneDraftPerFile, Drafts
<1>2. UNCHANGED <<uploads, claimed, lost>> /\ (f \in Pending' <=> f \in Pending)
  BY DEF Serve, Pending
<1>3. owner[f] # None => owner'[f] # None
  BY OwnerMoves
<1>4. lost \in Nat
  BY OwnerPageAssumption DEF TypeOK
<1>5. PICK w \in Account \cup {None} :
         \/ w # None /\ ServedLink(s, w)
         \/ /\ UNCHANGED drafted
            /\ call[s].op = "link" /\ call[s].at = "sent" => call'[s].at = "failed"
  BY ServeMoves DEF Unserved, ServedSession, ServedFiles, ServedShares, ServedUpload, ServedDelete,
                    ServedRevoke, Answered
<1>6. call[s].op = "link" /\ call[s].at = "sent" => call'[s].files = call[s].files
  BY ServeMoves DEF Unserved, ServedSession, ServedFiles, ServedShares, ServedUpload, ServedDelete,
                    ServedRevoke, ServedLink, Answered
<1>7. \A q \in Slot : /\ Drafting(q, f)' => Drafting(q, f)
                      /\ Ahead(q, f)' => Ahead(q, f) /\ q # s
                      /\ q # s => (Drafting(q, f)' <=> Drafting(q, f)) /\ call'[q].at = call[q].at
  BY <1>6, ServeMoves DEF Drafting, Ahead, NoCall
<1>8. CASE ~Drafting(s, f)
  <2>1. Drafts(f)' = Drafts(f)
    <3>1. CASE ServedLink(s, w) /\ call[s].op = "link"
      <4>1. f \notin call[s].files /\ drafted[Fresh] = {} /\ Fresh \in Link
        BY <1>8, <3>1, ServeMoves DEF Drafting, ServedLink, LinkInv
      <4>2. drafted' = [drafted EXCEPT ![Fresh] = call[s].files]
        BY <3>1 DEF ServedLink
      <4>3. \A l \in Link : f \in drafted'[l] <=> f \in drafted[l]
        BY <4>1, <4>2 DEF TypeOK
      <4>4. QED
        BY <4>3 DEF Drafts
    <3>2. CASE UNCHANGED drafted
      BY <3>2 DEF Drafts
    <3>3. QED
      BY <1>5, <3>1, <3>2 DEF ServedLink
  <2>2. QED
    BY <1>1, <1>2, <1>3, <1>7, <1>8, <2>1, DraftStays
<1>9. CASE Drafting(s, f)
  <2>1. /\ Ahead(s, f) /\ call[s].op = "link" /\ f \in call[s].files
        /\ owner[f] # None /\ uploads[f] # "uploading"
        /\ Cardinality(Drafts(f)) <= lost /\ \A q \in Slot : ~Ahead(q, f)'
    BY <1>1, <1>7, <1>9, ServeMoves DEF Ahead, Drafting, NewInv, AheadInv
  <2>2. NewInv(f)' /\ AheadInv(f)'
    BY <1>2, <1>3, <2>1 DEF NewInv, AheadInv
  <2>3. CASE ServedLink(s, w)
    <3>1. Fresh \in Link /\ drafted[Fresh] = {}
      BY <2>3 DEF ServedLink, LinkInv
    <3>2. drafted' = [drafted EXCEPT ![Fresh] = call[s].files]
      BY <2>1, <2>3 DEF ServedLink
    <3>3. Drafts(f)' = Drafts(f) \cup {Fresh} /\ Fresh \notin Drafts(f)
      BY <2>1, <3>1, <3>2 DEF Drafts, TypeOK
    <3>4. Cardinality(Drafts(f)') = Cardinality(Drafts(f)) + 1
      BY <1>1, <3>3, FS_AddElement
    <3>5. PendingInv(f)'
      <4>1. SUFFICES ASSUME f \in Pending
                     PROVE  /\ \A q \in Slot : Drafting(q, f)' => call'[q].at # "deaf"
                            /\ Drafting(s, f)' /\ call'[s].at = "served"
        BY <1>2, <1>3, <2>1 DEF PendingInv
      <4>2. call[s].at = "sent"
        BY <1>1, <1>9, <4>1, ServeMoves DEF PendingInv
      <4>3. call'[s].at = "served" /\ Drafting(s, f)'
        BY <1>6, <2>1, <2>3, <4>2, ServeMoves DEF ServedLink, Answered, Drafting
      <4>4. QED
        BY <1>1, <1>7, <4>1, <4>3 DEF PendingInv
    <3>6. QED
      BY <1>1, <1>4, <2>1, <2>2, <3>4, <3>5
  <2>4. CASE UNCHANGED drafted /\ (call[s].at = "sent" => call'[s].at = "failed")
    <3>1. Drafts(f)' = Drafts(f)
      BY <2>4 DEF Drafts
    <3>2. PendingInv(f)'
      BY <1>1, <1>2, <1>3, <1>7, <2>1, <2>4, <3>1, ServeMoves DEF PendingInv, Ahead
    <3>3. QED
      BY <1>1, <2>2, <3>1, <3>2
  <2>5. QED
    BY <1>5, <2>1, <2>3, <2>4
<1>10. QED
  BY <1>8, <1>9

LEMMA DraftLose ==
  ASSUME TypeOK, DraftInv, OneDraftPerFile, NEW s \in Slot, Lose(s), NEW f \in File
  PROVE  NewInv(f)' /\ AheadInv(f)' /\ PendingInv(f)'
<1>1. /\ NewInv(f) /\ AheadInv(f) /\ PendingInv(f) /\ Cardinality(Drafts(f)) <= 1 + lost
      /\ Cardinality(Drafts(f)) \in Nat /\ lost \in Nat
  <2>1. lost \in Nat
    BY OwnerPageAssumption DEF TypeOK
  <2>2. QED
    BY <2>1, DraftsFinite DEF DraftInv, OneDraftPerFile, Drafts
<1>2. UNCHANGED <<uploads, claimed, owner, drafted>> /\ lost' = lost + 1
  BY DEF Lose
<1>3. Drafts(f)' = Drafts(f) /\ (f \in Pending' <=> f \in Pending)
  BY <1>2 DEF Drafts, Pending
<1>4. \A q \in Slot : /\ Drafting(q, f)' => Drafting(q, f)
                      /\ Ahead(q, f)' => Ahead(q, f)
                      /\ call'[q].at = "deaf" => call[q].at = "deaf"
  BY LoseMoves DEF Lose, Drafting, Ahead
<1>5. NewInv(f)'
  BY <1>1, <1>2, <1>3, <1>4 DEF NewInv
<1>6. AheadInv(f)'
  BY <1>1, <1>2, <1>3, <1>4 DEF AheadInv
<1>7. PendingInv(f)'
  BY <1>1, <1>2, <1>3, <1>4 DEF PendingInv
<1>8. QED
  BY <1>5, <1>6, <1>7

LEMMA DraftDeliver ==
  ASSUME TypeOK, SentInv, AnswerInv, DraftInv, NEW s \in Slot, Deliver(s), NEW f \in File
  PROVE  NewInv(f)' /\ AheadInv(f)' /\ PendingInv(f)'
<1>1. NewInv(f) /\ AheadInv(f) /\ PendingInv(f)
  BY DEF DraftInv
<1>2. UNCHANGED <<drafted, lost, owner>>
  BY DEF Deliver, Enter, Leave
<1>3. \A q \in Slot : /\ Drafting(q, f)' => Drafting(q, f)
                      /\ Ahead(q, f)' => Ahead(q, f)
                      /\ q # s => (Drafting(q, f)' <=> Drafting(q, f)) /\ call'[q].at = call[q].at
  BY DeliverMoves DEF Drafting, Ahead, NoCall
<1>4. CASE call[s].op = "upload" /\ call[s].arg = f /\ uploads[f] = "uploading"
  <2>1. Drafts(f) = {} /\ \A q \in Slot : ~Drafting(q, f)
    BY <1>1, <1>4 DEF NewInv
  <2>2. Drafts(f)' = {} /\ \A q \in Slot : ~Drafting(q, f)' /\ ~Ahead(q, f)'
    BY <1>2, <1>3, <2>1 DEF Drafts, Ahead
  <2>3. NewInv(f)' /\ AheadInv(f)'
    BY <2>2 DEF NewInv, AheadInv
  <2>4. f \in Pending' => owner'[f] # None
    <3>1. CASE call[s].at = "served"
      BY <1>2, <1>4, <3>1 DEF AnswerInv
    <3>2. CASE call[s].at = "failed"
      <4>1. Failed(call[s])
        BY <1>4, <3>2, DeliverMoves
      <4>2. uploads'[f] = "error"
        BY <1>4, <4>1 DEF Failed, TypeOK
      <4>3. QED
        BY <4>2 DEF Pending
    <3>3. QED
      BY <1>4, <3>1, <3>2, DeliverMoves
  <2>5. Cardinality(Drafts(f)') <= lost'
    BY <1>2, <2>2, FS_EmptySet, OwnerPageAssumption DEF TypeOK
  <2>6. QED
    BY <2>2, <2>3, <2>4, <2>5 DEF PendingInv
<1>5. CASE ~(call[s].op = "upload" /\ call[s].arg = f /\ uploads[f] = "uploading")
  <2>1. /\ uploads'[f] = "uploading" => uploads[f] = "uploading"
        /\ f \in Pending' => f \in Pending /\ (Drafting(s, f) => call[s].at = "failed")
    <3>1. CASE UNCHANGED draft /\ (call[s].op = "link" => call[s].at = "failed")
      BY <3>1 DEF Pending, Drafting
    <3>2. CASE LeavesDrop
      BY <3>2 DEF LeavesDrop, Pending
    <3>3. CASE call[s].op = "link" /\ Linked(call[s])
      BY <3>3 DEF Linked, Pending, Drafting
    <3>4. CASE call[s].op = "upload" /\ Uploaded(call[s].arg)
      BY <1>5, <3>4 DEF Uploaded, Pending, Drafting, TypeOK
    <3>5. CASE call[s].at = "failed" /\ Failed(call[s])
      BY <3>5 DEF Failed, Pending, Drafting, TypeOK
    <3>6. CASE call[s].op = "revoke" /\ Revoked(call[s].arg)
      BY <3>6 DEF Revoked, Pending, Drafting
    <3>7. QED
      BY <3>1, <3>2, <3>3, <3>4, <3>5, <3>6, DeliverMoves
         DEF Enter, Leave, Applies, SetFiles, SetShares, Deleted, Relinked
  <2>2. call'[s].at # "deaf" /\ Drafts(f)' = Drafts(f)
    BY <1>2, DeliverMoves DEF NoCall, Drafts
  <2>3. QED
    BY <1>1, <1>2, <1>3, <2>1, <2>2, DraftStays
<1>6. QED
  BY <1>4, <1>5

LEMMA DraftStep ==
  /\ TypeOK /\ SentInv /\ AnswerInv /\ LeftInv /\ LinkInv /\ UploadInv /\ BusyInv /\ DraftInv
  /\ OneDraftPerFile /\ [Next]_vars
  => DraftInv' /\ OneDraftPerFile'
<1> SUFFICES ASSUME TypeOK, SentInv, AnswerInv, LeftInv, LinkInv, UploadInv, BusyInv, DraftInv,
                    OneDraftPerFile, [Next]_vars, NEW f \in File
             PROVE  /\ NewInv(f)' /\ AheadInv(f)' /\ PendingInv(f)'
                    /\ Cardinality(Drafts(f)') <= 1 + lost'
  BY DEF DraftInv, OneDraftPerFile, Drafts
<1>1. /\ NewInv(f) /\ AheadInv(f) /\ PendingInv(f) /\ Cardinality(Drafts(f)) <= 1 + lost
      /\ Cardinality(Drafts(f)) \in Nat /\ lost \in Nat
  <2>1. lost \in Nat
    BY OwnerPageAssumption DEF TypeOK
  <2>2. QED
    BY <2>1, DraftsFinite DEF DraftInv, OneDraftPerFile, Drafts
<1>2. ASSUME drafted' = drafted, lost' \in {lost, lost + 1}
      PROVE  Cardinality(Drafts(f)') <= 1 + lost'
  BY <1>1, <1>2 DEF Drafts
<1>3. CASE Press
  <2>1. drafted' = drafted /\ lost' = lost
    BY <1>3, PressAsks DEF Reload
  <2>2. QED
    BY <1>2, <1>3, <2>1, DraftPress, DraftReload
<1>4. ASSUME NEW s \in Slot, Serve(s)
      PROVE  /\ NewInv(f)' /\ AheadInv(f)' /\ PendingInv(f)'
             /\ Cardinality(Drafts(f)') <= 1 + lost'
  BY <1>4, DraftServe DEF Serve
<1>5. ASSUME NEW s \in Slot, Lose(s)
      PROVE  /\ NewInv(f)' /\ AheadInv(f)' /\ PendingInv(f)'
             /\ Cardinality(Drafts(f)') <= 1 + lost'
  BY <1>2, <1>5, DraftLose DEF Lose
<1>6. ASSUME NEW s \in Slot, Deliver(s)
      PROVE  /\ NewInv(f)' /\ AheadInv(f)' /\ PendingInv(f)'
             /\ Cardinality(Drafts(f)') <= 1 + lost'
  <2>1. drafted' = drafted /\ lost' = lost
    BY <1>6 DEF Deliver, Enter, Leave
  <2>2. QED
    BY <1>2, <1>6, <2>1, DraftDeliver
<1>7. CASE UNCHANGED <<call, uploads, claimed, owner, drafted, lost>>
  BY <1>1, <1>7 DEF NewInv, AheadInv, PendingInv, Drafts, Drafting, Ahead, Pending
<1>8. QED
  BY <1>3, <1>4, <1>5, <1>6, <1>7, Steps DEF Consume, vars

-----------------------------------------------------------------------------
(* The invariant, and what follows from it.                                *)
PageInv ==
    /\ TypeOK /\ SentInv /\ AnswerInv /\ UploadInv /\ LinkInv /\ LeftInv /\ PersonInv /\ BusyInv
    /\ DraftInv /\ OneDraftPerFile

LEMMA InitCalls ==
  ASSUME Init
  PROVE  /\ call \in [Slot -> Calls]
         /\ \E s \in Slot : /\ call[s].at = "sent" /\ call[s].op = "me"
                            /\ \A q \in Slot \ {s} : call[q].at = "idle"
<1> DEFINE s == CHOOSE q \in Slot : TRUE
<1>1. s \in Slot
  BY OwnerPageAssumption
<1>2. call = [q \in Slot |-> IF q = s THEN Sent("me", None, {}) ELSE NoCall]
  BY DEF Init
<1>3. Sent("me", None, {}) \in Calls /\ NoCall \in Calls
  BY NoCallType DEF Init, Calls, Sent, Items, Op
<1> HIDE DEF s
<1>4. call[s].at = "sent" /\ call[s].op = "me" /\ \A q \in Slot \ {s} : call[q].at = "idle"
  BY <1>1, <1>2 DEF Sent, NoCall
<1>5. QED
  BY <1>1, <1>2, <1>3, <1>4

LEMMA PageInit == Init => PageInv /\ ListFollows /\ RevokedEverywhere /\ ButtonsReturn
<1> SUFFICES ASSUME Init PROVE PageInv /\ ListFollows /\ RevokedEverywhere /\ ButtonsReturn
  OBVIOUS
<1>1. TypeOK
  <2>1. /\ rows \in [File -> 0..2] /\ known \in [File \cup Link -> 0..3]
        /\ fileShareLinks \in [File -> [id : Link \cup {None}, revoked : BOOLEAN]]
    BY DEF Init, NoRows, NoLinks, Unknown
  <2>2. /\ owner \in [File -> Account \cup {None}] /\ erased \subseteq File
        /\ drafted \in [Link -> SUBSET File]
    BY OwnerPageAssumption DEF Init
  <2>3. link \in [Link -> [files : SUBSET File, by : Account \cup {None}, status : Status]]
    BY DEF Init, Status
  <2>4. /\ cookie \in Account \cup {None} /\ user \in Account \cup {None} /\ screen \in Screen
        /\ claimed \subseteq File /\ late \subseteq File \cup Link
    BY DEF Init, Screen
  <2>5. /\ shares \in [Link -> Status]
        /\ uploads \in [File -> {"none", "uploading", "done", "error"}]
        /\ sessionShares \in [Link -> {"none", "live", "revoked"}]
    BY DEF Init, Status
  <2>6. /\ {deletingId, sharingFileId} \subseteq File \cup {None}
        /\ revokingShareId \in Link \cup {None} /\ shareBusy \in BOOLEAN
    BY DEF Init
  <2>7. lost \in 0..MaxLost /\ presses \in 0..MaxPresses
    BY OwnerPageAssumption DEF Init
  <2>8. QED
    BY <2>1, <2>2, <2>3, <2>4, <2>5, <2>6, <2>7, InitCalls DEF TypeOK
<1>2. SentInv /\ AnswerInv /\ UploadInv
  BY InitCalls DEF SentInv, AnswerInv, UploadInv, Uploading
<1>3. LinkInv
  BY DEF Init, LinkInv
<1>4. LeftInv
  <2>1. Asked = {}
    BY InitCalls DEF Asked
  <2>2. IsFiniteSet(Absent) /\ Cardinality(Absent) \in Nat
    BY OwnerPageAssumption, FS_Subset, FS_CardinalityType DEF Absent
  <2>3. QED
    BY <2>1, <2>2, FS_EmptySet DEF LeftInv
<1>5. PersonInv
  BY InitCalls DEF Init, PersonInv, Signing, Live, Unknown
<1>6. BusyInv
  BY InitCalls DEF BusyInv, Linking, Live
<1>7. DraftInv /\ OneDraftPerFile
  <2>1. ASSUME NEW f \in File
        PROVE  /\ Drafts(f) = {} /\ Cardinality(Drafts(f)) = 0 /\ f \notin Pending
               /\ \A s \in Slot : ~Drafting(s, f) /\ ~Ahead(s, f)
    BY InitCalls, FS_EmptySet DEF Init, Drafts, Pending, Drafting, Ahead
  <2>2. lost = 0
    BY DEF Init
  <2>3. QED
    BY <2>1, <2>2 DEF DraftInv, NewInv, AheadInv, PendingInv, OneDraftPerFile, Drafts
<1>8. ListFollows /\ RevokedEverywhere /\ ButtonsReturn
  BY DEF Init, ListFollows, RevokedEverywhere, ButtonsReturn, NoRows, Unknown
<1>9. QED
  BY <1>1, <1>2, <1>3, <1>4, <1>5, <1>6, <1>7, <1>8 DEF PageInv

LEMMA PageStep == PageInv /\ [Next]_vars => PageInv'
BY TypeStep, SentStep, AnswerStep, UploadStep, LinkStep, LeftStep, PersonStep, BusyStep, DraftStep
   DEF PageInv

LEMMA PageAlways == Spec => []PageInv
BY PageInit, PageStep, PTL DEF Spec

(* The page's state keeps its types: a link is created only while one is   *)
(* left, and an answer is about what its call was.                         *)
THEOREM PageTypes == Spec => []TypeOK
<1>1. PageInv => TypeOK
  BY DEF PageInv
<1>2. QED
  BY <1>1, PageAlways, PTL

(* Whatever order the answers come in, the list of files is what the       *)
(* newest said, but for the files an older answer came about after a newer *)
(* one: signing out empties the list, and what the page knows of a file it *)
(* was told for the person signed in (setFiles).                           *)
THEOREM ListIsNewest == Spec => []ListFollows
<1>1. PageInv /\ ListFollows /\ [Next]_vars => ListFollows'
  BY ListStep DEF PageInv
<1>2. QED
  BY <1>1, PageInit, PageAlways, PTL DEF Spec

(* A link told revoked is offered as live by none of the three lists, in   *)
(* whatever order the answers come (handleRevokeShare).                    *)
THEOREM RevokedStruck == Spec => []RevokedEverywhere
<1>1. PageInv /\ RevokedEverywhere /\ [Next]_vars => RevokedEverywhere'
  BY RevokedStep DEF PageInv
<1>2. QED
  BY <1>1, PageInit, PageAlways, PTL DEF Spec

(* A file of the sending screen goes into one link, and one more for each  *)
(* call lost at most (createShareLink, claimedFileIds).                    *)
THEOREM OneDraft == Spec => []OneDraftPerFile
<1>1. PageInv => OneDraftPerFile
  BY DEF PageInv
<1>2. QED
  BY <1>1, PageAlways, PTL

(* A button is out of use only while a call of its own is under way.       *)
THEOREM ButtonsComeBack == Spec => []ButtonsReturn
<1>1. PageInv /\ ButtonsReturn /\ [Next]_vars => ButtonsReturn'
  BY ButtonsStep DEF PageInv
<1>2. QED
  BY <1>1, PageInit, PageAlways, PTL DEF Spec
=============================================================================
