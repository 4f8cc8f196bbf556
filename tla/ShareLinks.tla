----------------------------- MODULE ShareLinks -----------------------------
(***************************************************************************)
(* Share links, their downloads, and the erasure of files: the part of     *)
(* filemoica in which several requests, the purge job and the database     *)
(* meet.  One backend process serves every request, and a request gives up *)
(* the processor at each await, so a step below is what runs between two   *)
(* awaits: one database or storage call with the code around it.  The      *)
(* purge job is a process of its own, on the same database and storage.    *)
(*                                                                         *)
(* A request that is refused (404, 403, 410, 401, wrong password) changes  *)
(* nothing, so a refusal is the absence of the step.  Files are those      *)
(* whose deposit went through; the deposit itself is module Deposit.       *)
(***************************************************************************)
EXTENDS Naturals, FiniteSets

CONSTANTS
    File,          \* files deposited before the model starts
    Share,         \* share links; each is created by one request, named like it
    Download,      \* requests GET :token/file/:fileId
    Remover,       \* requests DELETE /files/:id
    Purge,         \* executions of purge-files
    None,          \* no file, no link
    CreatedAt,     \* CreatedAt[f]: when f was deposited
    Retention,     \* Retention[f]: what the plan of f's owner grants
    Lifetimes,     \* lifetimes a link may be given
    Burns,         \* values of burnAfterDownload a link may be given
    Start,         \* the clock when the model starts
    MaxTime,       \* bound: the clock stops here
    MaxFaults,     \* bound: database, storage or process failures
    BatchSize      \* files the purge reads at a time

ASSUME ShareLinksAssumption ==
    /\ None \notin File \cup Share
    /\ Start \in Nat
    /\ CreatedAt \in [File -> 0..Start]
    /\ Retention \in [File -> Nat]
    /\ Lifetimes \subseteq Nat \ {0} /\ Burns \subseteq BOOLEAN
    /\ MaxTime \in Nat /\ MaxFaults \in Nat /\ BatchSize \in Nat \ {0}

(* The requests and jobs are distinct from one another.                    *)
ASSUME ProcessAssumption ==
    /\ Download \cap (Share \cup Remover \cup Purge) = {}
    /\ Purge \cap (Share \cup Remover) = {}
    /\ Share \cap Remover = {}

VARIABLES
    \* the database
    rows,          \* table files
    links,         \* table shares
    terms,         \* what a share row never changes: files asked for, burn, expiry
    revoked,       \* shares.revoked
    consumed,      \* shares.consumed_at is not null
    entries,       \* table share_files: pairs <<share, file>>
    claimed,       \* those whose downloaded_at is not null
    \* the storage and the clock
    content,       \* files whose bytes are on the support
    now,
    \* the requests and jobs
    pc,            \* where each stands
    via, wanted,   \* link and file of a download
    todo, target,  \* files left to erase, and the one being erased
    start,         \* the purge's clock
    scanned,       \* the files it has read
    cursor,        \* the last of them
    faults,
    \* history
    transmitted,   \* downloads whose recipient got every byte
    unseen,        \* links created since a process last counted links
    unread         \* links created since a purge last read a batch

db    == <<rows, links, terms, revoked, consumed, entries, claimed>>
erase == <<todo, target>>
job   == <<start, scanned, cursor>>
hist  == <<transmitted, unseen, unread>>
vars  == <<rows, links, terms, revoked, consumed, entries, claimed, content, now,
           pc, via, wanted, todo, target, start, scanned, cursor, faults,
           transmitted, unseen, unread>>

Eraser  == Download \cup Purge
Proc    == Eraser \cup Remover \cup Share

DownloadLabel == {"idle", "authorized", "claim", "open", "sending", "release",
                  "count", "list", "consume", "loop", "find", "delete", "unlink",
                  "done", "aborted"}
PurgeLabel    == {"idle", "scan", "loop", "find", "delete", "unlink", "done", "aborted"}
RemoverLabel  == {"idle", "unlink", "done", "aborted"}
CreateLabel   == {"idle", "insert", "done", "aborted"}

Terms == [files : SUBSET File, burn : BOOLEAN, expiresAt : Nat]
NoTerms == [files |-> {}, burn |-> FALSE, expiresAt |-> 0]

-----------------------------------------------------------------------------
(* The predicate the code spells four times: findUsable, statusOf,         *)
(* removeIfNoUsableShare and the purge, here at a given clock.             *)
UsableAt(s, t) ==
    /\ s \in links
    /\ s \notin revoked
    /\ s \notin consumed
    /\ terms[s].expiresAt > t

Usable(s) == UsableAt(s, now)

Covering(f) == {s \in Share : <<s, f>> \in entries}
Covered(s)  == {f \in File : <<s, f>> \in entries}

Goto(p, label) == pc' = [pc EXCEPT ![p] = label]

Init ==
    /\ rows = File /\ content = File
    /\ links = {} /\ revoked = {} /\ consumed = {}
    /\ terms = [s \in Share |-> NoTerms]
    /\ entries = {} /\ claimed = {}
    /\ now = Start
    /\ pc = [p \in Proc |-> "idle"]
    /\ via = [d \in Download |-> None]
    /\ wanted = [d \in Download |-> None]
    /\ todo = [p \in Eraser |-> {}]
    /\ target = [p \in Eraser \cup Remover |-> None]
    /\ start = [p \in Purge |-> 0]
    /\ scanned = [p \in Purge |-> {}]
    /\ cursor = [p \in Purge |-> None]
    /\ faults = 0
    /\ transmitted = {}
    /\ unseen = [p \in Eraser |-> {}]
    /\ unread = [p \in Purge |-> {}]

-----------------------------------------------------------------------------
(* The owner's requests.                                                   *)

(* create, up to the hash of the password: every file must be the owner's, *)
(* and the expiry is counted from here.                                    *)
CreateCheck(s) ==
    /\ pc[s] = "idle"
    /\ \E files \in (SUBSET rows) \ {{}}, burn \in Burns, life \in Lifetimes :
         terms' = [terms EXCEPT ![s] =
                     [files |-> files, burn |-> burn, expiresAt |-> now + life]]
    /\ Goto(s, "insert")
    /\ UNCHANGED <<rows, links, revoked, consumed, entries, claimed, content, now, via,
                   wanted, erase, job, faults, hist>>

(* create, the nested insert: a foreign key fails it whole if a file has   *)
(* gone in between.                                                        *)
CreateInsert(s) ==
    /\ pc[s] = "insert"
    /\ IF terms[s].files \subseteq rows
       THEN /\ links' = links \cup {s}
            /\ entries' = entries \cup ({s} \X terms[s].files)
            /\ unseen' = [p \in Eraser |-> unseen[p] \cup {s}]
            /\ unread' = [p \in Purge |-> unread[p] \cup {s}]
            /\ Goto(s, "done")
       ELSE /\ Goto(s, "aborted")
            /\ UNCHANGED <<links, entries, unseen, unread>>
    /\ UNCHANGED <<rows, terms, revoked, consumed, claimed, content, now, via, wanted,
                   erase, job, faults, transmitted>>

(* revoke: the update writes the same values however often it runs, so the *)
(* read before it decides nothing.                                         *)
Revoke(s) ==
    /\ s \in links \ revoked
    /\ revoked' = revoked \cup {s}
    /\ UNCHANGED <<rows, links, terms, consumed, entries, claimed, content, now, pc, via,
                   wanted, erase, job, faults, hist>>

(* Deleting a file takes its share_files rows with it (ON DELETE CASCADE). *)
DropRow(f) ==
    /\ rows' = rows \ {f}
    /\ entries' = {e \in entries : e[2] # f}
    /\ claimed' = {e \in claimed : e[2] # f}
    /\ UNCHANGED <<links, terms, revoked, consumed>>

(* Mutant: the bytes first.                                                *)
RemoveBytesFirst(r) ==
    /\ pc[r] = "idle"
    /\ \E f \in rows :
         /\ content' = content \ {f}
         /\ target' = [target EXCEPT ![r] = f]
    /\ Goto(r, "unlink")
    /\ UNCHANGED <<db, now, via, wanted, todo, job, faults, hist>>

(* remove: the row first.  If it goes between the read and the delete, the *)
(* delete throws and the request ends as it would on a 404.                *)
RemoveRow(r) ==
    /\ pc[r] = "idle"
    /\ \E f \in rows :
         /\ DropRow(f)
         /\ target' = [target EXCEPT ![r] = f]
    /\ Goto(r, "unlink")
    /\ UNCHANGED <<content, now, via, wanted, todo, job, faults, hist>>

RemoveContent(r) ==
    /\ pc[r] = "unlink"
    /\ content' = content \ {target[r]}
    /\ Goto(r, "done")
    /\ UNCHANGED <<db, now, via, wanted, erase, job, faults, hist>>

-----------------------------------------------------------------------------
(* A download.                                                             *)

(* authorizeDownload: the link is usable and covers the file.  The check   *)
(* of the password, another await, decides nothing else.                   *)
Authorize(d) ==
    /\ pc[d] = "idle"
    /\ \E s \in Share : \E f \in Covered(s) :
         /\ Usable(s)
         /\ via' = [via EXCEPT ![d] = s]
         /\ wanted' = [wanted EXCEPT ![d] = f]
    /\ Goto(d, "authorized")
    /\ UNCHANGED <<db, content, now, erase, job, faults, hist>>

Burn(d) == terms[via[d]].burn
Slot(d) == <<via[d], wanted[d]>>

(* storage.exists: 500 before anything is claimed if the bytes are gone.   *)
CheckContent(d) ==
    /\ pc[d] = "authorized"
    /\ Goto(d, IF wanted[d] \notin content THEN "done"
               ELSE IF Burn(d) THEN "claim" ELSE "open")
    /\ UNCHANGED <<db, content, now, via, wanted, erase, job, faults, hist>>

(* Mutant: the claim made inside the try, so that a refused claim releases *)
(* the file of the request that holds it.                                  *)
ClaimInsideTry(d) ==
    /\ pc[d] = "claim"
    /\ IF Slot(d) \in entries \ claimed
       THEN claimed' = claimed \cup {Slot(d)} /\ Goto(d, "open")
       ELSE Goto(d, "release") /\ UNCHANGED claimed
    /\ UNCHANGED <<rows, links, terms, revoked, consumed, entries, content, now, via,
                   wanted, erase, job, faults, hist>>

(* Mutant: UPDATE without its condition.                                   *)
ClaimAlways(d) ==
    /\ pc[d] = "claim"
    /\ claimed' = claimed \cup ({Slot(d)} \cap entries)
    /\ Goto(d, "open")
    /\ UNCHANGED <<rows, links, terms, revoked, consumed, entries, content, now, via,
                   wanted, erase, job, faults, hist>>

(* claimFile: UPDATE ... WHERE downloaded_at IS NULL.                      *)
Claim(d) ==
    /\ pc[d] = "claim"
    /\ IF Slot(d) \in entries \ claimed
       THEN claimed' = claimed \cup {Slot(d)} /\ Goto(d, "open")
       ELSE Goto(d, "done") /\ UNCHANGED claimed
    /\ UNCHANGED <<rows, links, terms, revoked, consumed, entries, content, now, via,
                   wanted, erase, job, faults, hist>>

(* openRead: a missing file makes the pipeline throw.                      *)
OpenRead(d) ==
    /\ pc[d] = "open"
    /\ Goto(d, IF wanted[d] \in content THEN "sending"
               ELSE IF Burn(d) THEN "release" ELSE "done")
    /\ UNCHANGED <<db, content, now, via, wanted, erase, job, faults, hist>>

(* The pipeline resolves: every byte has gone, and the tag was right.  The *)
(* file may have been unlinked meanwhile, the open stream still reads it.  *)
Transmit(d) ==
    /\ pc[d] = "sending"
    /\ transmitted' = transmitted \cup {d}
    /\ Goto(d, IF Burn(d) THEN "count" ELSE "done")
    /\ UNCHANGED <<db, content, now, via, wanted, erase, job, faults,
                   unseen, unread>>

(* The pipeline throws: the support fails, the recipient went away, or the *)
(* tag was wrong.                                                          *)
Break(d) ==
    /\ pc[d] \in {"open", "sending"}
    /\ Goto(d, IF Burn(d) THEN "release" ELSE "done")
    /\ UNCHANGED <<db, content, now, via, wanted, erase, job, faults, hist>>

(* releaseFile: whoever holds the claim, and whether the row is there.     *)
Release(d) ==
    /\ pc[d] = "release"
    /\ claimed' = claimed \ {Slot(d)}
    /\ Goto(d, "done")
    /\ UNCHANGED <<rows, links, terms, revoked, consumed, entries, content, now, via,
                   wanted, erase, job, faults, hist>>

-----------------------------------------------------------------------------
(* completeIfFullyDownloaded, after a whole transmission by a burn link.   *)

(* Mutant: restants >= 0 for restants > 0.                                 *)
CountNeverZero(d) ==
    /\ pc[d] = "count"
    /\ Goto(d, "done")
    /\ UNCHANGED <<db, content, now, via, wanted, erase, job, faults, hist>>

CountUnclaimed(d) ==
    /\ pc[d] = "count"
    /\ Goto(d, IF \E f \in Covered(via[d]) : <<via[d], f>> \notin claimed
               THEN "done" ELSE "list")
    /\ UNCHANGED <<db, content, now, via, wanted, erase, job, faults, hist>>

ListCovered(d) ==
    /\ pc[d] = "list"
    /\ todo' = [todo EXCEPT ![d] = Covered(via[d])]
    /\ Goto(d, "consume")
    /\ UNCHANGED <<db, content, now, via, wanted, target, job, faults, hist>>

Consume(d) ==
    /\ pc[d] = "consume"
    /\ consumed' = consumed \cup {via[d]}
    /\ Goto(d, "loop")
    /\ UNCHANGED <<rows, links, terms, revoked, entries, claimed, content, now, via, wanted,
                   erase, job, faults, hist>>

-----------------------------------------------------------------------------
(* removeIfNoUsableShare, called in turn on the files of todo by the       *)
(* completion and by the purge.                                            *)

(* Mutant: no count before the erasure.                                    *)
EraseUncounted(p) ==
    /\ pc[p] = "loop"
    /\ \E f \in todo[p] :
         /\ todo' = [todo EXCEPT ![p] = @ \ {f}]
         /\ target' = [target EXCEPT ![p] = f]
    /\ Goto(p, "find")
    /\ unseen' = [unseen EXCEPT ![p] = {}]
    /\ UNCHANGED <<db, content, now, via, wanted, job, faults, transmitted,
                   unread>>

(* The count of usable links; none, and the file is to go.                 *)
EraseCount(p) ==
    /\ pc[p] = "loop"
    /\ \E f \in todo[p] :
         /\ todo' = [todo EXCEPT ![p] = @ \ {f}]
         /\ target' = [target EXCEPT ![p] = f]
         /\ IF \E s \in Covering(f) : Usable(s)
            THEN UNCHANGED <<pc, unseen>>
            ELSE Goto(p, "find") /\ unseen' = [unseen EXCEPT ![p] = {}]
    /\ UNCHANGED <<db, content, now, via, wanted, job, faults, transmitted,
                   unread>>

EraseFind(p) ==
    /\ pc[p] = "find"
    /\ Goto(p, IF target[p] \in rows THEN "delete" ELSE "loop")
    /\ UNCHANGED <<db, content, now, via, wanted, erase, job, faults, hist>>

(* Mutant: the bytes forgotten once the row is gone.                       *)
EraseRowOnly(p) ==
    /\ pc[p] = "delete"
    /\ IF target[p] \in rows
       THEN DropRow(target[p]) /\ Goto(p, "loop")
       ELSE Goto(p, "aborted") /\ UNCHANGED db
    /\ UNCHANGED <<content, now, via, wanted, erase, job, faults, hist>>

(* The delete throws when another process deleted the row first, and the   *)
(* exception leaves the loop of the caller.                                *)
EraseDelete(p) ==
    /\ pc[p] = "delete"
    /\ IF target[p] \in rows
       THEN DropRow(target[p]) /\ Goto(p, "unlink")
       ELSE Goto(p, "aborted") /\ UNCHANGED db
    /\ UNCHANGED <<content, now, via, wanted, erase, job, faults, hist>>

(* Mutant: return in place of continue after the first file.               *)
EraseContentAndLeave(p) ==
    /\ pc[p] = "unlink"
    /\ content' = content \ {target[p]}
    /\ Goto(p, "done")
    /\ UNCHANGED <<db, now, via, wanted, erase, job, faults, hist>>

EraseContent(p) ==
    /\ pc[p] = "unlink"
    /\ content' = content \ {target[p]}
    /\ Goto(p, "loop")
    /\ UNCHANGED <<db, now, via, wanted, erase, job, faults, hist>>

EraseEnd(p) ==
    /\ pc[p] = "loop"
    /\ todo[p] = {}
    /\ Goto(p, IF p \in Purge THEN "scan" ELSE "done")
    /\ UNCHANGED <<db, content, now, via, wanted, erase, job, faults, hist>>

-----------------------------------------------------------------------------
(* The purge job.                                                          *)

PurgeStart(p) ==
    /\ pc[p] = "idle"
    /\ start' = [start EXCEPT ![p] = now]
    /\ Goto(p, "scan")
    /\ UNCHANGED <<db, content, now, via, wanted, erase, scanned, cursor, faults, hist>>

(* Mutant: the rule counted from the deposit only.                         *)
InactiveSinceDeposit(f, t) ==
    /\ \A s \in Covering(f) : ~UsableAt(s, t)
    /\ CreatedAt[f] + Retention[f] <= t

(* No link usable and no activity since the retention of the plan, by the  *)
(* clock t.  lastActivity is the latest of the deposit and of the expiries *)
(* of every link, revoked and consumed ones too.                           *)
Inactive(f, t) ==
    /\ \A s \in Covering(f) : ~UsableAt(s, t)
    /\ CreatedAt[f] + Retention[f] <= t
    /\ \A s \in Covering(f) : terms[s].expiresAt + Retention[f] <= t

(* The files the next page is taken from (Prisma's cursor and skip).  The  *)
(* cursor is the last file of the page before, which the purge itself may  *)
(* have erased: then skip: 1 skips a file nobody read, or the page is      *)
(* empty, as the library compares with the cursor's value or with its row. *)
Ahead(p) == rows \ scanned[p]

Pages(p) ==
    IF cursor[p] \in rows \cup {None} THEN {Ahead(p)}
    ELSE {{}} \cup {Ahead(p) \ {f} : f \in Ahead(p)}

(* The next batch of files, each judged on the rows read here.             *)
PurgeScan(p) ==
    /\ pc[p] = "scan"
    /\ \E page \in Pages(p) :
         IF page = {}
         THEN Goto(p, "done") /\ UNCHANGED <<todo, scanned, cursor, unread>>
         ELSE \E batch \in SUBSET page :
                /\ \/ Cardinality(batch) = BatchSize
                   \/ batch = page /\ Cardinality(page) < BatchSize
                /\ \E last \in batch : cursor' = [cursor EXCEPT ![p] = last]
                /\ scanned' = [scanned EXCEPT ![p] = @ \cup batch \cup (Ahead(p) \ page)]
                /\ todo' = [todo EXCEPT ![p] = {f \in batch : Inactive(f, start[p])}]
                /\ unread' = [unread EXCEPT ![p] = {}]
                /\ Goto(p, "loop")
    /\ UNCHANGED <<db, content, now, via, wanted, target, start, faults, transmitted,
                   unseen>>

-----------------------------------------------------------------------------
(* The world.                                                              *)

(* A database or storage call rejects, or the process dies: the request    *)
(* ends where it stands, and what it had written stays.  At "open" it is   *)
(* also the key that cannot be opened, a throw outside the try: the claim  *)
(* is not released.                                                        *)
Fault(p) ==
    /\ faults < MaxFaults
    /\ pc[p] \notin {"idle", "done", "aborted"}
    /\ faults' = faults + 1
    /\ Goto(p, "aborted")
    /\ UNCHANGED <<db, content, now, via, wanted, erase, job, hist>>

Tick ==
    /\ now < MaxTime
    /\ now' = now + 1
    /\ UNCHANGED <<db, content, pc, via, wanted, erase, job, faults, hist>>

DownloadStep(d) ==
    \/ CheckContent(d) \/ Claim(d) \/ OpenRead(d)
    \/ Transmit(d) \/ Break(d) \/ Release(d)
    \/ CountUnclaimed(d) \/ ListCovered(d) \/ Consume(d)

EraseStep(p) ==
    EraseCount(p) \/ EraseFind(p) \/ EraseDelete(p) \/ EraseContent(p) \/ EraseEnd(p)

Next ==
    \/ \E s \in Share : CreateCheck(s) \/ CreateInsert(s) \/ Revoke(s)
    \/ \E r \in Remover : RemoveRow(r) \/ RemoveContent(r)
    \/ \E d \in Download : Authorize(d) \/ DownloadStep(d)
    \/ \E p \in Eraser : EraseStep(p)
    \/ \E p \in Purge : PurgeStart(p) \/ PurgeScan(p)
    \/ \E p \in Proc : Fault(p)
    \/ Tick

(* What runs in the backend runs on: a request once started takes its next *)
(* step, a transfer ends or breaks.  Nobody is bound to ask for anything,  *)
(* the clock may stand still, and faults need not come.                    *)
Fairness ==
    /\ \A d \in Download : WF_vars(DownloadStep(d))
    /\ \A p \in Eraser : WF_vars(EraseStep(p))

Spec     == Init /\ [][Next]_vars
FairSpec == Spec /\ Fairness

-----------------------------------------------------------------------------
(* Properties.                                                             *)

(* Where each request and job may stand.                                   *)
PcOK ==
    /\ pc \in [Proc -> DownloadLabel \cup PurgeLabel \cup RemoverLabel \cup CreateLabel]
    /\ \A d \in Download : pc[d] \in DownloadLabel
    /\ \A p \in Purge : pc[p] \in PurgeLabel
    /\ \A r \in Remover : pc[r] \in RemoverLabel
    /\ \A s \in Share : pc[s] \in CreateLabel

(* A link is in the table once its request is done, and a request that has *)
(* started knows what it works on.                                         *)
RequestsOK ==
    /\ \A s \in Share : s \in links <=> pc[s] = "done"
    /\ \A d \in Download : pc[d] # "idle" => via[d] \in links /\ wanted[d] \in File
    /\ \A p \in Eraser \cup Remover :
         pc[p] \in {"find", "delete", "unlink"} => target[p] \in File

(* The tables, with the foreign keys of share_files; each variable has its *)
(* type (schema.prisma, the relations and their cascades).                 *)
TypeOK ==
    /\ PcOK
    /\ RequestsOK
    /\ rows \subseteq File /\ content \subseteq File
    /\ links \subseteq Share /\ revoked \subseteq Share /\ consumed \subseteq Share
    /\ terms \in [Share -> Terms]
    /\ entries \subseteq links \X rows
    /\ claimed \subseteq entries
    /\ now \in Nat
    /\ via \in [Download -> Share \cup {None}]
    /\ wanted \in [Download -> File \cup {None}]
    /\ todo \in [Eraser -> SUBSET File]
    /\ target \in [Eraser \cup Remover -> File \cup {None}]
    /\ start \in [Purge -> Nat]
    /\ scanned \in [Purge -> SUBSET File]
    /\ cursor \in [Purge -> File \cup {None}]
    /\ faults \in Nat
    /\ transmitted \subseteq Download
    /\ unseen \in [Eraser -> SUBSET Share]
    /\ unread \in [Purge -> SUBSET Share]

(* A single-use link transmits each of its files whole to one recipient at *)
(* most, whatever the order of the claims, failures and releases of the    *)
(* requests made at the same time (claimFile and releaseFile).             *)
SingleTransmission ==
    \A d, e \in transmitted : Slot(d) = Slot(e) /\ Burn(d) => d = e

(* A row of the files table always has its bytes on the support: the row   *)
(* goes first, "on garderait une entree dont le telechargement echouerait" *)
(* (remove and removeIfNoUsableShare).                                     *)
RowsHaveContent == rows \subseteq content

(* Bytes without a row are those a process is about to remove, unless a    *)
(* failure stopped it there.                                               *)
OrphansArePending ==
    \A f \in content \ rows :
        \E p \in Eraser \cup Remover :
            /\ target[p] = f
            /\ pc[p] = "unlink" \/ (pc[p] = "aborted" /\ faults > 0)

(* removeIfNoUsableShare never takes a file from a link that existed when  *)
(* it counted and is still usable: what it may miss is only a link created *)
(* since.                                                                  *)
EraseSparesKnownLinks ==
    \A p \in Eraser : pc[p] \in {"find", "delete"} =>
        \A s \in Covering(target[p]) : Usable(s) => s \in unseen[p]

(* The purge never takes a file whose deposit, or whose last link, ended   *)
(* less than the retention before the purge began, although it does not    *)
(* look at the dates again: what it may miss is only a link created since  *)
(* it read the batch.                                                      *)
OldEnough(p, f) ==
    /\ CreatedAt[f] + Retention[f] <= start[p]
    /\ \A s \in Covering(f) : \/ terms[s].expiresAt + Retention[f] <= start[p]
                             \/ s \in unread[p]

PurgeSparesRecentFiles ==
    \A p \in Purge : pc[p] \in {"find", "delete"} => OldEnough(p, target[p])

Sent(s, f) == \E d \in transmitted : Slot(d) = <<s, f>>

(* A single-use link whose files have all been transmitted is consumed in  *)
(* the end, unless a failure stops one of its downloads: the last to       *)
(* finish always finds every file marked.                                  *)
TransmittedLinkConsumed ==
    \A s \in Share :
        (s \in links /\ terms[s].burn /\ \A f \in terms[s].files : Sent(s, f))
            ~> (s \in consumed \/ \E d \in Download : via[d] = s /\ pc[d] = "aborted")

(* The owner deletes a file in the middle of completions, which then meet  *)
(* a row that is gone.                                                     *)
Crossed == \E r \in Remover : pc[r] # "idle"

ToErase(f) == \E d \in Download : pc[d] = "loop" /\ f \in todo[d]
Settled(f) == f \notin rows \/ \E s \in Covering(f) : Usable(s)

(* A file that a completion has to erase is erased in the end, or covered  *)
(* by a usable link, although the completions of two downloads may run     *)
(* over the same files and stop each other, unless a failure comes or the  *)
(* owner deletes a file of the link meanwhile (removeIfNoUsableShare).     *)
BurnedFilesErased ==
    \A f \in File : ToErase(f) ~> (Settled(f) \/ faults > 0 \/ Crossed)

(* partages.md: the files of a consumed link are then "effaces du serveur  *)
(* - base et disque - s'il ne leur reste aucun autre lien exploitable",    *)
(* whatever the owner deletes meanwhile.                                   *)
ConsumedFilesErased ==
    \A f \in File : ToErase(f) ~> (Settled(f) \/ faults > 0)

(* The slots of the single-use links, as module SingleUse sees them.       *)
Holding(d) == pc[d] \in {"open", "sending", "release"} /\ Burn(d)

SlotState(x) ==
    IF x[1] \notin links \/ ~terms[x[1]].burn THEN "none"
    ELSE IF Sent(x[1], x[2]) THEN "sent"
    ELSE IF \E d \in Download : Holding(d) /\ Slot(d) = x THEN "held"
    ELSE IF x \in claimed THEN "lost"
    ELSE IF x \in entries THEN "free" ELSE "gone"

Abstract == INSTANCE SingleUse WITH
    slot <- [x \in Share \X File |-> SlotState(x)],
    got  <- [x \in Share \X File |->
               {e \in transmitted : Slot(e) = x /\ terms[x[1]].burn}]

(* The requests implement what single-use links promise: a claim is the    *)
(* only way to a slot, one request holds it, one recipient ends up with it *)
(* and no release or erasure takes that back.                              *)
SingleUseSpec == Abstract!Spec
=============================================================================
