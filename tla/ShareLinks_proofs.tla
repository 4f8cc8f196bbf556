------------------------- MODULE ShareLinks_proofs --------------------------
(***************************************************************************)
(* Proofs about ShareLinks, for any number of files, links, requests and   *)
(* purges, any dates and any number of failures; the last, that it         *)
(* implements SingleUse.                                                   *)
(***************************************************************************)
EXTENDS ShareLinks, TLAPS

(* A request moves to one of its labels, and no other request moves.       *)
LEMMA GotoType ==
  ASSUME PcOK, NEW p \in Proc, NEW label, Goto(p, label),
         p \in Download => label \in DownloadLabel,
         p \in Purge => label \in PurgeLabel,
         p \in Remover => label \in RemoverLabel,
         p \in Share => label \in CreateLabel
  PROVE  PcOK'
<1>1. label \in DownloadLabel \cup PurgeLabel \cup RemoverLabel \cup CreateLabel
  BY DEF Proc, Eraser
<1>2. QED
  BY <1>1 DEF PcOK, Goto, Proc, Eraser

(* Everything of TypeOK but the labels.                                    *)
DataOK ==
    /\ rows \subseteq File /\ content \subseteq File
    /\ links \subseteq Share /\ revoked \subseteq Share /\ consumed \subseteq Share
    /\ terms \in [Share -> Terms]
    /\ entries \subseteq links \X rows
    /\ claimed \subseteq entries
    /\ now \in Nat
    /\ via \in [Download -> Share \cup {None}]
    /\ wanted \in [Download -> File \cup {None}]
    /\ todo \in [Eraser -> SUBSET File]
    /\ target \in [Eraser \cup Remover -> File \cup {None}]
    /\ start \in [Purge -> Nat]
    /\ scanned \in [Purge -> SUBSET File]
    /\ cursor \in [Purge -> File \cup {None}]
    /\ faults \in Nat
    /\ transmitted \subseteq Download
    /\ unseen \in [Eraser -> SUBSET Share]
    /\ unread \in [Purge -> SUBSET Share]

USE DEF db, erase, job, hist

LEMMA TypeInit == Init => TypeOK
<1> SUFFICES ASSUME Init PROVE TypeOK
  OBVIOUS
<1>1. PcOK
  BY DEF Init, PcOK, Proc, Eraser, DownloadLabel, PurgeLabel, RemoverLabel, CreateLabel
<1>2. DataOK
  BY ShareLinksAssumption DEF Init, DataOK, Eraser, Terms, NoTerms
<1>3. RequestsOK
  BY ProcessAssumption DEF Init, RequestsOK, Proc, Eraser
<1>4. QED
  BY <1>1, <1>2, <1>3 DEF TypeOK, DataOK

LEMMA CreateCheckType ==
  ASSUME TypeOK, NEW s \in Share, CreateCheck(s) PROVE TypeOK'
<1>1. PcOK'
  BY ProcessAssumption, GotoType DEF TypeOK, CreateCheck, Proc, CreateLabel
<1>2. DataOK'
  BY ShareLinksAssumption DEF TypeOK, DataOK, CreateCheck, Terms
<1>3. RequestsOK'
  BY <1>1, ProcessAssumption DEF TypeOK, PcOK, RequestsOK, CreateCheck, DropRow, Covered, Goto,
     Proc, Eraser
<1>4. QED
  BY <1>1, <1>2, <1>3 DEF TypeOK, DataOK

LEMMA CreateInsertType ==
  ASSUME TypeOK, NEW s \in Share, CreateInsert(s) PROVE TypeOK'
<1>1. PcOK'
  BY ProcessAssumption, GotoType DEF TypeOK, CreateInsert, Proc, CreateLabel
<1>2. DataOK'
  <2>1. CASE terms[s].files \subseteq rows
    <3>1. {s} \X terms[s].files \subseteq (links \cup {s}) \X rows
      BY <2>1
    <3>2. /\ links' = links \cup {s} /\ entries' = entries \cup ({s} \X terms[s].files)
          /\ unseen' = [p \in Eraser |-> unseen[p] \cup {s}]
          /\ unread' = [p \in Purge |-> unread[p] \cup {s}]
      BY <2>1 DEF CreateInsert
    <3>3. /\ unseen' \in [Eraser -> SUBSET Share] /\ unread' \in [Purge -> SUBSET Share]
          /\ links' \subseteq Share /\ entries' \subseteq links' \X rows
          /\ claimed \subseteq entries'
      BY <3>1, <3>2 DEF TypeOK
    <3>4. QED
      BY <3>3 DEF TypeOK, DataOK, CreateInsert
  <2>2. CASE ~(terms[s].files \subseteq rows)
    BY <2>2 DEF TypeOK, DataOK, CreateInsert
  <2>3. QED
    BY <2>1, <2>2
<1>3. RequestsOK'
  <2>1. RequestsOK /\ PcOK
    BY DEF TypeOK
  <2>2. /\ pc[s] = "insert" /\ UNCHANGED <<via, wanted, target>>
        /\ \/ links' = links \cup {s} /\ Goto(s, "done")
           \/ UNCHANGED links /\ Goto(s, "aborted")
    BY DEF CreateInsert
  <2>3. QED
    BY <2>1, <2>2, ProcessAssumption DEF PcOK, RequestsOK, Goto, Proc, Eraser
<1>4. QED
  BY <1>1, <1>2, <1>3 DEF TypeOK, DataOK

LEMMA RevokeType ==
  ASSUME TypeOK, NEW s \in Share, Revoke(s) PROVE TypeOK'
<1>1. PcOK'
  BY DEF TypeOK, PcOK, Revoke
<1>2. DataOK'
  BY DEF TypeOK, DataOK, Revoke, DropRow, Covered, Slot, Eraser
<1>3. RequestsOK'
  BY <1>1, ProcessAssumption DEF TypeOK, PcOK, RequestsOK, Revoke, DropRow, Covered, Goto,
     Proc, Eraser
<1>4. QED
  BY <1>1, <1>2, <1>3 DEF TypeOK, DataOK

LEMMA RemoveRowType ==
  ASSUME TypeOK, NEW r \in Remover, RemoveRow(r) PROVE TypeOK'
<1>1. PcOK'
  BY ProcessAssumption, GotoType DEF TypeOK, RemoveRow, Proc, Eraser, Burn,
     DownloadLabel, PurgeLabel, RemoverLabel, CreateLabel
<1>2. DataOK'
  BY DEF TypeOK, DataOK, RemoveRow, DropRow, Covered, Slot, Eraser
<1>3. RequestsOK'
  BY <1>1, ProcessAssumption DEF TypeOK, PcOK, RequestsOK, RemoveRow, DropRow, Covered, Goto,
     Proc, Eraser
<1>4. QED
  BY <1>1, <1>2, <1>3 DEF TypeOK, DataOK

LEMMA RemoveContentType ==
  ASSUME TypeOK, NEW r \in Remover, RemoveContent(r) PROVE TypeOK'
<1>1. PcOK'
  BY ProcessAssumption, GotoType DEF TypeOK, RemoveContent, Proc, Eraser, Burn,
     DownloadLabel, PurgeLabel, RemoverLabel, CreateLabel
<1>2. DataOK'
  BY DEF TypeOK, DataOK, RemoveContent, DropRow, Covered, Slot, Eraser
<1>3. RequestsOK'
  BY <1>1, ProcessAssumption DEF TypeOK, PcOK, RequestsOK, RemoveContent, DropRow, Covered, Goto,
     Proc, Eraser
<1>4. QED
  BY <1>1, <1>2, <1>3 DEF TypeOK, DataOK

LEMMA AuthorizeType ==
  ASSUME TypeOK, NEW d \in Download, Authorize(d) PROVE TypeOK'
<1>1. PcOK'
  BY ProcessAssumption, GotoType DEF TypeOK, Authorize, Proc, Eraser, Burn,
     DownloadLabel, PurgeLabel, RemoverLabel, CreateLabel
<1>2. DataOK'
  BY DEF TypeOK, DataOK, Authorize, DropRow, Covered, Slot, Eraser
<1>3. RequestsOK'
  BY <1>1, ProcessAssumption DEF TypeOK, PcOK, RequestsOK, Authorize, DropRow, Covered, Goto,
     Proc, Eraser
<1>4. QED
  BY <1>1, <1>2, <1>3 DEF TypeOK, DataOK

LEMMA CheckContentType ==
  ASSUME TypeOK, NEW d \in Download, CheckContent(d) PROVE TypeOK'
<1>1. PcOK'
  BY ProcessAssumption, GotoType DEF TypeOK, CheckContent, Proc, Eraser, Burn,
     DownloadLabel, PurgeLabel, RemoverLabel, CreateLabel
<1>2. DataOK'
  BY DEF TypeOK, DataOK, CheckContent, DropRow, Covered, Slot, Eraser
<1>3. RequestsOK'
  BY <1>1, ProcessAssumption DEF TypeOK, PcOK, RequestsOK, CheckContent, DropRow, Covered, Goto,
     Proc, Eraser
<1>4. QED
  BY <1>1, <1>2, <1>3 DEF TypeOK, DataOK

LEMMA ClaimType ==
  ASSUME TypeOK, NEW d \in Download, Claim(d) PROVE TypeOK'
<1>1. PcOK'
  BY ProcessAssumption, GotoType DEF TypeOK, Claim, Proc, Eraser, Burn,
     DownloadLabel, PurgeLabel, RemoverLabel, CreateLabel
<1>2. DataOK'
  BY DEF TypeOK, DataOK, Claim, DropRow, Covered, Slot, Eraser
<1>3. RequestsOK'
  BY <1>1, ProcessAssumption DEF TypeOK, PcOK, RequestsOK, Claim, DropRow, Covered, Goto,
     Proc, Eraser
<1>4. QED
  BY <1>1, <1>2, <1>3 DEF TypeOK, DataOK

LEMMA OpenReadType ==
  ASSUME TypeOK, NEW d \in Download, OpenRead(d) PROVE TypeOK'
<1>1. PcOK'
  BY ProcessAssumption, GotoType DEF TypeOK, OpenRead, Proc, Eraser, Burn,
     DownloadLabel, PurgeLabel, RemoverLabel, CreateLabel
<1>2. DataOK'
  BY DEF TypeOK, DataOK, OpenRead, DropRow, Covered, Slot, Eraser
<1>3. RequestsOK'
  BY <1>1, ProcessAssumption DEF TypeOK, PcOK, RequestsOK, OpenRead, DropRow, Covered, Goto,
     Proc, Eraser
<1>4. QED
  BY <1>1, <1>2, <1>3 DEF TypeOK, DataOK

LEMMA TransmitType ==
  ASSUME TypeOK, NEW d \in Download, Transmit(d) PROVE TypeOK'
<1>1. PcOK'
  BY ProcessAssumption, GotoType DEF TypeOK, Transmit, Proc, Eraser, Burn,
     DownloadLabel, PurgeLabel, RemoverLabel, CreateLabel
<1>2. DataOK'
  BY DEF TypeOK, DataOK, Transmit, DropRow, Covered, Slot, Eraser
<1>3. RequestsOK'
  BY <1>1, ProcessAssumption DEF TypeOK, PcOK, RequestsOK, Transmit, DropRow, Covered, Goto,
     Proc, Eraser
<1>4. QED
  BY <1>1, <1>2, <1>3 DEF TypeOK, DataOK

LEMMA BreakType ==
  ASSUME TypeOK, NEW d \in Download, Break(d) PROVE TypeOK'
<1>1. PcOK'
  BY ProcessAssumption, GotoType DEF TypeOK, Break, Proc, Eraser, Burn,
     DownloadLabel, PurgeLabel, RemoverLabel, CreateLabel
<1>2. DataOK'
  BY DEF TypeOK, DataOK, Break, DropRow, Covered, Slot, Eraser
<1>3. RequestsOK'
  BY <1>1, ProcessAssumption DEF TypeOK, PcOK, RequestsOK, Break, DropRow, Covered, Goto,
     Proc, Eraser
<1>4. QED
  BY <1>1, <1>2, <1>3 DEF TypeOK, DataOK

LEMMA ReleaseType ==
  ASSUME TypeOK, NEW d \in Download, Release(d) PROVE TypeOK'
<1>1. PcOK'
  BY ProcessAssumption, GotoType DEF TypeOK, Release, Proc, Eraser, Burn,
     DownloadLabel, PurgeLabel, RemoverLabel, CreateLabel
<1>2. DataOK'
  BY DEF TypeOK, DataOK, Release, DropRow, Covered, Slot, Eraser
<1>3. RequestsOK'
  BY <1>1, ProcessAssumption DEF TypeOK, PcOK, RequestsOK, Release, DropRow, Covered, Goto,
     Proc, Eraser
<1>4. QED
  BY <1>1, <1>2, <1>3 DEF TypeOK, DataOK

LEMMA CountUnclaimedType ==
  ASSUME TypeOK, NEW d \in Download, CountUnclaimed(d) PROVE TypeOK'
<1>1. PcOK'
  BY ProcessAssumption, GotoType DEF TypeOK, CountUnclaimed, Proc, Eraser, Burn,
     DownloadLabel, PurgeLabel, RemoverLabel, CreateLabel
<1>2. DataOK'
  BY DEF TypeOK, DataOK, CountUnclaimed, DropRow, Covered, Slot, Eraser
<1>3. RequestsOK'
  BY <1>1, ProcessAssumption DEF TypeOK, PcOK, RequestsOK, CountUnclaimed, DropRow, Covered, Goto,
     Proc, Eraser
<1>4. QED
  BY <1>1, <1>2, <1>3 DEF TypeOK, DataOK

LEMMA ListCoveredType ==
  ASSUME TypeOK, NEW d \in Download, ListCovered(d) PROVE TypeOK'
<1>1. PcOK'
  BY ProcessAssumption, GotoType DEF TypeOK, ListCovered, Proc, Eraser, Burn,
     DownloadLabel, PurgeLabel, RemoverLabel, CreateLabel
<1>2. DataOK'
  BY DEF TypeOK, DataOK, ListCovered, DropRow, Covered, Slot, Eraser
<1>3. RequestsOK'
  BY <1>1, ProcessAssumption DEF TypeOK, PcOK, RequestsOK, ListCovered, DropRow, Covered, Goto,
     Proc, Eraser
<1>4. QED
  BY <1>1, <1>2, <1>3 DEF TypeOK, DataOK

LEMMA ConsumeType ==
  ASSUME TypeOK, NEW d \in Download, Consume(d) PROVE TypeOK'
<1>1. PcOK'
  BY ProcessAssumption, GotoType DEF TypeOK, Consume, Proc, Eraser, Burn,
     DownloadLabel, PurgeLabel, RemoverLabel, CreateLabel
<1>2. DataOK'
  BY DEF TypeOK, DataOK, RequestsOK, Consume, DropRow, Covered, Slot, Eraser
<1>3. RequestsOK'
  BY <1>1, ProcessAssumption DEF TypeOK, PcOK, RequestsOK, Consume, DropRow, Covered, Goto,
     Proc, Eraser
<1>4. QED
  BY <1>1, <1>2, <1>3 DEF TypeOK, DataOK

LEMMA EraseCountType ==
  ASSUME TypeOK, NEW p \in Eraser, EraseCount(p) PROVE TypeOK'
<1>1. PcOK'
  <2>1. CASE Goto(p, "find")
    BY <2>1, ProcessAssumption, GotoType DEF TypeOK, Proc, Eraser,
       DownloadLabel, PurgeLabel
  <2>2. CASE UNCHANGED pc
    BY <2>2 DEF TypeOK, PcOK
  <2>3. QED
    BY <2>1, <2>2 DEF EraseCount
<1>2. DataOK'
  BY DEF TypeOK, DataOK, EraseCount, DropRow, Covered, Slot, Eraser
<1>3. RequestsOK'
  BY <1>1, ProcessAssumption DEF TypeOK, PcOK, RequestsOK, EraseCount, DropRow, Covered, Goto,
     Proc, Eraser
<1>4. QED
  BY <1>1, <1>2, <1>3 DEF TypeOK, DataOK

LEMMA EraseFindType ==
  ASSUME TypeOK, NEW p \in Eraser, EraseFind(p) PROVE TypeOK'
<1>1. PcOK'
  BY ProcessAssumption, GotoType DEF TypeOK, EraseFind, Proc, Eraser, Burn,
     DownloadLabel, PurgeLabel, RemoverLabel, CreateLabel
<1>2. DataOK'
  BY DEF TypeOK, DataOK, EraseFind, DropRow, Covered, Slot, Eraser
<1>3. RequestsOK'
  BY <1>1, ProcessAssumption DEF TypeOK, PcOK, RequestsOK, EraseFind, DropRow, Covered, Goto,
     Proc, Eraser
<1>4. QED
  BY <1>1, <1>2, <1>3 DEF TypeOK, DataOK

LEMMA EraseDeleteType ==
  ASSUME TypeOK, NEW p \in Eraser, EraseDelete(p) PROVE TypeOK'
<1>1. PcOK'
  BY ProcessAssumption, GotoType DEF TypeOK, EraseDelete, Proc, Eraser, Burn,
     DownloadLabel, PurgeLabel, RemoverLabel, CreateLabel
<1>2. DataOK'
  BY DEF TypeOK, DataOK, EraseDelete, DropRow, Covered, Slot, Eraser
<1>3. RequestsOK'
  BY <1>1, ProcessAssumption DEF TypeOK, PcOK, RequestsOK, EraseDelete, DropRow, Covered, Goto,
     Proc, Eraser
<1>4. QED
  BY <1>1, <1>2, <1>3 DEF TypeOK, DataOK

LEMMA EraseContentType ==
  ASSUME TypeOK, NEW p \in Eraser, EraseContent(p) PROVE TypeOK'
<1>1. PcOK'
  BY ProcessAssumption, GotoType DEF TypeOK, EraseContent, Proc, Eraser, Burn,
     DownloadLabel, PurgeLabel, RemoverLabel, CreateLabel
<1>2. DataOK'
  BY DEF TypeOK, DataOK, EraseContent, DropRow, Covered, Slot, Eraser
<1>3. RequestsOK'
  BY <1>1, ProcessAssumption DEF TypeOK, PcOK, RequestsOK, EraseContent, DropRow, Covered, Goto,
     Proc, Eraser
<1>4. QED
  BY <1>1, <1>2, <1>3 DEF TypeOK, DataOK

LEMMA EraseEndType ==
  ASSUME TypeOK, NEW p \in Eraser, EraseEnd(p) PROVE TypeOK'
<1>1. PcOK'
  BY ProcessAssumption, GotoType DEF TypeOK, EraseEnd, Proc, Eraser, Burn,
     DownloadLabel, PurgeLabel, RemoverLabel, CreateLabel
<1>2. DataOK'
  BY DEF TypeOK, DataOK, EraseEnd, DropRow, Covered, Slot, Eraser
<1>3. RequestsOK'
  BY <1>1, ProcessAssumption DEF TypeOK, PcOK, RequestsOK, EraseEnd, DropRow, Covered, Goto,
     Proc, Eraser
<1>4. QED
  BY <1>1, <1>2, <1>3 DEF TypeOK, DataOK

LEMMA PurgeStartType ==
  ASSUME TypeOK, NEW p \in Purge, PurgeStart(p) PROVE TypeOK'
<1>1. PcOK'
  BY ProcessAssumption, GotoType DEF TypeOK, PurgeStart, Proc, Eraser, Burn,
     DownloadLabel, PurgeLabel, RemoverLabel, CreateLabel
<1>2. DataOK'
  BY DEF TypeOK, DataOK, PurgeStart, DropRow, Covered, Slot, Eraser
<1>3. RequestsOK'
  BY <1>1, ProcessAssumption DEF TypeOK, PcOK, RequestsOK, PurgeStart, DropRow, Covered, Goto,
     Proc, Eraser
<1>4. QED
  BY <1>1, <1>2, <1>3 DEF TypeOK, DataOK

(* A page is of files that have a row.                                     *)
LEMMA PagesType ==
  ASSUME NEW p \in Purge, NEW page \in Pages(p) PROVE page \subseteq rows
BY DEF Pages, Ahead

(* What a page comes to: the end of the purge, or files to erase, each of  *)
(* them inactive by the rows just read.                                    *)
LEMMA PurgeScanEffect ==
  ASSUME NEW p \in Purge, PurgeScan(p)
  PROVE  \/ Goto(p, "done") /\ UNCHANGED <<todo, unread>>
         \/ \E batch \in SUBSET rows :
              /\ todo' = [todo EXCEPT ![p] = {f \in batch : Inactive(f, start[p])}]
              /\ unread' = [unread EXCEPT ![p] = {}]
              /\ Goto(p, "loop")
<1>1. PICK page \in Pages(p) :
        \/ Goto(p, "done") /\ UNCHANGED <<todo, unread>>
        \/ \E batch \in SUBSET page :
             /\ todo' = [todo EXCEPT ![p] = {f \in batch : Inactive(f, start[p])}]
             /\ unread' = [unread EXCEPT ![p] = {}]
             /\ Goto(p, "loop")
  BY DEF PurgeScan
<1>2. page \subseteq rows
  BY PagesType
<1>3. QED
  BY <1>1, <1>2

LEMMA PurgeScanType ==
  ASSUME TypeOK, NEW p \in Purge, PurgeScan(p) PROVE TypeOK'
<1>1. PcOK'
  BY ProcessAssumption, GotoType DEF TypeOK, PurgeScan, Proc, Eraser, Burn,
     DownloadLabel, PurgeLabel, RemoverLabel, CreateLabel
<1>2. DataOK'
  <2>1. rows \subseteq File /\ scanned[p] \subseteq File
    BY DEF TypeOK
  <2>2. CASE UNCHANGED <<todo, scanned, cursor, unread>>
    BY <2>2 DEF TypeOK, DataOK, PurgeScan
  <2>3. ASSUME NEW page \in Pages(p), NEW batch \in SUBSET page, NEW last \in batch,
               cursor' = [cursor EXCEPT ![p] = last],
               scanned' = [scanned EXCEPT ![p] = @ \cup batch \cup (Ahead(p) \ page)],
               todo' = [todo EXCEPT ![p] = {f \in batch : Inactive(f, start[p])}],
               unread' = [unread EXCEPT ![p] = {}]
        PROVE  DataOK'
    <3>1. batch \subseteq File /\ Ahead(p) \subseteq File
      BY <2>1, PagesType DEF Ahead
    <3>2. /\ last \in File
          /\ scanned[p] \cup batch \cup (Ahead(p) \ page) \subseteq File
          /\ {f \in batch : Inactive(f, start[p])} \subseteq File
      BY <2>1, <3>1
    <3>3. QED
      BY <2>3, <3>2 DEF TypeOK, DataOK, PurgeScan, Eraser
  <2>4. QED
    BY <2>2, <2>3 DEF PurgeScan
<1>3. RequestsOK'
  BY <1>1, ProcessAssumption DEF TypeOK, PcOK, RequestsOK, PurgeScan, DropRow, Covered, Goto,
     Proc, Eraser
<1>4. QED
  BY <1>1, <1>2, <1>3 DEF TypeOK, DataOK

LEMMA FaultType ==
  ASSUME TypeOK, NEW p \in Proc, Fault(p) PROVE TypeOK'
<1>1. PcOK'
  BY ProcessAssumption, GotoType DEF TypeOK, Fault, Proc, Eraser, Burn,
     DownloadLabel, PurgeLabel, RemoverLabel, CreateLabel
<1>2. DataOK'
  BY DEF TypeOK, DataOK, Fault, DropRow, Covered, Slot, Eraser
<1>3. RequestsOK'
  BY <1>1, ProcessAssumption DEF TypeOK, PcOK, RequestsOK, Fault, DropRow, Covered, Goto,
     Proc, Eraser
<1>4. QED
  BY <1>1, <1>2, <1>3 DEF TypeOK, DataOK

LEMMA TickType ==
  ASSUME TypeOK, Tick PROVE TypeOK'
<1>1. PcOK'
  BY DEF TypeOK, PcOK, Tick
<1>2. DataOK'
  BY DEF TypeOK, DataOK, Tick, DropRow, Covered, Slot, Eraser
<1>3. RequestsOK'
  BY <1>1, ProcessAssumption DEF TypeOK, PcOK, RequestsOK, Tick, DropRow, Covered, Goto,
     Proc, Eraser
<1>4. QED
  BY <1>1, <1>2, <1>3 DEF TypeOK, DataOK

LEMMA TypeStep == TypeOK /\ [Next]_vars => TypeOK'
<1> SUFFICES ASSUME TypeOK, [Next]_vars PROVE TypeOK'
  OBVIOUS
<1>1. CASE UNCHANGED vars
  BY <1>1 DEF TypeOK, PcOK, RequestsOK, vars
<1>2. CASE Next
  BY <1>2, CreateCheckType, CreateInsertType, RevokeType, RemoveRowType, RemoveContentType,
     AuthorizeType, CheckContentType, ClaimType, OpenReadType, TransmitType,
     BreakType, ReleaseType, CountUnclaimedType, ListCoveredType, ConsumeType,
     EraseCountType, EraseFindType, EraseDeleteType, EraseContentType, EraseEndType,
     PurgeStartType, PurgeScanType, FaultType, TickType
  DEF Next, DownloadStep, EraseStep
<1>3. QED
  BY <1>1, <1>2

(* Every behaviour is well typed and keeps the foreign keys.               *)
THEOREM TypeCorrect == Spec => []TypeOK
BY TypeInit, TypeStep, PTL DEF Spec

-----------------------------------------------------------------------------
(* RowsHaveContent: what a process is about to remove from the support has *)
(* no row, so it never takes the bytes of one.                             *)
UnlinkAfterRow ==
    \A p \in Eraser \cup Remover : pc[p] = "unlink" => target[p] \notin rows

ContentInv == UnlinkAfterRow /\ RowsHaveContent

LEMMA ContentInvStep == TypeOK /\ TypeOK' /\ ContentInv /\ [Next]_vars => ContentInv'
<1> SUFFICES ASSUME TypeOK, TypeOK', ContentInv, [Next]_vars PROVE ContentInv'
  OBVIOUS
<1> USE DEF ContentInv, UnlinkAfterRow, RowsHaveContent, TypeOK, PcOK, RequestsOK, Goto, DropRow, Proc, Eraser
<1>1. ASSUME NEW s \in Share, CreateCheck(s) PROVE ContentInv'
  BY <1>1, ProcessAssumption DEF CreateCheck
<1>2. ASSUME NEW s \in Share, CreateInsert(s) PROVE ContentInv'
  BY <1>2, ProcessAssumption DEF CreateInsert
<1>3. ASSUME NEW s \in Share, Revoke(s) PROVE ContentInv'
  BY <1>3, ProcessAssumption DEF Revoke
<1>4. ASSUME NEW r \in Remover, RemoveRow(r) PROVE ContentInv'
  BY <1>4, ProcessAssumption DEF RemoveRow
<1>5. ASSUME NEW r \in Remover, RemoveContent(r) PROVE ContentInv'
  BY <1>5, ProcessAssumption DEF RemoveContent
<1>6. ASSUME NEW d \in Download, Authorize(d) PROVE ContentInv'
  BY <1>6, ProcessAssumption DEF Authorize
<1>7. ASSUME NEW d \in Download, CheckContent(d) PROVE ContentInv'
  BY <1>7, ProcessAssumption DEF CheckContent
<1>8. ASSUME NEW d \in Download, Claim(d) PROVE ContentInv'
  BY <1>8, ProcessAssumption DEF Claim
<1>9. ASSUME NEW d \in Download, OpenRead(d) PROVE ContentInv'
  BY <1>9, ProcessAssumption DEF OpenRead
<1>10. ASSUME NEW d \in Download, Transmit(d) PROVE ContentInv'
  BY <1>10, ProcessAssumption DEF Transmit
<1>11. ASSUME NEW d \in Download, Break(d) PROVE ContentInv'
  BY <1>11, ProcessAssumption DEF Break
<1>12. ASSUME NEW d \in Download, Release(d) PROVE ContentInv'
  BY <1>12, ProcessAssumption DEF Release
<1>13. ASSUME NEW d \in Download, CountUnclaimed(d) PROVE ContentInv'
  BY <1>13, ProcessAssumption DEF CountUnclaimed
<1>14. ASSUME NEW d \in Download, ListCovered(d) PROVE ContentInv'
  BY <1>14, ProcessAssumption DEF ListCovered
<1>15. ASSUME NEW d \in Download, Consume(d) PROVE ContentInv'
  BY <1>15, ProcessAssumption DEF Consume
<1>16. ASSUME NEW p \in Eraser, EraseCount(p) PROVE ContentInv'
  BY <1>16, ProcessAssumption DEF EraseCount
<1>17. ASSUME NEW p \in Eraser, EraseFind(p) PROVE ContentInv'
  BY <1>17, ProcessAssumption DEF EraseFind
<1>18. ASSUME NEW p \in Eraser, EraseDelete(p) PROVE ContentInv'
  BY <1>18, ProcessAssumption DEF EraseDelete
<1>19. ASSUME NEW p \in Eraser, EraseContent(p) PROVE ContentInv'
  BY <1>19, ProcessAssumption DEF EraseContent
<1>20. ASSUME NEW p \in Eraser, EraseEnd(p) PROVE ContentInv'
  BY <1>20, ProcessAssumption DEF EraseEnd
<1>21. ASSUME NEW p \in Purge, PurgeStart(p) PROVE ContentInv'
  BY <1>21, ProcessAssumption DEF PurgeStart
<1>22. ASSUME NEW p \in Purge, PurgeScan(p) PROVE ContentInv'
  BY <1>22, ProcessAssumption DEF PurgeScan
<1>23. ASSUME NEW p \in Proc, Fault(p) PROVE ContentInv'
  BY <1>23, ProcessAssumption DEF Fault
<1>24. CASE Tick
  BY <1>24, ProcessAssumption DEF Tick
<1>25. CASE UNCHANGED vars
  BY <1>25 DEF vars
<1>26. QED
  BY <1>1, <1>2, <1>3, <1>4, <1>5, <1>6, <1>7, <1>8, <1>9, <1>10, <1>11, <1>12,
     <1>13, <1>14, <1>15, <1>16, <1>17, <1>18, <1>19, <1>20, <1>21, <1>22, <1>23,
     <1>24, <1>25 DEF Next, DownloadStep, EraseStep

(* A row of the files table always has its bytes on the support.           *)
THEOREM ContentKept == Spec => []RowsHaveContent
<1>1. Init => ContentInv
  BY ProcessAssumption DEF Init, ContentInv, UnlinkAfterRow, RowsHaveContent, Proc, Eraser
<1>2. ContentInv => RowsHaveContent
  BY DEF ContentInv
<1>3. QED
  BY <1>1, <1>2, ContentInvStep, TypeCorrect, PTL DEF Spec

-----------------------------------------------------------------------------
(* OrphansArePending: who takes a row away stands at "unlink" until it has *)
(* removed the bytes, and only a failure moves it elsewhere.               *)

LEMMA OrphansStep == TypeOK /\ TypeOK' /\ OrphansArePending /\ [Next]_vars => OrphansArePending'
<1> SUFFICES ASSUME TypeOK, TypeOK', OrphansArePending, [Next]_vars PROVE OrphansArePending'
  OBVIOUS
<1> USE DEF OrphansArePending, TypeOK, PcOK, RequestsOK, Goto, DropRow, Proc, Eraser
<1>1. ASSUME NEW s \in Share, CreateCheck(s) PROVE OrphansArePending'
  BY <1>1, ProcessAssumption DEF CreateCheck
<1>2. ASSUME NEW s \in Share, CreateInsert(s) PROVE OrphansArePending'
  <2>1. UNCHANGED <<rows, content, target, faults>> /\ pc[s] = "insert"
    BY <1>2 DEF CreateInsert
  <2>2. \A p \in Proc : p # s => pc'[p] = pc[p]
    BY <1>2 DEF CreateInsert
  <2>3. s \notin Eraser \cup Remover
    BY ProcessAssumption
  <2>4. \A p \in Eraser \cup Remover : pc'[p] = pc[p]
    BY <2>2, <2>3
  <2>5. SUFFICES ASSUME NEW f \in content' \ rows'
                 PROVE  \E p \in Eraser \cup Remover :
                          /\ target'[p] = f
                          /\ pc'[p] = "unlink" \/ (pc'[p] = "aborted" /\ faults' > 0)
    OBVIOUS
  <2>6. PICK p \in Eraser \cup Remover :
          /\ target[p] = f
          /\ pc[p] = "unlink" \/ (pc[p] = "aborted" /\ faults > 0)
    BY <2>1
  <2>7. QED
    BY <2>1, <2>4, <2>6
<1>3. ASSUME NEW s \in Share, Revoke(s) PROVE OrphansArePending'
  BY <1>3, ProcessAssumption DEF Revoke
<1>4. ASSUME NEW r \in Remover, RemoveRow(r) PROVE OrphansArePending'
  BY <1>4, ProcessAssumption DEF RemoveRow
<1>5. ASSUME NEW r \in Remover, RemoveContent(r) PROVE OrphansArePending'
  BY <1>5, ProcessAssumption DEF RemoveContent
<1>6. ASSUME NEW d \in Download, Authorize(d) PROVE OrphansArePending'
  BY <1>6, ProcessAssumption DEF Authorize
<1>7. ASSUME NEW d \in Download, CheckContent(d) PROVE OrphansArePending'
  BY <1>7, ProcessAssumption DEF CheckContent
<1>8. ASSUME NEW d \in Download, Claim(d) PROVE OrphansArePending'
  BY <1>8, ProcessAssumption DEF Claim
<1>9. ASSUME NEW d \in Download, OpenRead(d) PROVE OrphansArePending'
  BY <1>9, ProcessAssumption DEF OpenRead
<1>10. ASSUME NEW d \in Download, Transmit(d) PROVE OrphansArePending'
  BY <1>10, ProcessAssumption DEF Transmit
<1>11. ASSUME NEW d \in Download, Break(d) PROVE OrphansArePending'
  BY <1>11, ProcessAssumption DEF Break
<1>12. ASSUME NEW d \in Download, Release(d) PROVE OrphansArePending'
  BY <1>12, ProcessAssumption DEF Release
<1>13. ASSUME NEW d \in Download, CountUnclaimed(d) PROVE OrphansArePending'
  BY <1>13, ProcessAssumption DEF CountUnclaimed
<1>14. ASSUME NEW d \in Download, ListCovered(d) PROVE OrphansArePending'
  BY <1>14, ProcessAssumption DEF ListCovered
<1>15. ASSUME NEW d \in Download, Consume(d) PROVE OrphansArePending'
  BY <1>15, ProcessAssumption DEF Consume
<1>16. ASSUME NEW p \in Eraser, EraseCount(p) PROVE OrphansArePending'
  BY <1>16, ProcessAssumption DEF EraseCount
<1>17. ASSUME NEW p \in Eraser, EraseFind(p) PROVE OrphansArePending'
  BY <1>17, ProcessAssumption DEF EraseFind
<1>18. ASSUME NEW p \in Eraser, EraseDelete(p) PROVE OrphansArePending'
  BY <1>18, ProcessAssumption DEF EraseDelete
<1>19. ASSUME NEW p \in Eraser, EraseContent(p) PROVE OrphansArePending'
  BY <1>19, ProcessAssumption DEF EraseContent
<1>20. ASSUME NEW p \in Eraser, EraseEnd(p) PROVE OrphansArePending'
  BY <1>20, ProcessAssumption DEF EraseEnd
<1>21. ASSUME NEW p \in Purge, PurgeStart(p) PROVE OrphansArePending'
  BY <1>21, ProcessAssumption DEF PurgeStart
<1>22. ASSUME NEW p \in Purge, PurgeScan(p) PROVE OrphansArePending'
  BY <1>22, ProcessAssumption DEF PurgeScan
<1>23. ASSUME NEW p \in Proc, Fault(p) PROVE OrphansArePending'
  BY <1>23, ProcessAssumption DEF Fault
<1>24. CASE Tick
  BY <1>24 DEF Tick
<1>25. CASE UNCHANGED vars
  BY <1>25 DEF vars
<1>26. QED
  BY <1>1, <1>2, <1>3, <1>4, <1>5, <1>6, <1>7, <1>8, <1>9, <1>10, <1>11, <1>12,
     <1>13, <1>14, <1>15, <1>16, <1>17, <1>18, <1>19, <1>20, <1>21, <1>22, <1>23,
     <1>24, <1>25 DEF Next, DownloadStep, EraseStep

(* Without a failure, bytes without a row are always about to be removed   *)
(* (remove and removeIfNoUsableShare).                                     *)
THEOREM OrphansPending == Spec => []OrphansArePending
<1>1. Init => OrphansArePending
  BY DEF Init, OrphansArePending
<1>2. QED
  BY <1>1, OrphansStep, TypeCorrect, PTL DEF Spec

-----------------------------------------------------------------------------
(* SingleTransmission: a request that may send the file of a single-use    *)
(* link, or has sent it, keeps it from every other, because its mark is    *)
(* set (or the file has gone) and only itself may clear the mark.          *)
Keeps(d) ==
    /\ pc[d] \in {"open", "sending", "release"} \/ d \in transmitted
    /\ Burn(d)

SentIsPast ==
    \A d \in transmitted :
        pc[d] \notin {"idle", "authorized", "claim", "open", "sending", "release"}

KeptIsMarked == \A d \in Download : Keeps(d) => Slot(d) \notin entries \ claimed

OneKeeper ==
    \A d, e \in Download : Keeps(d) /\ Keeps(e) /\ Slot(d) = Slot(e) => d = e

ClaimInv == SentIsPast /\ KeptIsMarked /\ OneKeeper

LEMMA ClaimInvStep == TypeOK /\ TypeOK' /\ ClaimInv /\ [Next]_vars => ClaimInv'
<1> SUFFICES ASSUME TypeOK, TypeOK', ClaimInv, [Next]_vars PROVE ClaimInv'
  OBVIOUS
<1> USE DEF ClaimInv, SentIsPast, KeptIsMarked, OneKeeper, Keeps, Burn, Slot,
      TypeOK, PcOK, RequestsOK, Goto, DropRow, Proc, Eraser
<1>1. ASSUME NEW s \in Share, CreateCheck(s) PROVE ClaimInv'
  BY <1>1, ProcessAssumption DEF CreateCheck
<1>2. ASSUME NEW s \in Share, CreateInsert(s) PROVE ClaimInv'
  BY <1>2, ProcessAssumption DEF CreateInsert
<1>3. ASSUME NEW s \in Share, Revoke(s) PROVE ClaimInv'
  BY <1>3, ProcessAssumption DEF Revoke
<1>4. ASSUME NEW r \in Remover, RemoveRow(r) PROVE ClaimInv'
  BY <1>4, ProcessAssumption DEF RemoveRow
<1>5. ASSUME NEW r \in Remover, RemoveContent(r) PROVE ClaimInv'
  BY <1>5, ProcessAssumption DEF RemoveContent
<1>6. ASSUME NEW d \in Download, Authorize(d) PROVE ClaimInv'
  BY <1>6, ProcessAssumption DEF Authorize
<1>7. ASSUME NEW d \in Download, CheckContent(d) PROVE ClaimInv'
  BY <1>7, ProcessAssumption DEF CheckContent
<1>8. ASSUME NEW d \in Download, Claim(d) PROVE ClaimInv'
  <2>1. /\ pc[d] = "claim" /\ d \notin transmitted
        /\ UNCHANGED <<transmitted, entries, via, wanted, terms>>
    BY <1>8 DEF Claim
  <2>2. CASE Slot(d) \in entries \ claimed
    <3>1. claimed' = claimed \cup {Slot(d)} /\ pc' = [pc EXCEPT ![d] = "open"]
      BY <1>8, <2>2 DEF Claim
    <3>2. \A e \in Download : e # d => (Keeps(e)' <=> Keeps(e)) /\ Slot(e)' = Slot(e)
      BY <2>1, <3>1
    <3>3. \A e \in Download : Keeps(e) => Slot(e) # Slot(d)
      BY <2>2
    <3>4. SentIsPast'
      BY <2>1, <3>1
    <3>5. KeptIsMarked'
      BY <2>1, <3>1, <3>2
    <3>6. OneKeeper'
      BY <2>1, <3>1, <3>2, <3>3
    <3>7. QED
      BY <3>4, <3>5, <3>6
  <2>3. CASE Slot(d) \notin entries \ claimed
    BY <1>8, <2>1, <2>3 DEF Claim
  <2>4. QED
    BY <2>2, <2>3
<1>9. ASSUME NEW d \in Download, OpenRead(d) PROVE ClaimInv'
  BY <1>9, ProcessAssumption DEF OpenRead
<1>10. ASSUME NEW d \in Download, Transmit(d) PROVE ClaimInv'
  BY <1>10, ProcessAssumption DEF Transmit
<1>11. ASSUME NEW d \in Download, Break(d) PROVE ClaimInv'
  BY <1>11, ProcessAssumption DEF Break
<1>12. ASSUME NEW d \in Download, Release(d) PROVE ClaimInv'
  BY <1>12, ProcessAssumption DEF Release
<1>13. ASSUME NEW d \in Download, CountUnclaimed(d) PROVE ClaimInv'
  BY <1>13, ProcessAssumption DEF CountUnclaimed
<1>14. ASSUME NEW d \in Download, ListCovered(d) PROVE ClaimInv'
  BY <1>14, ProcessAssumption DEF ListCovered
<1>15. ASSUME NEW d \in Download, Consume(d) PROVE ClaimInv'
  BY <1>15, ProcessAssumption DEF Consume
<1>16. ASSUME NEW p \in Eraser, EraseCount(p) PROVE ClaimInv'
  <2>1. pc[p] = "loop"
    BY <1>16 DEF EraseCount
  <2>2. CASE Goto(p, "find")
    BY <1>16, <2>1, <2>2, ProcessAssumption DEF EraseCount
  <2>3. CASE UNCHANGED pc
    BY <1>16, <2>3 DEF EraseCount
  <2>4. QED
    BY <1>16, <2>2, <2>3 DEF EraseCount
<1>17. ASSUME NEW p \in Eraser, EraseFind(p) PROVE ClaimInv'
  BY <1>17, ProcessAssumption DEF EraseFind
<1>18. ASSUME NEW p \in Eraser, EraseDelete(p) PROVE ClaimInv'
  BY <1>18, ProcessAssumption DEF EraseDelete
<1>19. ASSUME NEW p \in Eraser, EraseContent(p) PROVE ClaimInv'
  BY <1>19, ProcessAssumption DEF EraseContent
<1>20. ASSUME NEW p \in Eraser, EraseEnd(p) PROVE ClaimInv'
  BY <1>20, ProcessAssumption DEF EraseEnd
<1>21. ASSUME NEW p \in Purge, PurgeStart(p) PROVE ClaimInv'
  BY <1>21, ProcessAssumption DEF PurgeStart
<1>22. ASSUME NEW p \in Purge, PurgeScan(p) PROVE ClaimInv'
  BY <1>22, ProcessAssumption DEF PurgeScan
<1>23. ASSUME NEW p \in Proc, Fault(p) PROVE ClaimInv'
  BY <1>23, ProcessAssumption DEF Fault
<1>24. CASE Tick
  BY <1>24, ProcessAssumption DEF Tick
<1>25. CASE UNCHANGED vars
  BY <1>25 DEF vars
<1>26. QED
  BY <1>1, <1>2, <1>3, <1>4, <1>5, <1>6, <1>7, <1>8, <1>9, <1>10, <1>11, <1>12,
     <1>13, <1>14, <1>15, <1>16, <1>17, <1>18, <1>19, <1>20, <1>21, <1>22, <1>23,
     <1>24, <1>25
  DEF Next, DownloadStep, EraseStep

LEMMA ClaimInvHolds == Spec => []ClaimInv
<1>1. Init => ClaimInv
  <2> SUFFICES ASSUME Init PROVE ClaimInv
    OBVIOUS
  <2>1. \A d \in Download : pc[d] = "idle" /\ d \notin transmitted
    BY DEF Init, Proc, Eraser
  <2>2. \A d \in Download : ~Keeps(d)
    BY <2>1 DEF Keeps
  <2>3. QED
    BY <2>2 DEF Init, ClaimInv, SentIsPast, KeptIsMarked, OneKeeper
<1>2. QED
  BY <1>1, ClaimInvStep, TypeCorrect, PTL DEF Spec

(* A file of a single-use link reaches one recipient at most.              *)
THEOREM OneRecipient == Spec => []SingleTransmission
<1>1. TypeOK /\ ClaimInv => SingleTransmission
  BY DEF TypeOK, ClaimInv, OneKeeper, Keeps, SingleTransmission, Burn, Slot
<1>2. QED
  BY <1>1, ClaimInvHolds, TypeCorrect, PTL

-----------------------------------------------------------------------------
(* EraseSparesKnownLinks: once a process has counted no usable link, only a *)
(* new link may become usable.                                             *)

LEMMA KnownLinksStep == TypeOK /\ TypeOK' /\ EraseSparesKnownLinks /\ [Next]_vars => EraseSparesKnownLinks'
<1> SUFFICES ASSUME TypeOK, TypeOK', EraseSparesKnownLinks, [Next]_vars PROVE EraseSparesKnownLinks'
  OBVIOUS
<1> USE DEF EraseSparesKnownLinks, Usable, UsableAt, Covering, TypeOK, PcOK, RequestsOK, Goto,
      DropRow, Proc, Eraser, Terms
<1>1. ASSUME NEW s \in Share, CreateCheck(s) PROVE EraseSparesKnownLinks'
  BY <1>1, ProcessAssumption DEF CreateCheck
<1>2. ASSUME NEW s \in Share, CreateInsert(s) PROVE EraseSparesKnownLinks'
  <2>1. SUFFICES ASSUME NEW q \in Eraser, pc'[q] \in {"find", "delete"},
                        NEW t \in Covering(target[q])', Usable(t)'
                 PROVE  t \in unseen'[q]
    OBVIOUS
  <2>2. /\ pc[q] = pc'[q] /\ target' = target /\ now' = now
        /\ revoked' = revoked /\ consumed' = consumed /\ terms' = terms
    BY <1>2, <2>1, ProcessAssumption DEF CreateInsert
  <2>3. CASE pc'[s] = "aborted"
    BY <1>2, <2>1, <2>2, <2>3, ProcessAssumption DEF CreateInsert
  <2>4. CASE unseen' = [r \in Eraser |-> unseen[r] \cup {s}] /\ links' = links \cup {s}
             /\ entries' = entries \cup ({s} \X terms[s].files)
    <3>1. CASE t = s
      BY <2>1, <2>4, <3>1
    <3>2. CASE t # s
      <4>1. <<t, target[q]>> \in entries /\ Usable(t)
        BY <2>1, <2>2, <2>4, <3>2
      <4>2. QED
        BY <2>1, <2>2, <2>4, <4>1
    <3>3. QED
      BY <3>1, <3>2
  <2>5. QED
    BY <1>2, <2>3, <2>4, ProcessAssumption DEF CreateInsert
<1>3. ASSUME NEW s \in Share, Revoke(s) PROVE EraseSparesKnownLinks'
  BY <1>3, ProcessAssumption DEF Revoke
<1>4. ASSUME NEW r \in Remover, RemoveRow(r) PROVE EraseSparesKnownLinks'
  BY <1>4, ProcessAssumption DEF RemoveRow
<1>5. ASSUME NEW r \in Remover, RemoveContent(r) PROVE EraseSparesKnownLinks'
  BY <1>5, ProcessAssumption DEF RemoveContent
<1>6. ASSUME NEW d \in Download, Authorize(d) PROVE EraseSparesKnownLinks'
  BY <1>6, ProcessAssumption DEF Authorize
<1>7. ASSUME NEW d \in Download, CheckContent(d) PROVE EraseSparesKnownLinks'
  BY <1>7, ProcessAssumption DEF CheckContent
<1>8. ASSUME NEW d \in Download, Claim(d) PROVE EraseSparesKnownLinks'
  BY <1>8, ProcessAssumption DEF Claim
<1>9. ASSUME NEW d \in Download, OpenRead(d) PROVE EraseSparesKnownLinks'
  BY <1>9, ProcessAssumption DEF OpenRead
<1>10. ASSUME NEW d \in Download, Transmit(d) PROVE EraseSparesKnownLinks'
  BY <1>10, ProcessAssumption DEF Transmit
<1>11. ASSUME NEW d \in Download, Break(d) PROVE EraseSparesKnownLinks'
  BY <1>11, ProcessAssumption DEF Break
<1>12. ASSUME NEW d \in Download, Release(d) PROVE EraseSparesKnownLinks'
  BY <1>12, ProcessAssumption DEF Release
<1>13. ASSUME NEW d \in Download, CountUnclaimed(d) PROVE EraseSparesKnownLinks'
  BY <1>13, ProcessAssumption DEF CountUnclaimed
<1>14. ASSUME NEW d \in Download, ListCovered(d) PROVE EraseSparesKnownLinks'
  BY <1>14, ProcessAssumption DEF ListCovered
<1>15. ASSUME NEW d \in Download, Consume(d) PROVE EraseSparesKnownLinks'
  BY <1>15, ProcessAssumption DEF Consume
<1>16. ASSUME NEW p \in Eraser, EraseCount(p) PROVE EraseSparesKnownLinks'
  <2>1. PICK f \in todo[p] :
          /\ target' = [target EXCEPT ![p] = f]
          /\ IF \E s \in Covering(f) : Usable(s)
             THEN UNCHANGED <<pc, unseen>>
             ELSE Goto(p, "find") /\ unseen' = [unseen EXCEPT ![p] = {}]
    BY <1>16 DEF EraseCount
  <2>2. pc[p] = "loop" /\ UNCHANGED <<db, now>>
    BY <1>16 DEF EraseCount
  <2>3. CASE \E s \in Covering(f) : Usable(s)
    BY <2>1, <2>2, <2>3
  <2>4. CASE ~ \E s \in Covering(f) : Usable(s)
    BY <2>1, <2>2, <2>4
  <2>5. QED
    BY <2>3, <2>4
<1>17. ASSUME NEW p \in Eraser, EraseFind(p) PROVE EraseSparesKnownLinks'
  BY <1>17, ProcessAssumption DEF EraseFind
<1>18. ASSUME NEW p \in Eraser, EraseDelete(p) PROVE EraseSparesKnownLinks'
  BY <1>18, ProcessAssumption DEF EraseDelete
<1>19. ASSUME NEW p \in Eraser, EraseContent(p) PROVE EraseSparesKnownLinks'
  BY <1>19, ProcessAssumption DEF EraseContent
<1>20. ASSUME NEW p \in Eraser, EraseEnd(p) PROVE EraseSparesKnownLinks'
  BY <1>20, ProcessAssumption DEF EraseEnd
<1>21. ASSUME NEW p \in Purge, PurgeStart(p) PROVE EraseSparesKnownLinks'
  BY <1>21, ProcessAssumption DEF PurgeStart
<1>22. ASSUME NEW p \in Purge, PurgeScan(p) PROVE EraseSparesKnownLinks'
  BY <1>22, ProcessAssumption DEF PurgeScan
<1>23. ASSUME NEW p \in Proc, Fault(p) PROVE EraseSparesKnownLinks'
  BY <1>23, ProcessAssumption DEF Fault
<1>24. CASE Tick
  BY <1>24, ProcessAssumption DEF Tick
<1>25. CASE UNCHANGED vars
  BY <1>25 DEF vars
<1>26. QED
  BY <1>1, <1>2, <1>3, <1>4, <1>5, <1>6, <1>7, <1>8, <1>9, <1>10, <1>11, <1>12,
     <1>13, <1>14, <1>15, <1>16, <1>17, <1>18, <1>19, <1>20, <1>21, <1>22, <1>23,
     <1>24, <1>25
  DEF Next, DownloadStep, EraseStep

(* An erasure takes no file from a link it could have counted.             *)
THEOREM KnownLinksSpared == Spec => []EraseSparesKnownLinks
<1>1. Init => EraseSparesKnownLinks
  BY DEF Init, EraseSparesKnownLinks, Proc, Eraser
<1>2. QED
  BY <1>1, KnownLinksStep, TypeCorrect, PTL DEF Spec

-----------------------------------------------------------------------------
(* PurgeSparesRecentFiles: the files a purge has picked stay old enough by *)
(* the clock it began with.                                                *)
PurgeInv ==
    \A p \in Purge :
        /\ pc[p] \in {"idle", "scan"} => todo[p] = {}
        /\ \A f \in todo[p] : OldEnough(p, f)
        /\ pc[p] \in {"find", "delete"} => OldEnough(p, target[p])

LEMMA PurgeInvStep == TypeOK /\ TypeOK' /\ PurgeInv /\ [Next]_vars => PurgeInv'
<1> SUFFICES ASSUME TypeOK, TypeOK', PurgeInv, [Next]_vars PROVE PurgeInv'
  OBVIOUS
<1> USE DEF PurgeInv, OldEnough, Covering, TypeOK, PcOK, RequestsOK, Goto, DropRow, Proc, Eraser,
      Terms
<1>1. ASSUME NEW s \in Share, CreateCheck(s) PROVE PurgeInv'
  BY <1>1, ProcessAssumption DEF CreateCheck
<1>2. ASSUME NEW s \in Share, CreateInsert(s) PROVE PurgeInv'
  BY <1>2, ProcessAssumption DEF CreateInsert
<1>3. ASSUME NEW s \in Share, Revoke(s) PROVE PurgeInv'
  BY <1>3, ProcessAssumption DEF Revoke
<1>4. ASSUME NEW r \in Remover, RemoveRow(r) PROVE PurgeInv'
  BY <1>4, ProcessAssumption DEF RemoveRow
<1>5. ASSUME NEW r \in Remover, RemoveContent(r) PROVE PurgeInv'
  BY <1>5, ProcessAssumption DEF RemoveContent
<1>6. ASSUME NEW d \in Download, Authorize(d) PROVE PurgeInv'
  BY <1>6, ProcessAssumption DEF Authorize
<1>7. ASSUME NEW d \in Download, CheckContent(d) PROVE PurgeInv'
  BY <1>7, ProcessAssumption DEF CheckContent
<1>8. ASSUME NEW d \in Download, Claim(d) PROVE PurgeInv'
  BY <1>8, ProcessAssumption DEF Claim
<1>9. ASSUME NEW d \in Download, OpenRead(d) PROVE PurgeInv'
  BY <1>9, ProcessAssumption DEF OpenRead
<1>10. ASSUME NEW d \in Download, Transmit(d) PROVE PurgeInv'
  BY <1>10, ProcessAssumption DEF Transmit
<1>11. ASSUME NEW d \in Download, Break(d) PROVE PurgeInv'
  BY <1>11, ProcessAssumption DEF Break
<1>12. ASSUME NEW d \in Download, Release(d) PROVE PurgeInv'
  BY <1>12, ProcessAssumption DEF Release
<1>13. ASSUME NEW d \in Download, CountUnclaimed(d) PROVE PurgeInv'
  BY <1>13, ProcessAssumption DEF CountUnclaimed
<1>14. ASSUME NEW d \in Download, ListCovered(d) PROVE PurgeInv'
  BY <1>14, ProcessAssumption DEF ListCovered
<1>15. ASSUME NEW d \in Download, Consume(d) PROVE PurgeInv'
  BY <1>15, ProcessAssumption DEF Consume
<1>16. ASSUME NEW p \in Eraser, EraseCount(p) PROVE PurgeInv'
  <2>1. PICK f \in todo[p] :
          /\ todo' = [todo EXCEPT ![p] = @ \ {f}]
          /\ target' = [target EXCEPT ![p] = f]
          /\ UNCHANGED pc \/ Goto(p, "find")
    BY <1>16 DEF EraseCount
  <2>2. pc[p] = "loop" /\ UNCHANGED <<db, start, unread>>
    BY <1>16 DEF EraseCount
  <2>3. CASE UNCHANGED pc
    BY <2>1, <2>2, <2>3, ProcessAssumption
  <2>4. CASE Goto(p, "find")
    BY <2>1, <2>2, <2>4, ProcessAssumption
  <2>5. QED
    BY <2>1, <2>3, <2>4
<1>17. ASSUME NEW p \in Eraser, EraseFind(p) PROVE PurgeInv'
  BY <1>17, ProcessAssumption DEF EraseFind
<1>18. ASSUME NEW p \in Eraser, EraseDelete(p) PROVE PurgeInv'
  BY <1>18, ProcessAssumption DEF EraseDelete
<1>19. ASSUME NEW p \in Eraser, EraseContent(p) PROVE PurgeInv'
  BY <1>19, ProcessAssumption DEF EraseContent
<1>20. ASSUME NEW p \in Eraser, EraseEnd(p) PROVE PurgeInv'
  BY <1>20, ProcessAssumption DEF EraseEnd
<1>21. ASSUME NEW p \in Purge, PurgeStart(p) PROVE PurgeInv'
  BY <1>21, ProcessAssumption DEF PurgeStart
<1>22. ASSUME NEW p \in Purge, PurgeScan(p) PROVE PurgeInv'
  <2>1. pc[p] = "scan" /\ todo[p] = {} /\ UNCHANGED <<db, start, target>>
    BY <1>22 DEF PurgeScan
  <2>2. CASE Goto(p, "done") /\ UNCHANGED <<todo, unread>>
    BY <2>1, <2>2, ProcessAssumption
  <2>3. ASSUME NEW batch \in SUBSET rows,
               todo' = [todo EXCEPT ![p] = {f \in batch : Inactive(f, start[p])}],
               unread' = [unread EXCEPT ![p] = {}],
               Goto(p, "loop")
        PROVE  PurgeInv'
    <3>1. \A f \in todo'[p] : OldEnough(p, f)'
      BY <2>1, <2>3 DEF Inactive
    <3>2. \A q \in Purge \ {p} : pc'[q] = pc[q] /\ todo'[q] = todo[q] /\ unread'[q] = unread[q]
      BY <2>3
    <3>3. pc'[p] = "loop"
      BY <2>3
    <3>4. QED
      BY <2>1, <3>1, <3>2, <3>3
  <2>4. QED
    BY <1>22, <2>2, <2>3, PurgeScanEffect
<1>23. ASSUME NEW p \in Proc, Fault(p) PROVE PurgeInv'
  BY <1>23, ProcessAssumption DEF Fault
<1>24. CASE Tick
  BY <1>24, ProcessAssumption DEF Tick
<1>25. CASE UNCHANGED vars
  BY <1>25 DEF vars
<1>26. QED
  BY <1>1, <1>2, <1>3, <1>4, <1>5, <1>6, <1>7, <1>8, <1>9, <1>10, <1>11, <1>12,
     <1>13, <1>14, <1>15, <1>16, <1>17, <1>18, <1>19, <1>20, <1>21, <1>22, <1>23,
     <1>24, <1>25
  DEF Next, DownloadStep, EraseStep

(* A purge erases no file used less than the retention before it began.    *)
THEOREM RecentFilesSpared == Spec => []PurgeSparesRecentFiles
<1>1. Init => PurgeInv
  BY ProcessAssumption DEF Init, PurgeInv, Proc, Eraser
<1>2. PurgeInv => PurgeSparesRecentFiles
  BY DEF PurgeInv, PurgeSparesRecentFiles
<1>3. QED
  BY <1>1, <1>2, PurgeInvStep, TypeCorrect, PTL DEF Spec

-----------------------------------------------------------------------------
(* The refinement: the requests of ShareLinks implement SingleUse.  Every  *)
(* step either leaves each slot as it is or is the step of SingleUse that  *)
(* moves one.                                                              *)

Slots == Share \X File

Received(x) == {e \in transmitted : Slot(e) = x /\ terms[x[1]].burn}

(* The invariants the mapping needs: types, and who keeps a slot.          *)
Base == TypeOK /\ ClaimInv

-----------------------------------------------------------------------------
(* SingleUse seen through the mapping.                                     *)

LEMMA AbstractSame ==
  ASSUME \A x \in Slots : SlotState(x)' = SlotState(x) /\ Received(x)' = Received(x)
  PROVE  UNCHANGED Abstract!vars
BY DEF Abstract!vars, Slots, Received

LEMMA AbstractBecome ==
  ASSUME NEW x \in Slots, NEW state, SlotState(x)' = state,
         \A y \in Slots : y # x => SlotState(y)' = SlotState(y)
  PROVE  Abstract!Become(x, state)
BY DEF Abstract!Become, Slots

LEMMA AbstractGot ==
  ASSUME \A x \in Slots : Received(x)' = Received(x)
  PROVE  UNCHANGED [x \in Share \X File |->
                      {e \in transmitted : Slot(e) = x /\ terms[x[1]].burn}]
BY DEF Slots, Received

LEMMA Initially == Init => Abstract!Init
BY DEF Init, Abstract!Init, Abstract!Cell, SlotState, Slots

-----------------------------------------------------------------------------
(* Steps that move no slot: the tables a slot is read from stay, and the   *)
(* same requests hold the same slots.                                      *)

LEMMA Unmoved ==
  ASSUME Base, UNCHANGED <<links, terms, entries, claimed, transmitted>>,
         \A d \in Download : Holding(d)' <=> Holding(d),
         \A d \in Download : Holding(d) \/ d \in transmitted => Slot(d)' = Slot(d)
  PROVE  UNCHANGED Abstract!vars
<1>1. transmitted \subseteq Download
  BY DEF Base, TypeOK
<1>2. ASSUME NEW x \in Slots PROVE SlotState(x)' = SlotState(x)
  <2>1. Sent(x[1], x[2])' <=> Sent(x[1], x[2])
    BY <1>1 DEF Sent
  <2>2. (\E d \in Download : Holding(d) /\ Slot(d) = x)'
          <=> (\E d \in Download : Holding(d) /\ Slot(d) = x)
    OBVIOUS
  <2>3. QED
    BY <2>1, <2>2 DEF SlotState
<1>3. ASSUME NEW x \in Slots PROVE Received(x)' = Received(x)
  BY <1>1 DEF Received
<1>4. QED
  BY <1>2, <1>3, AbstractSame

(* The same where no request changes its file, and one moves that neither  *)
(* held a slot nor comes to.                                               *)
LEMMA MovedElsewhere ==
  ASSUME Base, UNCHANGED <<links, terms, entries, claimed, transmitted, via, wanted>>,
         NEW p \in Proc, NEW label, Goto(p, label),
         p \in Download =>
            \/ ~Burn(p)
            \/ /\ pc[p] \notin {"open", "sending", "release"}
               /\ label \notin {"open", "sending", "release"}
            \/ /\ pc[p] \in {"open", "sending", "release"}
               /\ label \in {"open", "sending", "release"}
  PROVE  UNCHANGED Abstract!vars
<1>1. \A d \in Download : Slot(d)' = Slot(d) /\ Burn(d)' = Burn(d)
  BY DEF Slot, Burn
<1>2. \A d \in Download : Holding(d)' <=> Holding(d)
  BY <1>1 DEF Holding, Goto, Base, TypeOK, PcOK
<1>3. QED
  BY <1>1, <1>2, Unmoved

-----------------------------------------------------------------------------
(* Steps of one request on the slot it asked for.                          *)

LEMMA OthersKeep ==
  ASSUME Base, NEW d \in Download, UNCHANGED <<links, terms, entries, via, wanted>>,
         \A e \in Download : e # d => (Holding(e)' <=> Holding(e)),
         transmitted \subseteq transmitted', transmitted' \subseteq transmitted \cup {d},
         \A y \in Slots : y # Slot(d) => (y \in claimed' <=> y \in claimed)
  PROVE  \A y \in Slots : y # Slot(d) =>
            SlotState(y)' = SlotState(y) /\ Received(y)' = Received(y)
<1> SUFFICES ASSUME NEW y \in Slots, y # Slot(d)
             PROVE  SlotState(y)' = SlotState(y) /\ Received(y)' = Received(y)
  OBVIOUS
<1>1. \A e \in Download : Slot(e)' = Slot(e)
  BY DEF Slot
<1>2. transmitted' \subseteq Download /\ transmitted \subseteq Download
  BY DEF Base, TypeOK
<1>3. Sent(y[1], y[2])' <=> Sent(y[1], y[2])
  <2>1. y = <<y[1], y[2]>>
    BY DEF Slots
  <2>2. QED
    BY <1>1, <1>2, <2>1 DEF Sent
<1>4. (\E e \in Download : Holding(e) /\ Slot(e) = y)'
        <=> (\E e \in Download : Holding(e) /\ Slot(e) = y)
  BY <1>1
<1>5. Received(y)' = Received(y)
  BY <1>1, <1>2 DEF Received
<1>6. QED
  BY <1>3, <1>4, <1>5 DEF SlotState

(* What a request holds is held in SingleUse: it alone holds it, and       *)
(* nobody has received it.                                                 *)
LEMMA HoldingState ==
  ASSUME Base, NEW d \in Download, Holding(d)
  PROVE  /\ Slot(d) \in Slots /\ via[d] \in links /\ terms[via[d]].burn
         /\ SlotState(Slot(d)) = "held"
         /\ \A e \in Download : Holding(e) /\ Slot(e) = Slot(d) => e = d
         /\ \A e \in transmitted : Slot(e) # Slot(d)
         /\ Received(Slot(d)) = {}
         /\ Slot(d) \notin entries \ claimed
<1>1. /\ via[d] \in links /\ wanted[d] \in File /\ links \subseteq Share
      /\ transmitted \subseteq Download
  BY DEF Base, TypeOK, RequestsOK, Holding
<1>2. terms[via[d]].burn /\ d \notin transmitted /\ Keeps(d)
  BY DEF Base, ClaimInv, SentIsPast, Holding, Burn, Keeps
<1>3. \A e \in Download : Holding(e) /\ Slot(e) = Slot(d) => e = d
  BY <1>2 DEF Base, ClaimInv, OneKeeper, Keeps, Holding
<1>4. \A e \in transmitted : Slot(e) # Slot(d)
  <2> SUFFICES ASSUME NEW e \in transmitted, Slot(e) = Slot(d) PROVE FALSE
    OBVIOUS
  <2>1. via[e] = via[d]
    BY DEF Slot
  <2>2. Keeps(e)
    BY <1>2, <2>1 DEF Keeps, Burn
  <2>3. QED
    BY <1>1, <1>2, <2>2 DEF Base, ClaimInv, OneKeeper
<1>5. Slot(d) \notin entries \ claimed
  BY <1>2 DEF Base, ClaimInv, KeptIsMarked
<1>6. Slot(d) \in Slots /\ Slot(d)[1] = via[d] /\ Slot(d)[2] = wanted[d]
  BY <1>1 DEF Slots, Slot
<1>7. SlotState(Slot(d)) = "held"
  <2>1. ~Sent(Slot(d)[1], Slot(d)[2])
    BY <1>4, <1>6 DEF Sent, Slot
  <2>2. QED
    BY <1>1, <1>2, <1>6, <2>1 DEF SlotState
<1>8. QED
  BY <1>1, <1>2, <1>3, <1>4, <1>5, <1>6, <1>7 DEF Received

LEMMA ReleaseMoves ==
  ASSUME Base, NEW d \in Download, Release(d) PROVE [Abstract!Next]_(Abstract!vars)
<1>1. /\ UNCHANGED <<links, terms, entries, via, wanted, transmitted>>
      /\ pc[d] = "release" /\ pc' = [pc EXCEPT ![d] = "done"] /\ claimed' = claimed \ {Slot(d)}
  BY DEF Release, Goto
<1>2. \A e \in Download : /\ Slot(e)' = Slot(e) /\ Burn(e)' = Burn(e)
                          /\ e # d => (Holding(e)' <=> Holding(e))
  <2>1. \A e \in Download : Slot(e)' = Slot(e) /\ Burn(e)' = Burn(e)
    BY <1>1 DEF Slot, Burn
  <2>2. \A e \in Download : e # d => pc'[e] = pc[e]
    BY <1>1 DEF Base, TypeOK, PcOK, Proc, Eraser
  <2>3. QED
    BY <2>1, <2>2 DEF Holding
<1>3. \A y \in Slots : y # Slot(d) => SlotState(y)' = SlotState(y) /\ Received(y)' = Received(y)
  BY <1>1, <1>2, OthersKeep
<1>4. CASE Burn(d)
  <2>1. Holding(d) /\ ~Holding(d)'
    BY <1>1, <1>4 DEF Holding, Base, TypeOK, PcOK, Proc, Eraser
  <2>2. SlotState(Slot(d))' \in {"free", "gone"} /\ Received(Slot(d))' = Received(Slot(d))
    <3>1. ~ \E e \in Download : Holding(e)' /\ Slot(e)' = Slot(d)'
      BY <1>2, <2>1, HoldingState
    <3>2. ~Sent(Slot(d)[1], Slot(d)[2])'
      BY <1>1, <2>1, HoldingState DEF Sent, Slot
    <3>3. Slot(d)[1] = via[d]
      BY DEF Slot
    <3>4. QED
      BY <1>1, <1>2, <2>1, <3>1, <3>2, <3>3, HoldingState DEF SlotState, Received, Slot
  <2>3. Abstract!GiveBack(Slot(d))
    <3>1. SlotState(Slot(d)) = "held" /\ Slot(d) \in Slots
      BY <2>1, HoldingState
    <3>2. Abstract!Become(Slot(d), SlotState(Slot(d))')
      BY <1>2, <1>3, <3>1, AbstractBecome
    <3>3. \A x \in Slots : Received(x)' = Received(x)
      BY <1>2, <1>3, <2>2
    <3>4. QED
      BY <2>2, <3>1, <3>2, <3>3, AbstractGot DEF Abstract!GiveBack, Slots
  <2>4. QED
    BY <2>1, <2>3, HoldingState DEF Abstract!Next, Abstract!Cell, Slots
<1>5. CASE ~Burn(d)
  <2>1. ~Holding(d) /\ ~Holding(d)'
    BY <1>2, <1>5 DEF Holding
  <2>2. ASSUME Slot(d) \in Slots
        PROVE  SlotState(Slot(d))' = SlotState(Slot(d)) /\ Received(Slot(d))' = Received(Slot(d))
    <3>1. Slot(d)[1] = via[d]
      BY DEF Slot
    <3>2. QED
      BY <1>1, <1>2, <1>5, <3>1 DEF SlotState, Received, Burn
  <2>3. QED
    BY <1>2, <1>3, <2>2, AbstractSame
<1>6. QED
  BY <1>4, <1>5

LEMMA TransmitMoves ==
  ASSUME Base, NEW d \in Download, Transmit(d) PROVE [Abstract!Next]_(Abstract!vars)
<1>1. /\ UNCHANGED <<links, terms, entries, claimed, via, wanted>>
      /\ pc[d] = "sending" /\ transmitted' = transmitted \cup {d}
      /\ pc' = [pc EXCEPT ![d] = IF Burn(d) THEN "count" ELSE "done"]
  BY DEF Transmit, Goto
<1>2. \A e \in Download : /\ Slot(e)' = Slot(e) /\ Burn(e)' = Burn(e)
                          /\ e # d => (Holding(e)' <=> Holding(e))
  <2>1. \A e \in Download : Slot(e)' = Slot(e) /\ Burn(e)' = Burn(e)
    BY <1>1 DEF Slot, Burn
  <2>2. \A e \in Download : e # d => pc'[e] = pc[e]
    BY <1>1 DEF Base, TypeOK, PcOK, Proc, Eraser
  <2>3. QED
    BY <2>1, <2>2 DEF Holding
<1>3. \A y \in Slots : y # Slot(d) => SlotState(y)' = SlotState(y) /\ Received(y)' = Received(y)
  BY <1>1, <1>2, OthersKeep
<1>4. CASE Burn(d)
  <2>1. Holding(d)
    BY <1>1, <1>4 DEF Holding
  <2>2. Slot(d)[1] = via[d] /\ Slot(d)[2] = wanted[d] /\ Slot(d) = <<via[d], wanted[d]>>
    BY DEF Slot
  <2>3. SlotState(Slot(d))' = "sent"
    <3>1. Sent(Slot(d)[1], Slot(d)[2])'
      BY <1>1, <1>2, <2>2 DEF Sent
    <3>2. QED
      BY <1>1, <1>2, <2>1, <2>2, <3>1, HoldingState DEF SlotState
  <2>4. Received(Slot(d))' = {d}
    BY <1>1, <1>2, <2>1, <2>2, HoldingState DEF Received, Base, TypeOK
  <2>5. Abstract!Deliver(Slot(d), d)
    <3>1. SlotState(Slot(d)) = "held" /\ Slot(d) \in Slots
      BY <2>1, HoldingState
    <3>2. Abstract!Become(Slot(d), "sent")
      BY <1>2, <1>3, <2>3, <3>1, AbstractBecome
    <3>3. \A y \in Slots : Received(y)' = IF y = Slot(d) THEN {d} ELSE Received(y)
      BY <1>2, <1>3, <2>4
    <3>4. Abstract!Receive(Slot(d), d)
      BY <3>1, <3>3 DEF Abstract!Receive, Slots, Received
    <3>5. QED
      BY <3>1, <3>2, <3>4 DEF Abstract!Deliver, Slots
  <2>6. QED
    <3>1. Slot(d) \in Abstract!Cell
      BY <2>1, HoldingState DEF Abstract!Cell, Slots
    <3>2. QED
      BY <2>5, <3>1 DEF Abstract!Next
<1>5. CASE ~Burn(d)
  <2>1. ~Holding(d) /\ ~Holding(d)'
    BY <1>2, <1>5 DEF Holding
  <2>2. ASSUME Slot(d) \in Slots
        PROVE  SlotState(Slot(d))' = SlotState(Slot(d)) /\ Received(Slot(d))' = Received(Slot(d))
    <3>1. Slot(d)[1] = via[d]
      BY DEF Slot
    <3>2. QED
      BY <1>1, <1>2, <1>5, <3>1 DEF SlotState, Received, Burn
  <2>3. QED
    BY <1>2, <1>3, <2>2, AbstractSame
<1>6. QED
  BY <1>4, <1>5

(* An unconditional end: the slot a request held stays marked, or has gone *)
(* with its file.                                                          *)
LEMMA FaultMoves ==
  ASSUME Base, NEW d \in Download, Fault(d) PROVE [Abstract!Next]_(Abstract!vars)
<1>1. /\ UNCHANGED <<links, terms, entries, claimed, via, wanted, transmitted>>
      /\ pc' = [pc EXCEPT ![d] = "aborted"]
  BY DEF Fault, Goto
<1>2. \A e \in Download : /\ Slot(e)' = Slot(e) /\ Burn(e)' = Burn(e)
                          /\ e # d => (Holding(e)' <=> Holding(e))
  <2>1. \A e \in Download : Slot(e)' = Slot(e) /\ Burn(e)' = Burn(e)
    BY <1>1 DEF Slot, Burn
  <2>2. \A e \in Download : e # d => pc'[e] = pc[e]
    BY <1>1 DEF Base, TypeOK, PcOK, Proc, Eraser
  <2>3. QED
    BY <2>1, <2>2 DEF Holding
<1>3. \A y \in Slots : y # Slot(d) => SlotState(y)' = SlotState(y) /\ Received(y)' = Received(y)
  BY <1>1, <1>2, OthersKeep
<1>4. CASE Holding(d)
  <2>1. ~Holding(d)'
    BY <1>1 DEF Holding, Base, TypeOK, PcOK, Proc, Eraser
  <2>2. Slot(d)[1] = via[d] /\ Slot(d)[2] = wanted[d] /\ Slot(d) = <<via[d], wanted[d]>>
    BY DEF Slot
  <2>3. SlotState(Slot(d))' \in {"lost", "gone"}
    <3>1. ~ \E e \in Download : Holding(e)' /\ Slot(e)' = Slot(d)'
      BY <1>2, <1>4, <2>1, HoldingState
    <3>2. ~Sent(Slot(d)[1], Slot(d)[2])'
      BY <1>1, <1>4, HoldingState DEF Sent, Slot
    <3>3. QED
      BY <1>1, <1>2, <1>4, <2>2, <3>1, <3>2, HoldingState DEF SlotState
  <2>4. Received(Slot(d))' = Received(Slot(d))
    BY <1>1, <1>2, <2>2 DEF Received, Base, TypeOK
  <2>5. Abstract!Vanish(Slot(d))
    <3>1. SlotState(Slot(d)) = "held" /\ Slot(d) \in Slots
      BY <1>4, HoldingState
    <3>2. Abstract!Become(Slot(d), SlotState(Slot(d))')
      BY <1>2, <1>3, <3>1, AbstractBecome
    <3>3. \A x \in Slots : Received(x)' = Received(x)
      BY <1>2, <1>3, <2>4
    <3>4. QED
      BY <2>3, <3>1, <3>2, <3>3, AbstractGot DEF Abstract!Vanish, Slots
  <2>6. QED
    BY <1>4, <2>5, HoldingState DEF Abstract!Next, Abstract!Cell, Slots
<1>5. CASE ~Holding(d)
  <2>1. ~Holding(d)'
    BY <1>1 DEF Holding, Base, TypeOK, PcOK, Proc, Eraser
  <2>2. QED
    BY <1>1, <1>2, <1>5, <2>1, Unmoved
<1>6. QED
  BY <1>4, <1>5

(* A claim that finds the slot unmarked reserves it.                       *)
LEMMA ClaimMoves ==
  ASSUME Base, NEW d \in Download, Claim(d), Slot(d) \in entries \ claimed
  PROVE  [Abstract!Next]_(Abstract!vars)
<1>1. /\ UNCHANGED <<links, terms, entries, via, wanted, transmitted>>
      /\ pc[d] = "claim" /\ claimed' = claimed \cup {Slot(d)}
      /\ pc' = [pc EXCEPT ![d] = "open"]
  BY DEF Claim, Goto
<1>2. \A e \in Download : /\ Slot(e)' = Slot(e) /\ Burn(e)' = Burn(e)
                          /\ e # d => (Holding(e)' <=> Holding(e))
  <2>1. \A e \in Download : Slot(e)' = Slot(e) /\ Burn(e)' = Burn(e)
    BY <1>1 DEF Slot, Burn
  <2>2. \A e \in Download : e # d => pc'[e] = pc[e]
    BY <1>1 DEF Base, TypeOK, PcOK, Proc, Eraser
  <2>3. QED
    BY <2>1, <2>2 DEF Holding
<1>3. \A y \in Slots : y # Slot(d) => SlotState(y)' = SlotState(y) /\ Received(y)' = Received(y)
  BY <1>1, <1>2, OthersKeep
<1>4. CASE Burn(d)
  <2>1. Slot(d)[1] = via[d] /\ Slot(d)[2] = wanted[d] /\ Slot(d) = <<via[d], wanted[d]>>
    BY DEF Slot
  <2>2. via[d] \in links /\ terms[via[d]].burn /\ Slot(d) \in Slots
    BY <1>1, <1>4, <2>1 DEF Base, TypeOK, RequestsOK, Burn, Slots
  <2>3. ~ \E e \in Download : Holding(e) /\ Slot(e) = Slot(d)
    BY HoldingState
  <2>4. \A e \in transmitted : Slot(e) # Slot(d)
    <3> SUFFICES ASSUME NEW e \in transmitted, Slot(e) = Slot(d) PROVE FALSE
      OBVIOUS
    <3>1. e \in Download /\ via[e] = via[d]
      BY <2>1 DEF Slot, Base, TypeOK
    <3>2. Keeps(e)
      BY <2>2, <3>1 DEF Keeps, Burn
    <3>3. QED
      BY <3>1, <3>2 DEF Base, ClaimInv, KeptIsMarked
  <2>5. ~Sent(Slot(d)[1], Slot(d)[2]) /\ ~Sent(Slot(d)[1], Slot(d)[2])'
    BY <1>1, <2>1, <2>4 DEF Sent, Slot
  <2>6. SlotState(Slot(d)) = "free"
    BY <2>1, <2>2, <2>3, <2>5 DEF SlotState
  <2>7. SlotState(Slot(d))' = "held"
    <3>1. Holding(d)'
      BY <1>1, <1>2, <1>4 DEF Holding, Base, TypeOK, PcOK, Proc, Eraser
    <3>2. QED
      BY <1>1, <1>2, <2>1, <2>2, <2>5, <3>1 DEF SlotState
  <2>8. Received(Slot(d))' = Received(Slot(d))
    BY <1>1, <1>2, <2>1 DEF Received, Base, TypeOK
  <2>9. Abstract!Reserve(Slot(d))
    <3>1. Abstract!Become(Slot(d), "held")
      BY <1>2, <1>3, <2>2, <2>7, AbstractBecome
    <3>2. \A x \in Slots : Received(x)' = Received(x)
      BY <1>2, <1>3, <2>8
    <3>3. QED
      BY <2>2, <2>6, <3>1, <3>2, AbstractGot DEF Abstract!Reserve, Slots
  <2>10. QED
    BY <2>2, <2>9 DEF Abstract!Next, Abstract!Cell, Slots
<1>5. CASE ~Burn(d)
  <2>1. ~Holding(d) /\ ~Holding(d)'
    BY <1>2, <1>5 DEF Holding
  <2>2. ASSUME Slot(d) \in Slots
        PROVE  SlotState(Slot(d))' = SlotState(Slot(d)) /\ Received(Slot(d))' = Received(Slot(d))
    <3>1. Slot(d)[1] = via[d]
      BY DEF Slot
    <3>2. QED
      BY <1>1, <1>2, <1>5, <3>1 DEF SlotState, Received, Burn
  <2>3. QED
    BY <1>2, <1>3, <2>2, AbstractSame
<1>6. QED
  BY <1>4, <1>5

-----------------------------------------------------------------------------
(* Steps on the tables.                                                    *)

(* A deletion takes away every slot of the file that nobody holds or has   *)
(* received.                                                               *)
LEMMA DropMoves ==
  ASSUME Base, NEW f \in File, DropRow(f), UNCHANGED <<via, wanted, transmitted>>,
         \A d \in Download : Holding(d)' <=> Holding(d)
  PROVE  [Abstract!Next]_(Abstract!vars)
<1>1. /\ UNCHANGED <<links, terms>> /\ transmitted \subseteq Download
      /\ entries' = {e \in entries : e[2] # f} /\ claimed' = {e \in claimed : e[2] # f}
      /\ claimed \subseteq entries
  BY DEF DropRow, Base, TypeOK
<1>2. \A d \in Download : Slot(d)' = Slot(d)
  BY DEF Slot
<1>3. ASSUME NEW x \in Slots
      PROVE  /\ SlotState(x)' = IF x[2] = f /\ SlotState(x) \in {"free", "lost"}
                                THEN "gone" ELSE SlotState(x)
             /\ Received(x)' = Received(x)
  <2>1. Sent(x[1], x[2])' <=> Sent(x[1], x[2])
    BY <1>1, <1>2 DEF Sent
  <2>2. (\E d \in Download : Holding(d) /\ Slot(d) = x)'
          <=> (\E d \in Download : Holding(d) /\ Slot(d) = x)
    BY <1>2
  <2>3. Received(x)' = Received(x)
    BY <1>1, <1>2 DEF Received
  <2>4. QED
    BY <1>1, <2>1, <2>2, <2>3 DEF SlotState
<1>4. Abstract!Erase(f)
  <2>1. \A x \in Slots : Received(x)' = Received(x)
    BY <1>3
  <2>2. QED
    BY <1>3, <2>1, AbstractGot DEF Abstract!Erase, Abstract!Cell, Slots
<1>5. QED
  BY <1>4 DEF Abstract!Next

(* A request that checks its files has no link in the table yet.           *)
LEMMA CreateCheckMoves ==
  ASSUME Base, NEW s \in Share, CreateCheck(s) PROVE UNCHANGED Abstract!vars
<1>1. /\ UNCHANGED <<links, entries, claimed, transmitted, via, wanted>>
      /\ s \notin links /\ \A t \in Share : t # s => terms'[t] = terms[t]
      /\ \A d \in Download : pc'[d] = pc[d]
  BY ProcessAssumption DEF CreateCheck, Goto, Base, TypeOK, PcOK, RequestsOK, Proc, Eraser
<1>2. /\ transmitted \subseteq Download
      /\ \A d \in Download : pc[d] # "idle" => via[d] \in links /\ via[d] \in Share
  BY DEF Base, TypeOK, RequestsOK
<1>3. \A d \in Download : Slot(d)' = Slot(d) /\ (Holding(d)' <=> Holding(d))
  BY <1>1, <1>2 DEF Slot, Holding, Burn
<1>4. ASSUME NEW x \in Slots PROVE SlotState(x)' = SlotState(x) /\ Received(x)' = Received(x)
  <2>1. x[1] \in Share
    BY DEF Slots
  <2>2. Sent(x[1], x[2])' <=> Sent(x[1], x[2])
    BY <1>1, <1>2, <1>3 DEF Sent
  <2>3. (\E d \in Download : Holding(d) /\ Slot(d) = x)'
          <=> (\E d \in Download : Holding(d) /\ Slot(d) = x)
    BY <1>3
  <2>4. \A d \in transmitted : Slot(d) = x => x[1] \in links
    BY <1>2 DEF Slot, Base, ClaimInv, SentIsPast
  <2>5. Received(x)' = Received(x)
    BY <1>1, <1>2, <1>3, <2>1, <2>4 DEF Received
  <2>6. QED
    BY <1>1, <2>1, <2>2, <2>3, <2>5 DEF SlotState
<1>5. QED
  BY <1>4, AbstractSame

(* A link that is inserted offers its files, if it is for single use.      *)
LEMMA CreateInsertMoves ==
  ASSUME Base, NEW s \in Share, CreateInsert(s) PROVE [Abstract!Next]_(Abstract!vars)
<1>1. /\ UNCHANGED <<terms, claimed, transmitted, via, wanted>>
      /\ s \notin links /\ transmitted \subseteq Download
      /\ \A d \in Download : pc'[d] = pc[d]
  BY ProcessAssumption DEF CreateInsert, Goto, Base, TypeOK, PcOK, RequestsOK, Proc, Eraser
<1>2. \A d \in Download : Slot(d)' = Slot(d) /\ (Holding(d)' <=> Holding(d))
  BY <1>1 DEF Slot, Holding, Burn
<1>3. CASE UNCHANGED <<links, entries>>
  BY <1>1, <1>2, <1>3, Unmoved
<1>4. CASE links' = links \cup {s} /\ entries' = entries \cup ({s} \X terms[s].files)
  <2>1. ASSUME NEW x \in Slots
        PROVE  /\ Sent(x[1], x[2])' <=> Sent(x[1], x[2])
               /\ (\E d \in Download : Holding(d) /\ Slot(d) = x)'
                    <=> (\E d \in Download : Holding(d) /\ Slot(d) = x)
               /\ Received(x)' = Received(x)
    <3>1. Sent(x[1], x[2])' <=> Sent(x[1], x[2])
      BY <1>1, <1>2 DEF Sent
    <3>2. (\E d \in Download : Holding(d) /\ Slot(d) = x)'
            <=> (\E d \in Download : Holding(d) /\ Slot(d) = x)
      BY <1>2
    <3>3. Received(x)' = Received(x)
      BY <1>1, <1>2 DEF Received
    <3>4. QED
      BY <3>1, <3>2, <3>3
  <2>2. ASSUME NEW x \in Slots, x[1] # s \/ ~terms[s].burn PROVE SlotState(x)' = SlotState(x)
    <3>1. x \in entries' <=> x \in entries \/ (x[1] = s /\ x[2] \in terms[s].files)
      BY <1>4 DEF Slots
    <3>2. QED
      BY <1>1, <1>4, <2>1, <2>2, <3>1 DEF SlotState
  <2>3. CASE ~terms[s].burn
    BY <2>1, <2>2, <2>3, AbstractSame
  <2>4. CASE terms[s].burn
    <3>1. ASSUME NEW x \in Slots, x[1] = s
          PROVE  /\ SlotState(x) = "none"
                 /\ SlotState(x)' = IF x[2] \in terms[s].files THEN "free" ELSE "gone"
      <4>1. x = <<x[1], x[2]>> /\ x \notin entries /\ x \notin claimed
        BY <1>1, <3>1 DEF Slots, Base, TypeOK
      <4>2. x \in entries' <=> x[2] \in terms[s].files
        BY <1>4, <3>1, <4>1
      <4>3. \A d \in Download : pc[d] # "idle" => Slot(d) # x
        BY <1>1, <3>1 DEF Slot, Base, TypeOK, RequestsOK
      <4>4. ~Sent(x[1], x[2])
        BY <1>1, <4>1, <4>3 DEF Sent, Base, ClaimInv, SentIsPast
      <4>5. ~ \E d \in Download : Holding(d) /\ Slot(d) = x
        BY <4>3 DEF Holding
      <4>6. QED
        BY <1>1, <1>4, <2>1, <2>4, <3>1, <4>1, <4>2, <4>4, <4>5 DEF SlotState
    <3>2. Abstract!Offer(s)
      <4>1. \A f \in File : SlotState(<<s, f>>) = "none"
        BY <3>1 DEF Slots
      <4>2. \A x \in Slots : Received(x)' = Received(x)
        BY <2>1
      <4>3. terms[s].files \in SUBSET File
        BY DEF Base, TypeOK, Terms
      <4>4. \A x \in Slots : SlotState(x)' =
              IF x[1] # s THEN SlotState(x) ELSE IF x[2] \in terms[s].files THEN "free" ELSE "gone"
        BY <2>2, <3>1
      <4>5. QED
        BY <4>1, <4>2, <4>3, <4>4, AbstractGot DEF Abstract!Offer, Abstract!Cell, Slots
    <3>3. QED
      BY <3>2 DEF Abstract!Next
  <2>5. QED
    BY <2>3, <2>4
<1>5. QED
  BY <1>3, <1>4 DEF CreateInsert

(* A deletion leaves the requests where they hold what they held.          *)
LEMMA RemoveRowMoves ==
  ASSUME Base, NEW r \in Remover, RemoveRow(r) PROVE [Abstract!Next]_(Abstract!vars)
<1>1. PICK f \in rows : DropRow(f)
  BY DEF RemoveRow
<1>2. /\ UNCHANGED <<via, wanted, transmitted, terms>> /\ f \in File
      /\ \A d \in Download : pc'[d] = pc[d]
  BY ProcessAssumption, <1>1 DEF RemoveRow, DropRow, Goto, Base, TypeOK, PcOK
<1>3. \A d \in Download : Holding(d)' <=> Holding(d)
  BY <1>2 DEF Holding, Burn
<1>4. QED
  BY <1>1, <1>2, <1>3, DropMoves

LEMMA EraseDeleteMoves ==
  ASSUME Base, NEW p \in Eraser, EraseDelete(p) PROVE [Abstract!Next]_(Abstract!vars)
<1>1. CASE target[p] \in rows
  <2>1. /\ DropRow(target[p]) /\ UNCHANGED <<via, wanted, transmitted, terms>>
        /\ target[p] \in File /\ pc[p] = "delete" /\ pc' = [pc EXCEPT ![p] = "unlink"]
    BY <1>1 DEF EraseDelete, DropRow, Goto, Base, TypeOK
  <2>2. \A d \in Download : Holding(d)' <=> Holding(d)
    BY <2>1 DEF Holding, Burn, Base, TypeOK, PcOK
  <2>3. QED
    BY <2>1, <2>2, DropMoves
<1>2. CASE target[p] \notin rows
  <2>1. /\ UNCHANGED <<links, terms, entries, claimed, transmitted, via, wanted>>
        /\ pc[p] = "delete" /\ Goto(p, "aborted") /\ p \in Proc
    BY <1>2 DEF EraseDelete, Proc
  <2>2. QED
    BY <2>1, MovedElsewhere
<1>3. QED
  BY <1>1, <1>2

(* Only an idle request learns its link and file.                          *)
LEMMA AuthorizeMoves ==
  ASSUME Base, NEW d \in Download, Authorize(d) PROVE UNCHANGED Abstract!vars
<1>1. /\ UNCHANGED <<links, terms, entries, claimed, transmitted>> /\ pc[d] = "idle"
      /\ pc' = [pc EXCEPT ![d] = "authorized"]
      /\ \A e \in Download : e # d => via'[e] = via[e] /\ wanted'[e] = wanted[e]
  BY DEF Authorize, Goto, Base, TypeOK
<1>2. \A e \in Download : e # d => pc'[e] = pc[e]
  BY <1>1 DEF Base, TypeOK, PcOK, Proc, Eraser
<1>3. pc'[d] = "authorized"
  BY <1>1 DEF Base, TypeOK, PcOK, Proc, Eraser
<1>4. \A e \in Download : Holding(e)' <=> Holding(e)
  BY <1>1, <1>2, <1>3 DEF Holding, Burn
<1>5. \A e \in Download : Holding(e) \/ e \in transmitted => Slot(e)' = Slot(e)
  BY <1>1 DEF Slot, Holding, Base, ClaimInv, SentIsPast
<1>6. QED
  BY <1>1, <1>4, <1>5, Unmoved

-----------------------------------------------------------------------------
LEMMA Step == Base /\ [Next]_vars => [Abstract!Next]_(Abstract!vars)
<1> SUFFICES ASSUME Base, [Next]_vars PROVE [Abstract!Next]_(Abstract!vars)
  OBVIOUS
<1> DEFINE Still == UNCHANGED <<links, terms, entries, claimed, transmitted, via, wanted>>
           Stutter == UNCHANGED Abstract!vars
<1>0. ASSUME Still, UNCHANGED pc PROVE Stutter
  <2>1. \A d \in Download : Slot(d)' = Slot(d) /\ (Holding(d)' <=> Holding(d))
    BY <1>0 DEF Slot, Holding, Burn
  <2>2. QED
    BY <1>0, <2>1, Unmoved
<1>1. ASSUME NEW s \in Share, Revoke(s) PROVE Stutter
  BY <1>1, <1>0 DEF Revoke
<1>2. ASSUME NEW r \in Remover, RemoveContent(r) PROVE Stutter
  <2>1. Still /\ Goto(r, "done") /\ r \in Proc /\ r \notin Download
    BY <1>2, ProcessAssumption DEF RemoveContent, Proc
  <2>2. QED
    BY <2>1, MovedElsewhere
<1>3. ASSUME NEW d \in Download, CheckContent(d) PROVE Stutter
  <2>1. Still /\ d \in Proc /\ pc[d] = "authorized"
    BY <1>3 DEF CheckContent, Proc, Eraser
  <2>2. CASE Burn(d)
    <3>1. Goto(d, "done") \/ Goto(d, "claim")
      BY <1>3, <2>2 DEF CheckContent
    <3>2. QED
      BY <2>1, <3>1, MovedElsewhere
  <2>3. CASE ~Burn(d)
    <3>1. \E label : Goto(d, label)
      BY <1>3 DEF CheckContent
    <3>2. QED
      BY <2>1, <2>3, <3>1, MovedElsewhere
  <2>4. QED
    BY <2>2, <2>3
<1>4. ASSUME NEW d \in Download, Claim(d) PROVE [Abstract!Next]_(Abstract!vars)
  <2>1. CASE Slot(d) \in entries \ claimed
    BY <1>4, <2>1, ClaimMoves
  <2>2. CASE Slot(d) \notin entries \ claimed
    <3>1. Still /\ d \in Proc /\ pc[d] = "claim" /\ Goto(d, "done")
      BY <1>4, <2>2 DEF Claim, Proc, Eraser
    <3>2. QED
      BY <3>1, MovedElsewhere
  <2>3. QED
    BY <2>1, <2>2
<1>5. ASSUME NEW d \in Download, OpenRead(d) PROVE Stutter
  <2>1. Still /\ d \in Proc /\ pc[d] = "open"
    BY <1>5 DEF OpenRead, Proc, Eraser
  <2>2. CASE Burn(d)
    <3>1. Goto(d, "sending") \/ Goto(d, "release")
      BY <1>5, <2>2 DEF OpenRead
    <3>2. QED
      BY <2>1, <3>1, MovedElsewhere
  <2>3. CASE ~Burn(d)
    <3>1. \E label : Goto(d, label)
      BY <1>5 DEF OpenRead
    <3>2. QED
      BY <2>1, <2>3, <3>1, MovedElsewhere
  <2>4. QED
    BY <2>2, <2>3
<1>6. ASSUME NEW d \in Download, Break(d) PROVE Stutter
  <2>1. Still /\ d \in Proc /\ pc[d] \in {"open", "sending"}
    BY <1>6 DEF Break, Proc, Eraser
  <2>2. CASE Burn(d)
    <3>1. Goto(d, "release")
      BY <1>6, <2>2 DEF Break
    <3>2. QED
      BY <2>1, <3>1, MovedElsewhere
  <2>3. CASE ~Burn(d)
    <3>1. \E label : Goto(d, label)
      BY <1>6 DEF Break
    <3>2. QED
      BY <2>1, <2>3, <3>1, MovedElsewhere
  <2>4. QED
    BY <2>2, <2>3
<1>7. ASSUME NEW d \in Download, CountUnclaimed(d) \/ ListCovered(d) \/ Consume(d) PROVE Stutter
  <2>1. Still /\ d \in Proc /\ pc[d] \in {"count", "list", "consume"}
        /\ \/ Goto(d, "done") \/ Goto(d, "list") \/ Goto(d, "consume") \/ Goto(d, "loop")
    BY <1>7 DEF CountUnclaimed, ListCovered, Consume, Proc, Eraser
  <2>2. QED
    BY <2>1, MovedElsewhere
<1>8. ASSUME NEW p \in Eraser, EraseCount(p) PROVE Stutter
  <2>1. Still /\ p \in Proc /\ pc[p] = "loop" /\ (UNCHANGED pc \/ Goto(p, "find"))
    BY <1>8 DEF EraseCount, Proc
  <2>2. QED
    BY <2>1, <1>0, MovedElsewhere
<1>9. ASSUME NEW p \in Eraser, EraseFind(p) \/ EraseContent(p) \/ EraseEnd(p) PROVE Stutter
  <2>1. Still /\ p \in Proc /\ pc[p] \in {"find", "unlink", "loop"}
        /\ \/ Goto(p, "delete") \/ Goto(p, "loop") \/ Goto(p, "scan") \/ Goto(p, "done")
    BY <1>9 DEF EraseFind, EraseContent, EraseEnd, Proc
  <2>2. QED
    BY <2>1, MovedElsewhere
<1>10. ASSUME NEW p \in Purge, PurgeStart(p) \/ PurgeScan(p) PROVE Stutter
  <2>1. Still /\ p \in Proc /\ p \notin Download
        /\ \/ Goto(p, "scan") \/ Goto(p, "done") \/ Goto(p, "loop")
    BY <1>10, ProcessAssumption DEF PurgeStart, PurgeScan, Proc, Eraser
  <2>2. QED
    BY <2>1, MovedElsewhere
<1>11. ASSUME NEW p \in Proc, Fault(p) PROVE [Abstract!Next]_(Abstract!vars)
  <2>1. CASE p \in Download
    BY <1>11, <2>1, FaultMoves
  <2>2. CASE p \notin Download
    <3>1. Still /\ Goto(p, "aborted")
      BY <1>11 DEF Fault
    <3>2. QED
      BY <2>2, <3>1, MovedElsewhere
  <2>3. QED
    BY <2>1, <2>2
<1>12. CASE Tick
  BY <1>12, <1>0 DEF Tick
<1>13. CASE UNCHANGED vars
  BY <1>13, <1>0 DEF vars
<1>14. QED
  BY <1>1, <1>2, <1>3, <1>4, <1>5, <1>6, <1>7, <1>8, <1>9, <1>10, <1>11, <1>12, <1>13,
     CreateCheckMoves, CreateInsertMoves, RemoveRowMoves, EraseDeleteMoves, AuthorizeMoves,
     TransmitMoves, ReleaseMoves
  DEF Next, DownloadStep, EraseStep

(* The requests implement SingleUse: whatever the downloads, releases,     *)
(* failures and erasures, a file of a single-use link is reserved, given   *)
(* back, lost or delivered for good as that module says (claimFile,        *)
(* releaseFile, completeIfFullyDownloaded).                                *)
THEOREM Implements == Spec => SingleUseSpec
<1>1. Spec => []Base
  BY TypeCorrect, ClaimInvHolds, PTL DEF Base
<1>2. QED
  BY <1>1, Initially, Step, PTL DEF Spec, SingleUseSpec, Abstract!Spec
=============================================================================
