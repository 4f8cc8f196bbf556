------------------------------ MODULE Deposit -------------------------------
(***************************************************************************)
(* The deposit of files by one account: the quota guard, the reception of  *)
(* the body through the type sniffer, the byte counter and the cipher into *)
(* the storage, then the row of the file and the monthly counter.  Several *)
(* deposits of the account may be under way at once; accounts share        *)
(* nothing here.  Sizes are in chunks of the request's stream.             *)
(***************************************************************************)
EXTENDS Integers

CONSTANTS
    Upload,        \* requests POST /files, each with its file
    Sizes,         \* sizes a body may have
    MaxFileSize,   \* limits.fileSize of multer
    Sample,        \* chunks the sniffer holds back before its verdict
    Quota,         \* Quota[plan]: the monthly volume of each plan
    MaxMonth,      \* bound: the calendar stops there
    MaxFaults      \* bound: failures of the database or of the process

Plan == {"FREE", "PREMIUM"}

ASSUME DepositAssumption ==
    /\ Sizes \subseteq Nat
    /\ MaxFileSize \in Nat /\ Sample \in Nat \ {0}
    /\ Quota \in [Plan -> Nat] /\ Quota["FREE"] <= Quota["PREMIUM"]
    /\ MaxMonth \in Nat \ {0} /\ MaxFaults \in Nat

VARIABLES
    plan,       \* users.plan
    month,      \* the current period
    usage,      \* table monthly_usage: bytes by period
    rows,       \* table files: the deposits that have one
    content,    \* the deposits whose bytes are on the support
    pc,
    size,       \* of the body each client sends
    arrived,    \* chunks of the body the stream has delivered
    held,       \* chunks the sniffer holds back
    passed,     \* sizeBytes: chunks through the counter, onto the support
    remaining,  \* quotaRemainingBytes, set by the guard
    faults,
    seen        \* history: period, usage and limit the guard read

stored == <<plan, month, usage, rows>>
stream == <<size, arrived, held, passed>>
vars   == <<plan, month, usage, rows, content, pc, size, arrived, held, passed,
            remaining, faults, seen>>

Period == 1..MaxMonth
Sight  == [period : Period, used : Nat, limit : Nat]

Label == {"idle", "guarded", "sniffing", "verifying", "flowing", "stored", "recording",
          "discard", "done", "refused", "stopped"}

AtMost(m, n) == IF m < n THEN m ELSE n
Goto(u, label) == pc' = [pc EXCEPT ![u] = label]

Init ==
    /\ plan \in Plan /\ month = 1
    /\ usage = [m \in Period |-> 0]
    /\ rows = {} /\ content = {}
    /\ pc = [u \in Upload |-> "idle"]
    /\ size \in [Upload -> Sizes]
    /\ arrived = [u \in Upload |-> 0]
    /\ held = [u \in Upload |-> 0]
    /\ passed = [u \in Upload |-> 0]
    /\ remaining = [u \in Upload |-> 0]
    /\ faults = 0
    /\ seen = [u \in Upload |-> [period |-> 1, used |-> 0, limit |-> 0]]

-----------------------------------------------------------------------------
(* statusFor: never below zero, the usage of the month may exceed the      *)
(* limit.                                                                  *)
Remaining(limit, used) == IF used < limit THEN limit - used ELSE 0

(* QuotaGuard: refuses nothing, notes what is left for the reception.      *)
Guard(u) ==
    /\ pc[u] = "idle"
    /\ remaining' = [remaining EXCEPT ![u] = Remaining(Quota[plan], usage[month])]
    /\ seen' = [seen EXCEPT ![u] =
                  [period |-> month, used |-> usage[month], limit |-> Quota[plan]]]
    /\ Goto(u, "guarded")
    /\ UNCHANGED <<stored, content, stream, faults>>

(* encrypt opens the destination before it touches the incoming stream.    *)
Open(u) ==
    /\ pc[u] = "guarded"
    /\ content' = content \cup {u}
    /\ Goto(u, "sniffing")
    /\ UNCHANGED <<stored, stream, remaining, faults, seen>>

(* The counter: chunks reach the cipher only while the total stays within  *)
(* what the guard saw, otherwise 402 and the pipeline fails.               *)
PassAtTheByteTooMany(u, n) ==
    IF passed[u] + n > remaining[u] + 1
    THEN Goto(u, "discard") /\ UNCHANGED passed
    ELSE passed' = [passed EXCEPT ![u] = @ + n] /\ Goto(u, "flowing")

Pass(u, n) ==
    IF passed[u] + n > remaining[u]
    THEN Goto(u, "discard") /\ UNCHANGED passed
    ELSE passed' = [passed EXCEPT ![u] = @ + n] /\ Goto(u, "flowing")

(* multer cuts the stream at the maximal size.                             *)
Length(u) == AtMost(size[u], MaxFileSize)

(* _transform before the verdict: held back, until there is enough.        *)
Hold(u) ==
    /\ pc[u] = "sniffing"
    /\ arrived[u] < Length(u)
    /\ arrived' = [arrived EXCEPT ![u] = @ + 1]
    /\ held' = [held EXCEPT ![u] = @ + 1]
    /\ Goto(u, IF held[u] + 1 < Sample THEN "sniffing" ELSE "verifying")
    /\ UNCHANGED <<stored, content, size, passed, remaining, faults, seen>>

(* _flush: the body ended before the sample was full.                      *)
Flush(u) ==
    /\ pc[u] = "sniffing"
    /\ arrived[u] = Length(u)
    /\ Goto(u, "verifying")
    /\ UNCHANGED <<stored, content, stream, remaining, faults, seen>>

(* Mutant: the sample not replayed.                                        *)
VerifyWithoutReplay(u) ==
    /\ pc[u] = "verifying"
    /\ held' = [held EXCEPT ![u] = 0]
    /\ \/ Pass(u, 0)
       \/ Goto(u, "discard") /\ UNCHANGED passed
    /\ UNCHANGED <<stored, content, size, arrived, remaining, faults, seen>>

(* verify: 415 if the sample's type is not allowed, or the sample goes on  *)
(* at the head of the stream.                                              *)
Verify(u) ==
    /\ pc[u] = "verifying"
    /\ held' = [held EXCEPT ![u] = 0]
    /\ \/ Pass(u, held[u])
       \/ Goto(u, "discard") /\ UNCHANGED passed
    /\ UNCHANGED <<stored, content, size, arrived, remaining, faults, seen>>

Flow(u) ==
    /\ pc[u] = "flowing"
    /\ arrived[u] < Length(u)
    /\ arrived' = [arrived EXCEPT ![u] = @ + 1]
    /\ Pass(u, 1)
    /\ UNCHANGED <<stored, content, size, held, remaining, faults, seen>>

(* Mutant: the truncated flag not looked at.                               *)
EndTruncated(u) ==
    /\ pc[u] = "flowing"
    /\ arrived[u] = Length(u)
    /\ Goto(u, "stored")
    /\ UNCHANGED <<stored, content, stream, remaining, faults, seen>>

(* The pipeline has resolved: 413 if multer truncated the stream.          *)
End(u) ==
    /\ pc[u] = "flowing"
    /\ arrived[u] = Length(u)
    /\ Goto(u, IF size[u] > MaxFileSize THEN "discard" ELSE "stored")
    /\ UNCHANGED <<stored, content, stream, remaining, faults, seen>>

(* The client goes away, the stream fails, or multer drops the request     *)
(* after the file (_removeFile).                                           *)
Break(u) ==
    /\ pc[u] \in {"sniffing", "verifying", "flowing", "stored"}
    /\ Goto(u, "discard")
    /\ UNCHANGED <<stored, content, stream, remaining, faults, seen>>

-----------------------------------------------------------------------------
(* register: the row.                                                      *)
Create(u) ==
    /\ pc[u] = "stored"
    /\ rows' = rows \cup {u}
    /\ Goto(u, "recording")
    /\ UNCHANGED <<plan, month, usage, content, stream, remaining, faults, seen>>

(* register: quota.record, one upsert, in the month it runs in.            *)
Record(u) ==
    /\ pc[u] = "recording"
    /\ usage' = [usage EXCEPT ![month] = @ + passed[u]]
    /\ Goto(u, "done")
    /\ UNCHANGED <<plan, month, rows, content, stream, remaining, faults, seen>>

(* The database refuses the row, or the counter: register's catch.         *)
Reject(u) ==
    /\ faults < MaxFaults
    /\ pc[u] \in {"stored", "recording"}
    /\ faults' = faults + 1
    /\ Goto(u, "discard")
    /\ UNCHANGED <<stored, content, stream, remaining, seen>>

(* Mutant: the catch of encrypt without its storage.remove.                *)
DiscardNothing(u) ==
    /\ pc[u] = "discard"
    /\ Goto(u, "refused")
    /\ UNCHANGED <<stored, content, stream, remaining, faults, seen>>

(* storage.remove, in the catch of encrypt, of register, or _removeFile.   *)
Discard(u) ==
    /\ pc[u] = "discard"
    /\ content' = content \ {u}
    /\ Goto(u, "refused")
    /\ UNCHANGED <<stored, stream, remaining, faults, seen>>

-----------------------------------------------------------------------------
(* The support refuses to remove the file.                                 *)
KeepGarbage(u) ==
    /\ faults < MaxFaults
    /\ pc[u] = "discard"
    /\ faults' = faults + 1
    /\ Goto(u, "stopped")
    /\ UNCHANGED <<stored, content, stream, remaining, seen>>

(* The process stops: every deposit ends where it stands.                  *)
Crash ==
    /\ faults < MaxFaults
    /\ faults' = faults + 1
    /\ pc' = [u \in Upload |-> IF pc[u] \in {"idle", "done", "refused"}
                               THEN pc[u] ELSE "stopped"]
    /\ UNCHANGED <<stored, content, stream, remaining, seen>>

(* An administrator changes the plan of the account.                       *)
ChangePlan ==
    /\ plan' \in Plan \ {plan}
    /\ UNCHANGED <<month, usage, rows, content, pc, stream, remaining, faults, seen>>

NextMonth ==
    /\ month < MaxMonth
    /\ month' = month + 1
    /\ UNCHANGED <<plan, usage, rows, content, pc, stream, remaining, faults, seen>>

UploadStep(u) ==
    \/ Open(u) \/ Hold(u) \/ Flush(u) \/ Verify(u) \/ Flow(u) \/ End(u)
    \/ Create(u) \/ Record(u) \/ Discard(u)

Next ==
    \/ \E u \in Upload : Guard(u) \/ UploadStep(u) \/ Break(u) \/ Reject(u) \/ KeepGarbage(u)
    \/ Crash \/ ChangePlan \/ NextMonth

(* A body ends or its connection does, and the server goes on with what it *)
(* has begun.                                                              *)
Spec     == Init /\ [][Next]_vars
FairSpec == Spec /\ \A u \in Upload : WF_vars(UploadStep(u) \/ Break(u))

-----------------------------------------------------------------------------
(* Each variable has its type.                                             *)
TypeOK ==
    /\ plan \in Plan /\ month \in Period /\ usage \in [Period -> Nat]
    /\ rows \subseteq Upload /\ content \subseteq Upload
    /\ pc \in [Upload -> Label]
    /\ size \in [Upload -> Sizes]
    /\ arrived \in [Upload -> Nat] /\ held \in [Upload -> Nat]
    /\ passed \in [Upload -> Nat] /\ remaining \in [Upload -> Nat]
    /\ faults \in Nat /\ seen \in [Upload -> Sight]

(* A registered file is the whole body the client sent: the sample held    *)
(* back by the sniffer is replayed exactly once and a truncated stream is  *)
(* never registered (verify, and the truncated flag read in encrypt).      *)
RegisteredWhole ==
    \A u \in rows : passed[u] = size[u]

(* What no row refers to is on the support only while its deposit lasts,   *)
(* "un fichier que plus rien ne reference et que personne ne nettoiera",   *)
(* unless the process stopped or the support refused to let it go.         *)
OrphansAreUnderWay ==
    \A u \in content \ rows : pc[u] \notin {"idle", "done", "refused"}

(* A deposit that no other deposit of the account overlaps leaves the      *)
(* month within the limit it was given, or adds nothing to a month already *)
(* beyond it (the guard, the counter and record, far apart in time).       *)
AloneWithinQuota ==
    [][\A u \in Upload :
         (Record(u) /\ seen[u].period = month /\ seen[u].used = usage[month])
           => \/ usage'[month] <= seen[u].limit
              \/ usage'[month] = usage[month]]_vars

(* Bytes without a row are registered or removed in the end, unless the    *)
(* process stopped or the support refused to let them go (the catches of   *)
(* encrypt and register, and _removeFile).                                 *)
OrphansCleaned ==
    \A u \in Upload : (u \in content \ rows)
                        ~> (u \notin content \ rows \/ pc[u] = "stopped")

(* files.service.ts, register: "Si l'ecriture en base echoue, le contenu   *)
(* deja present sur le support est retire : mieux vaut perdre le depot".   *)
(* A refused deposit is lost whole: no file is listed whose bytes are not  *)
(* there.                                                                  *)
RowsHaveContent == rows \subseteq content
=============================================================================
