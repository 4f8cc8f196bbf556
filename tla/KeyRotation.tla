----------------------------- MODULE KeyRotation ----------------------------
(***************************************************************************)
(* The master keys, the configuration that brings them, and the command    *)
(* that seals again what an older key sealed, while the service runs.      *)
(*                                                                         *)
(* Every sealed value carries the label of its key.  A row of files has    *)
(* its data key and its name, always sealed together, a row of shares its  *)
(* recipient: one sealed value a row.  A label says nothing of the bytes   *)
(* of the key: a process opens a value when the key it has loaded under    *)
(* the label is the one that sealed it.  Processes read the configuration  *)
(* when they start and never again.                                        *)
(***************************************************************************)
EXTENDS Integers, FiniteSets

CONSTANTS
    File, Share,   \* ids of the rows; both tables are read in the order of ids
    First,         \* rows there are when the model starts
    Instance,      \* processes of the service
    Job,           \* operators who run rotate-keys, one execution at a time each
    Key,           \* master keys
    OldKey,        \* the one the rows are sealed with at first
    Absent,        \* a variable left out
    Malformed,     \* a variable that is not 64 hexadecimal digits, or is empty
    Restarts,      \* the operator restarts the service before a rotation
    BatchSize,
    MaxFaults      \* bound: executions cut short

Row == File \cup Share
Label == {"v1", "v2"}

ASSUME KeyRotationAssumption ==
    /\ File \subseteq Nat \ {0} /\ Share \subseteq Nat \ {0} /\ File \cap Share = {}
    /\ First \subseteq Row
    /\ OldKey \in Key /\ Absent \notin Key /\ Malformed \notin Key /\ Absent # Malformed
    /\ Restarts \in BOOLEAN
    /\ BatchSize \in Nat \ {0} /\ MaxFaults \in Nat
    /\ Job \cap Instance = {}

VARIABLES
    config,        \* ENCRYPTION_KEY_V1 and ENCRYPTION_KEY_V2, as the next process finds them
    keys,          \* keys[p]: the keys process p has loaded; Absent everywhere when down
    sealed,        \* sealed[r]: the sealed value of row r
    rows,          \* rows in the database
    unborn,        \* ids not given yet
    pc, phase,     \* where a job stands; the table it walks
    dry,           \* whether it only counts
    cursor,        \* the last row it has read
    batch,         \* the rows read and not looked at yet, each with its value then
    rewrapped,     \* whether it has met a row to seal again
    faults,
    disturbed,     \* history: jobs during which a row was deleted
    blind          \* history: a key was given up on the word of one of these

job  == <<pc, phase, dry, cursor, batch, rewrapped, disturbed>>
db   == <<sealed, rows, unborn>>
vars == <<config, keys, sealed, rows, unborn, pc, phase, dry, cursor, batch, rewrapped,
          faults, disturbed, blind>>

Sealed == [label : Label, key : Key]
NoKeys == [l \in Label |-> Absent]
NoRows == [r \in {} |-> 0]

-----------------------------------------------------------------------------
(* The configuration and the encryption service.                           *)

(* The contract: V1 is compulsory, V2 may be left out, and what is there   *)
(* must be a key.  The other variables play no part in this module.        *)
Contract(c) == c["v1"] \in Key /\ c["v2"] \in Key \cup {Absent}

(* Mutant: only the newest key loaded.                                     *)
LoadNewest(c) == [c EXCEPT !["v1"] = IF c["v2"] = Absent THEN @ ELSE Absent]

(* The map of keys the constructor builds.                                 *)
Load(c) == c

(* The newest key writes.                                                  *)
Current(p) == IF keys[p]["v2"] # Absent THEN "v2" ELSE "v1"

Seal(p) == [label |-> Current(p), key |-> keys[p][Current(p)]]

(* Mutant: whatever the label, the current key.                            *)
OpensAny(p, x) == TRUE

(* The label must be one of the process's, and its key the one that sealed *)
(* (the authentication tag tells).                                         *)
Opens(p, x) == keys[p][x.label] = x.key

Up(p) == keys[p] # NoKeys

Init ==
    /\ config = [l \in Label |-> IF l = "v1" THEN OldKey ELSE Absent]
    /\ keys = [p \in Instance \cup Job |-> IF p \in Instance THEN config ELSE NoKeys]
    /\ rows = First /\ unborn = Row \ First
    /\ sealed = [r \in Row |-> [label |-> "v1", key |-> OldKey]]
    /\ pc = [j \in Job |-> "idle"] /\ phase = [j \in Job |-> File]
    /\ dry = [j \in Job |-> FALSE] /\ cursor = [j \in Job |-> 0]
    /\ batch = [j \in Job |-> NoRows] /\ rewrapped = [j \in Job |-> FALSE]
    /\ faults = 0 /\ disturbed = {} /\ blind = FALSE

-----------------------------------------------------------------------------
(* The service.                                                            *)

(* The configuration is validated before anything else starts.             *)
Start(i) ==
    /\ Contract(config)
    /\ keys[i] # Load(config)
    /\ keys' = [keys EXCEPT ![i] = Load(config)]
    /\ UNCHANGED <<config, db, job, faults, blind>>

Stop(i) ==
    /\ Up(i)
    /\ keys' = [keys EXCEPT ![i] = NoKeys]
    /\ UNCHANGED <<config, db, job, faults, blind>>

(* A deposit, or a link with a recipient: the value is sealed with the     *)
(* keys of the process that then writes the row.                           *)
Insert(i) ==
    /\ Up(i)
    /\ \E r \in unborn :
         /\ unborn' = unborn \ {r}
         /\ rows' = rows \cup {r}
         /\ sealed' = [sealed EXCEPT ![r] = Seal(i)]
    /\ UNCHANGED <<config, keys, job, faults, blind>>

(* A file is deleted by its owner or by the purge; shares are kept.        *)
Delete(f) ==
    /\ f \in rows
    /\ rows' = rows \ {f}
    /\ disturbed' = disturbed \cup {j \in Job : pc[j] \in {"read", "rewrap"}}
    /\ UNCHANGED <<config, keys, sealed, unborn, pc, phase, dry, cursor, batch, rewrapped,
                   faults, blind>>

-----------------------------------------------------------------------------
(* The operator, who follows the documented steps of a change of key.  A   *)
(* bound: one change, from OldKey; a second one after it is not modelled.  *)

(* V2 is written down beside V1, rightly or not, and corrected if not.     *)
AddV2 ==
    /\ config["v1"] = OldKey /\ config["v2"] \in {Absent, Malformed}
    /\ \E v \in (Key \ {OldKey}) \cup {Malformed} : config' = [config EXCEPT !["v2"] = v]
    /\ UNCHANGED <<keys, db, job, faults, blind>>

(* The command has been applied, for real and with the new key as target.  *)
Applied(j) ==
    pc[j] = "done" /\ ~dry[j] /\ config["v2"] \in Key /\ keys[j]["v2"] = config["v2"]

(* What the operator goes by before the old key is given up.               *)
Trusted(j) == Applied(j) /\ blind' = IF j \in disturbed THEN TRUE ELSE blind

(* The report says that nothing was left: the old key is taken out.  The   *)
(* contract asks for V1, so that no process starts any more.               *)
RemoveV1 ==
    /\ config["v1"] = OldKey
    /\ \E j \in Job : Trusted(j) /\ ~rewrapped[j]
    /\ config' = [config EXCEPT !["v1"] = Absent]
    /\ UNCHANGED <<keys, db, job, faults>>

(* The other guide: once the command has been applied, V2 becomes V1.  The *)
(* key is kept and its label is not.                                       *)
PromoteV2 ==
    /\ \E j \in Job : Trusted(j)
    /\ config' = [config EXCEPT !["v1"] = config["v2"], !["v2"] = Absent]
    /\ UNCHANGED <<keys, db, job, faults>>

Promoted == config["v1"] \notin {OldKey, Absent}

-----------------------------------------------------------------------------
(* rotate-keys: rotate, rotateFiles then rotateShares.                     *)

Goto(j, label) == pc' = [pc EXCEPT ![j] = label]

Restarted == \A i \in Instance : Up(i) => keys[i] = Load(config)

(* A process of its own, with the configuration it finds; simulated or not. *)
Begin(j) ==
    /\ pc[j] \in {"idle", "done", "aborted"}
    /\ Contract(config)
    /\ Restarts => Restarted
    /\ keys' = [keys EXCEPT ![j] = Load(config)]
    /\ \E d \in BOOLEAN : dry' = [dry EXCEPT ![j] = d]
    /\ rewrapped' = [rewrapped EXCEPT ![j] = FALSE]
    /\ disturbed' = disturbed \ {j}
    /\ Goto(j, "read")
    /\ UNCHANGED <<config, db, phase, cursor, batch, faults, blind>>

(* The variables of an execution go with it.                               *)
End(j, label) ==
    /\ Goto(j, label)
    /\ phase' = [phase EXCEPT ![j] = File]
    /\ cursor' = [cursor EXCEPT ![j] = 0]
    /\ batch' = [batch EXCEPT ![j] = NoRows]

(* Mutant: a row skipped, on the first page too.                           *)
AheadOfFirst(j) == {r \in phase[j] \cap rows : r > cursor[j] + 1}

Ahead(j) == {r \in phase[j] \cap rows : r > cursor[j]}

(* The rows the next page is taken from.  Without the row of the cursor,   *)
(* the page is empty or skips a row nobody read, as the library compares.  *)
Pages(j) ==
    IF cursor[j] \in rows \cup {0} THEN {Ahead(j)}
    ELSE {{}} \cup {Ahead(j) \ {r} : r \in Ahead(j)}

Lowest(S) == {r \in S : Cardinality({q \in S : q < r}) < BatchSize}

(* Mutant: the shares forgotten.                                           *)
ReadFilesOnly(j) ==
    /\ pc[j] = "read"
    /\ \E page \in Pages(j) :
         IF page = {} THEN End(j, "done")
         ELSE /\ batch' = [batch EXCEPT ![j] = [r \in Lowest(page) |-> sealed[r]]]
              /\ \E last \in Lowest(page) :
                   /\ \A r \in Lowest(page) : r <= last
                   /\ cursor' = [cursor EXCEPT ![j] = last]
              /\ Goto(j, "rewrap") /\ UNCHANGED phase
    /\ UNCHANGED <<config, keys, db, dry, rewrapped, faults, disturbed, blind>>

(* A page of the table; when there is none, the other table, or the report. *)
Read(j) ==
    /\ pc[j] = "read"
    /\ \E page \in Pages(j) :
         \/ /\ page = {} /\ phase[j] = File
            /\ phase' = [phase EXCEPT ![j] = Share]
            /\ cursor' = [cursor EXCEPT ![j] = 0]
            /\ UNCHANGED <<pc, batch>>
         \/ /\ page = {} /\ phase[j] = Share
            /\ End(j, "done")
         \/ /\ page # {}
            /\ batch' = [batch EXCEPT ![j] = [r \in Lowest(page) |-> sealed[r]]]
            /\ \E last \in Lowest(page) :
                 /\ \A r \in Lowest(page) : r <= last
                 /\ cursor' = [cursor EXCEPT ![j] = last]
            /\ Goto(j, "rewrap") /\ UNCHANGED phase
    /\ UNCHANGED <<config, keys, db, dry, rewrapped, faults, disturbed, blind>>

(* The next row of the page, opened and sealed again: the same contents    *)
(* under the current key.  On that key, or in a simulation: nothing is     *)
(* written.  A value that does not open, or a row that has gone, throws    *)
(* and ends the execution.                                                 *)
Rewrap(j) ==
    /\ pc[j] = "rewrap"
    /\ \E r \in DOMAIN batch[j] :
         LET old == batch[j][r].label # Current(j)
             Advance == /\ batch' = [batch EXCEPT ![j] = [q \in DOMAIN @ \ {r} |-> @[q]]]
                        /\ Goto(j, IF DOMAIN batch[j] = {r} THEN "read" ELSE "rewrap")
                        /\ UNCHANGED <<phase, cursor>>
         IN
         /\ \A q \in DOMAIN batch[j] : r <= q
         /\ rewrapped' = [rewrapped EXCEPT ![j] = @ \/ old]
         /\ \/ /\ ~old \/ dry[j]
               /\ Advance /\ UNCHANGED sealed
            \/ /\ old /\ ~dry[j] /\ Opens(j, batch[j][r]) /\ r \in rows
               /\ sealed' = [sealed EXCEPT ![r] = Seal(j)]
               /\ Advance
            \/ /\ old /\ ~dry[j] /\ ~(Opens(j, batch[j][r]) /\ r \in rows)
               /\ End(j, "aborted") /\ UNCHANGED sealed
    /\ UNCHANGED <<config, keys, rows, unborn, dry, faults, disturbed, blind>>

(* The process is killed, or the database fails.                           *)
Fault(j) ==
    /\ faults < MaxFaults
    /\ pc[j] \in {"read", "rewrap"}
    /\ faults' = faults + 1
    /\ End(j, "aborted")
    /\ UNCHANGED <<config, keys, db, dry, rewrapped, disturbed, blind>>

JobStep(j) == Read(j) \/ Rewrap(j)

Next ==
    \/ \E i \in Instance : Start(i) \/ Stop(i) \/ Insert(i)
    \/ \E f \in File : Delete(f)
    \/ AddV2 \/ RemoveV1 \/ PromoteV2
    \/ \E j \in Job : Begin(j) \/ JobStep(j) \/ Fault(j)

Spec == Init /\ [][Next]_vars

(* What the operator still has to do: restart the service, and run the     *)
(* command, for real, until an execution reports nothing left.             *)
Unfinished(j) == pc[j] # "done" \/ dry[j] \/ rewrapped[j] \/ keys[j] # config

FairSpec ==
    /\ Spec
    /\ \A j \in Job : WF_vars(JobStep(j))
    /\ \A i \in Instance : WF_vars(Start(i))
    /\ \E j \in Job : SF_vars(Unfinished(j) /\ Begin(j) /\ ~dry'[j])

-----------------------------------------------------------------------------
TypeOK ==
    /\ config \in [Label -> Key \cup {Absent, Malformed}]
    /\ keys \in [Instance \cup Job -> [Label -> Key \cup {Absent}]]
    /\ sealed \in [Row -> Sealed]
    /\ rows \subseteq Row /\ unborn \subseteq Row \ rows
    /\ pc \in [Job -> {"idle", "read", "rewrap", "done", "aborted"}]
    /\ phase \in [Job -> {File, Share}]
    /\ dry \in [Job -> BOOLEAN] /\ rewrapped \in [Job -> BOOLEAN]
    /\ cursor \in [Job -> Row \cup {0}]
    /\ \A j \in Job : /\ DOMAIN batch[j] \subseteq Row
                      /\ \A r \in DOMAIN batch[j] : batch[j][r] \in Sealed
    /\ faults \in 0..MaxFaults /\ disturbed \subseteq Job /\ blind \in BOOLEAN

(* Whatever the rotation has done and wherever it was cut short, when the  *)
(* old key is taken out as well, the configuration holds the key of every  *)
(* row.  Two reservations: a value under V2 loses its key the moment V2    *)
(* becomes V1, as configuration-deploiement.md asks; and a key given up on *)
(* the report of an execution under which a file was deleted may have been *)
(* that of a row it skipped.                                               *)
KeysSuffice ==
    \A r \in rows :
       \/ config[sealed[r].label] = sealed[r].key
       \/ Promoted /\ sealed[r].label = "v2"
       \/ blind

(* The service that was restarted with the new key goes on reading every   *)
(* row while the rotation walks them, and after the old key has left the   *)
(* configuration; until V2 becomes V1 and a process starts with that.      *)
ServiceReads ==
    \/ Promoted
    \/ \A i \in Instance : Up(i) => \A r \in rows : Opens(i, sealed[r])

(* An execution for real that ran to its end, while no file was deleted,   *)
(* has left no row under another label than its target, rows written       *)
(* behind its cursor included; until V2 becomes V1 and labels change keys. *)
NothingLeft ==
    \A j \in Job \ disturbed :
       pc[j] = "done" /\ ~dry[j] /\ keys[j]["v2"] = config["v2"] /\ ~Promoted
          => \A r \in rows : sealed[r].label = Current(j)

(* No step takes a row back to an older key: executions that began before  *)
(* the new key was there, and are still running, do no harm.               *)
NoWayBack ==
    [][\A r \in rows : sealed[r].label = "v2" => sealed'[r].label = "v2"]_vars

(* However often it is cut short, the rotation that is run again ends, and *)
(* then every row is on the new key (files deleted meanwhile aside).       *)
Resumes ==
    ([](disturbed = {}) /\ <>[](config["v2"] \in Key))
       => <>[](\A r \in rows : sealed[r].label = "v2")
=============================================================================
