------------------------- MODULE KeyRotation_proofs -------------------------
(***************************************************************************)
(* Proofs about KeyRotation, for any number of rows, executions and        *)
(* failures of a change of key, the documented last steps included: what   *)
(* value keeps its key, that none goes back to the older one, and that a   *)
(* restarted service opens them all.                                       *)
(***************************************************************************)
EXTENDS KeyRotation, FiniteSetTheorems, TLAPS

(* The key of the change, wherever the operator has put it.                *)
NewKey == IF Promoted THEN config["v1"] ELSE config["v2"]

(* Where the configuration may be on its way from one key to the other.    *)
ConfigInv ==
    /\ config["v1"] \in Key \cup {Absent} /\ config["v2"] # OldKey
    /\ Promoted => config["v2"] = Absent
    /\ config["v1"] = Absent => config["v2"] \in Key

(* A value under the new key, or under V1 as it was, or as it has become.  *)
Sound(x) ==
    /\ x \in Sealed
    /\ x.label = "v2" => x.key = NewKey
    /\ x.label = "v1" => x.key = OldKey \/ (Promoted /\ x.key = config["v1"])

(* What a process has loaded: nothing, V1 as it was and perhaps the V2     *)
(* there is, or what V1 has become.                                        *)
Loaded(p) ==
    \/ keys[p] = NoKeys
    \/ /\ keys[p]["v1"] = OldKey
       /\ keys[p]["v2"] = Absent \/ (keys[p]["v2"] \in Key /\ keys[p]["v2"] = NewKey)
    \/ Promoted /\ keys[p] = config

Running(j) == pc[j] \in {"read", "rewrap"}

(* Values, in the tables and in the hands of the executions, each sealed   *)
(* with a key of the change, and processes that have loaded no other.      *)
SealInv ==
    /\ ConfigInv
    /\ \A p \in Instance \cup Job : Loaded(p)
    /\ \A j \in Job : Running(j) => keys[j] # NoKeys
    /\ \A r \in Row : Sound(sealed[r])
    /\ batch = [j \in Job |-> batch[j]]
    /\ \A j \in Job : \A r \in DOMAIN batch[j] : Sound(batch[j][r])

LEMMA TypeInit == Init => TypeOK
<1> SUFFICES ASSUME Init PROVE TypeOK
  OBVIOUS
<1>1. \A p \in Instance \cup Job : keys[p] \in [Label -> Key \cup {Absent}]
  BY KeyRotationAssumption DEF Init, Label, NoKeys
<1>2. keys \in [Instance \cup Job -> [Label -> Key \cup {Absent}]]
  BY <1>1 DEF Init
<1>3. /\ pc \in [Job -> {"idle", "read", "rewrap", "done", "aborted"}]
      /\ phase \in [Job -> {File, Share}] /\ cursor \in [Job -> Row \cup {0}]
      /\ dry \in [Job -> BOOLEAN] /\ rewrapped \in [Job -> BOOLEAN]
      /\ \A j \in Job : DOMAIN batch[j] = {}
  BY DEF Init, NoRows
<1>4. config \in [Label -> Key \cup {Absent, Malformed}] /\ sealed \in [Row -> Sealed]
  BY KeyRotationAssumption DEF Init, Label, Sealed
<1>5. rows \subseteq Row /\ unborn \subseteq Row \ rows
  BY KeyRotationAssumption DEF Init
<1>6. faults \in 0..MaxFaults /\ disturbed \subseteq Job
  BY KeyRotationAssumption DEF Init
<1>7. blind \in BOOLEAN
  BY DEF Init
<1>8. QED
  BY <1>2, <1>3, <1>4, <1>5, <1>6, <1>7 DEF TypeOK

(* A page is taken from the rows of the table, none of which is 0.         *)
LEMMA PageType ==
  ASSUME TypeOK, NEW j \in Job, NEW page \in Pages(j)
  PROVE  page \subseteq rows /\ Lowest(page) \subseteq page
<1>1. Ahead(j) \subseteq rows
  BY DEF Ahead
<1>2. page \subseteq rows
  BY <1>1 DEF Pages
<1>3. QED
  BY <1>2 DEF Lowest

LEMMA SealType ==
  ASSUME TypeOK, ConfigInv, NEW p \in Instance \cup Job, Loaded(p), keys[p] # NoKeys
  PROVE  Sound(Seal(p))
<1>1. OldKey \in Key /\ Absent \notin Key
  BY KeyRotationAssumption
<1>2. CASE keys[p]["v1"] = OldKey /\ keys[p]["v2"] = Absent
  BY <1>1, <1>2 DEF Seal, Current, Sound, Sealed, Label
<1>3. CASE keys[p]["v2"] \in Key /\ keys[p]["v2"] = NewKey
  BY <1>1, <1>3 DEF Seal, Current, Sound, Sealed, Label
<1>4. CASE Promoted /\ keys[p] = config
  <2>1. config["v2"] = Absent /\ config["v1"] \in Key
    BY <1>4 DEF ConfigInv, Promoted
  <2>2. QED
    BY <1>4, <2>1 DEF Seal, Current, Sound, Sealed, Label
<1>5. QED
  BY <1>2, <1>3, <1>4 DEF Loaded

(* What leaves the configuration alone leaves values and processes sound.  *)
Kept ==
    /\ ConfigInv => ConfigInv'
    /\ \A x : Sound(x) => Sound(x)'
    /\ \A p : keys'[p] = keys[p] /\ Loaded(p) => Loaded(p)'

LEMMA KeptSound ==
  ASSUME config' = config
  PROVE  Kept
<1>1. NewKey' = NewKey /\ Promoted' = Promoted
  BY DEF NewKey, Promoted
<1>2. \A x : Sound(x) => Sound(x)'
  BY <1>1 DEF Sound
<1>3. \A p : keys'[p] = keys[p] /\ Loaded(p) => Loaded(p)'
  BY <1>1 DEF Loaded
<1>4. ConfigInv => ConfigInv'
  BY <1>1 DEF ConfigInv
<1>5. QED
  BY <1>2, <1>3, <1>4 DEF Kept

(* A configuration without V2 has no value under its label.                *)
LEMMA AddedV2 ==
  ASSUME TypeOK, SealInv, AddV2
  PROVE  /\ ConfigInv'
         /\ \A x : Sound(x) => Sound(x)'
         /\ \A p \in Instance \cup Job : Loaded(p)'
<1>1. /\ config["v2"] \notin Key /\ config["v1"] = OldKey /\ config'["v1"] = OldKey
      /\ config'["v2"] # OldKey /\ OldKey \in Key /\ OldKey # Absent
  BY KeyRotationAssumption DEF AddV2, TypeOK, Label
<1>2. ~Promoted /\ ~Promoted' /\ NewKey = config["v2"]
  BY <1>1 DEF Promoted, NewKey
<1>3. ConfigInv'
  BY <1>1, <1>2 DEF ConfigInv
<1>4. \A x : Sound(x) => Sound(x)'
  <2>1. SUFFICES ASSUME NEW x, Sound(x) PROVE x.label = "v1" /\ x.key = OldKey
    BY DEF Sound
  <2>2. x.label \in {"v1", "v2"} /\ x.key \in Key
    BY <2>1 DEF Sound, Sealed, Label
  <2>3. QED
    BY <1>1, <1>2, <2>1, <2>2 DEF Sound
<1>5. ASSUME NEW p \in Instance \cup Job PROVE Loaded(p)'
  <2>1. Loaded(p) /\ keys' = keys
    BY DEF SealInv, AddV2
  <2>2. QED
    BY <1>1, <1>2, <2>1 DEF Loaded
<1>6. QED
  BY <1>3, <1>4, <1>5

(* The new key is the same one, without the old beside it or in its place. *)
LEMMA GivenUp ==
  ASSUME TypeOK, SealInv, RemoveV1 \/ PromoteV2
  PROVE  /\ ~Promoted /\ NewKey \in Key /\ NewKey' = NewKey /\ ConfigInv'
         /\ RemoveV1 => config'["v1"] = Absent /\ config'["v2"] = config["v2"] /\ ~Promoted'
         /\ PromoteV2 => config'["v1"] = config["v2"] /\ Promoted'
         /\ \A x : Sound(x) => Sound(x)'
         /\ \A p \in Instance \cup Job : Loaded(p)'
<1>1. config["v2"] \in Key /\ config["v2"] # OldKey /\ Absent \notin Key /\ OldKey \in Key
  BY KeyRotationAssumption DEF RemoveV1, PromoteV2, Trusted, Applied, SealInv, ConfigInv
<1>2. ~Promoted /\ NewKey = config["v2"]
  BY <1>1 DEF SealInv, ConfigInv, NewKey
<1>3. keys' = keys
  BY DEF RemoveV1, PromoteV2
<1>4. CASE RemoveV1
  <2>1. config'["v1"] = Absent /\ config'["v2"] = config["v2"]
    BY <1>4 DEF RemoveV1, TypeOK, Label
  <2>2. ~Promoted' /\ NewKey' = NewKey /\ ConfigInv'
    BY <1>1, <1>2, <2>1 DEF Promoted, NewKey, ConfigInv
  <2>3. \A x : Sound(x) => Sound(x)'
    BY <1>2, <2>2 DEF Sound
  <2>4. \A p \in Instance \cup Job : Loaded(p)'
    BY <1>2, <1>3, <2>2 DEF Loaded, SealInv
  <2>5. ~PromoteV2
    BY <1>1, <2>1 DEF PromoteV2, TypeOK, Label
  <2>6. QED
    BY <1>1, <1>2, <2>1, <2>2, <2>3, <2>4, <2>5
<1>5. CASE PromoteV2
  <2>1. config'["v1"] = config["v2"] /\ config'["v2"] = Absent
    BY <1>5 DEF PromoteV2, TypeOK, Label
  <2>2. Promoted' /\ NewKey' = NewKey /\ ConfigInv'
    BY <1>1, <1>2, <2>1 DEF Promoted, NewKey, ConfigInv
  <2>3. \A x : Sound(x) => Sound(x)'
    BY <1>2, <2>2 DEF Sound
  <2>4. \A p \in Instance \cup Job : Loaded(p)'
    BY <1>2, <1>3, <2>2 DEF Loaded, SealInv
  <2>5. ~RemoveV1
    BY <1>1, <2>1 DEF RemoveV1, TypeOK, Label
  <2>6. QED
    BY <1>1, <1>2, <2>1, <2>2, <2>3, <2>4, <2>5
<1>6. QED
  BY <1>4, <1>5

LEMMA LoadedNow ==
  ASSUME TypeOK, SealInv, Contract(config), NEW p \in Instance \cup Job,
         keys' = [keys EXCEPT ![p] = Load(config)], config' = config
  PROVE  /\ \A q \in Instance \cup Job : Loaded(q)'
         /\ keys'[p] # NoKeys
         /\ keys' \in [Instance \cup Job -> [Label -> Key \cup {Absent}]]
<1>1. keys'[p] = config /\ \A q \in Instance \cup Job : q # p => keys'[q] = keys[q]
  BY DEF TypeOK, Load
<1>2. config \in [Label -> Key \cup {Absent}]
  <2>1. config["v1"] \in Key /\ config["v2"] \in Key \cup {Absent}
    BY DEF Contract
  <2>2. QED
    BY <2>1 DEF TypeOK, Label
<1>3. config # NoKeys
  BY KeyRotationAssumption DEF Contract, NoKeys, Label
<1>4. Promoted' = Promoted /\ NewKey' = NewKey
  BY DEF Promoted, NewKey
<1>5. Loaded(p)'
  <2>1. CASE Promoted
    BY <1>1, <1>4, <2>1 DEF Loaded
  <2>2. CASE ~Promoted
    BY <1>1, <1>4, <2>2, KeyRotationAssumption DEF Loaded, Contract, Promoted, NewKey
  <2>3. QED
    BY <2>1, <2>2
<1>6. \A q \in Instance \cup Job : Loaded(q)'
  BY <1>1, <1>4, <1>5 DEF SealInv, Loaded
<1>7. keys' \in [Instance \cup Job -> [Label -> Key \cup {Absent}]]
  BY <1>1, <1>2 DEF TypeOK, Load
<1>8. QED
  BY <1>1, <1>3, <1>6, <1>7

IInv == TypeOK /\ SealInv

LEMMA InitIInv == Init => IInv
<1> SUFFICES ASSUME Init PROVE SealInv
  BY TypeInit DEF IInv
<1>1. /\ config["v1"] = OldKey /\ config["v2"] = Absent /\ OldKey \in Key
      /\ OldKey # Absent
  BY KeyRotationAssumption DEF Init, Label
<1>2. \A p \in Instance \cup Job : Loaded(p)
  BY <1>1 DEF Init, Loaded
<1>3. \A r \in Row : Sound(sealed[r])
  BY <1>1 DEF Init, Sound, Sealed, Label
<1>4. \A j \in Job : DOMAIN batch[j] = {}
  BY DEF Init, NoRows
<1>5. ConfigInv
  BY <1>1 DEF ConfigInv, Promoted
<1>6. QED
  BY <1>1, <1>2, <1>3, <1>4, <1>5 DEF SealInv, Running, Init

(* The service and the operator: the executions are not touched.           *)
LEMMA ServiceStep ==
  ASSUME IInv, NEW i \in Instance, Start(i) \/ Stop(i) \/ Insert(i)
  PROVE  IInv'
<1> USE DEF IInv
<1>0. i \notin Job /\ i \in Instance \cup Job
  BY KeyRotationAssumption
<1>1. CASE Start(i)
  <2>1. /\ \A q \in Instance \cup Job : Loaded(q)'
        /\ keys' \in [Instance \cup Job -> [Label -> Key \cup {Absent}]]
    BY <1>0, <1>1, LoadedNow DEF Start
  <2>2. \A j \in Job : keys'[j] = keys[j]
    BY <1>0, <1>1 DEF Start, TypeOK
  <2>3. TypeOK'
    BY <1>1, <2>1 DEF Start, TypeOK, db, job
  <2>4. Kept
    BY <1>1, KeptSound DEF Start
  <2>5. QED
    BY <1>1, <2>1, <2>2, <2>3, <2>4 DEF Start, SealInv, Kept, Running, db, job
<1>2. CASE Stop(i)
  <2>1. \A q \in Instance \cup Job : Loaded(q)' /\ (q # i => keys'[q] = keys[q])
    BY <1>0, <1>2, KeptSound DEF Stop, Loaded, Kept, SealInv, TypeOK
  <2>2. NoKeys \in [Label -> Key \cup {Absent}]
    BY DEF NoKeys
  <2>3. TypeOK'
    BY <1>2, <2>2 DEF Stop, TypeOK, db, job
  <2>4. Kept
    BY <1>2, KeptSound DEF Stop
  <2>5. QED
    BY <1>0, <1>2, <2>1, <2>3, <2>4 DEF Stop, SealInv, Kept, Running, db, job
<1>3. CASE Insert(i)
  <2>1. Sound(Seal(i))
    BY <1>0, <1>3, SealType DEF Insert, Up, SealInv
  <2>2. PICK r \in unborn : /\ unborn' = unborn \ {r} /\ rows' = rows \cup {r}
                            /\ sealed' = [sealed EXCEPT ![r] = Seal(i)]
    BY <1>3 DEF Insert
  <2>3. r \in Row /\ Seal(i) \in Sealed
    BY <2>1 DEF TypeOK, Sound
  <2>4. TypeOK'
    BY <1>3, <2>2, <2>3 DEF Insert, TypeOK, job
  <2>5. Kept
    BY <1>3, KeptSound DEF Insert
  <2>6. \A q \in Row : Sound(sealed[q])'
    BY <2>1, <2>2, <2>3, <2>5 DEF SealInv, TypeOK, Kept
  <2>7. \A q \in Instance \cup Job : Loaded(q)'
    BY <1>3, <2>5 DEF Insert, Kept, SealInv
  <2>8. QED
    BY <1>3, <2>4, <2>5, <2>6, <2>7 DEF Insert, SealInv, Kept, Running, job
<1>4. QED
  BY <1>1, <1>2, <1>3

LEMMA OperatorStep ==
  ASSUME IInv, AddV2 \/ RemoveV1 \/ PromoteV2 \/ \E f \in File : Delete(f)
  PROVE  IInv'
<1> USE DEF IInv
<1>1. CASE AddV2
  <2>1. TypeOK'
    BY <1>1 DEF AddV2, TypeOK, Label, db, job
  <2>2. QED
    BY <1>1, <2>1, AddedV2 DEF AddV2, SealInv, Running, db, job
<1>2. CASE RemoveV1 \/ PromoteV2
  <2>1. UNCHANGED <<keys, db, job, faults>>
    BY <1>2 DEF RemoveV1, PromoteV2
  <2>2. blind' \in BOOLEAN
    BY <1>2 DEF RemoveV1, PromoteV2, Trusted, TypeOK
  <2>3. config' \in [Label -> Key \cup {Absent, Malformed}]
    BY <1>2 DEF RemoveV1, PromoteV2, TypeOK, Label
  <2>4. TypeOK'
    BY <2>1, <2>2, <2>3 DEF TypeOK, db, job
  <2>5. QED
    BY <1>2, <2>1, <2>4, GivenUp DEF SealInv, Running, db, job
<1>3. ASSUME NEW f \in File, Delete(f) PROVE IInv'
  <2>1. TypeOK'
    BY <1>3 DEF Delete, TypeOK
  <2>2. Kept
    BY <1>3, KeptSound DEF Delete
  <2>3. QED
    BY <1>3, <2>1, <2>2 DEF Delete, SealInv, Kept, Running
<1>4. QED
  BY <1>1, <1>2, <1>3

(* The executions.                                                         *)
LEMMA BeginStep ==
  ASSUME IInv, NEW j \in Job, Begin(j)
  PROVE  IInv'
<1> USE DEF IInv
<1>1. /\ \A q \in Instance \cup Job : Loaded(q)'
      /\ keys'[j] # NoKeys
      /\ keys' \in [Instance \cup Job -> [Label -> Key \cup {Absent}]]
  BY LoadedNow DEF Begin
<1>2. \A k \in Job : k # j => keys'[k] = keys[k] /\ pc'[k] = pc[k]
  BY DEF Begin, Goto, TypeOK
<1>3. TypeOK'
  BY <1>1 DEF Begin, Goto, TypeOK, db
<1>4. Kept
  BY KeptSound DEF Begin
<1>5. QED
  BY <1>1, <1>2, <1>3, <1>4 DEF Begin, SealInv, Kept, Running, db

(* An execution that ends leaves an empty page behind.                     *)
LEMMA EndStep ==
  ASSUME IInv, NEW j \in Job, NEW label \in {"done", "aborted"}, End(j, label),
         config' = config, keys' = keys, sealed' = sealed, rows' = rows, unborn' = unborn,
         dry' = dry, rewrapped' \in [Job -> BOOLEAN], faults' \in 0..MaxFaults,
         disturbed' = disturbed, blind' = blind
  PROVE  IInv'
<1> USE DEF IInv
<1>1. Kept
  BY KeptSound
<1>2. /\ batch'[j] = NoRows /\ \A k \in Job : k # j => batch'[k] = batch[k]
      /\ batch' = [k \in Job |-> batch'[k]]
  BY DEF End, SealInv
<1>3. \A k \in Job : pc'[k] \in {"read", "rewrap"} => pc[k] \in {"read", "rewrap"}
  BY DEF End, Goto, TypeOK
<1>4. DOMAIN NoRows = {}
  BY DEF NoRows
<1>5. TypeOK'
  BY <1>2, <1>4 DEF End, Goto, TypeOK
<1>6. QED
  BY <1>1, <1>2, <1>3, <1>4, <1>5 DEF SealInv, Kept, Running

LEMMA ReadStep ==
  ASSUME IInv, NEW j \in Job, Read(j)
  PROVE  IInv'
<1> USE DEF IInv
<1>1. PICK page \in Pages(j) :
         \/ /\ page = {} /\ phase[j] = File
            /\ phase' = [phase EXCEPT ![j] = Share]
            /\ cursor' = [cursor EXCEPT ![j] = 0]
            /\ UNCHANGED <<pc, batch>>
         \/ /\ page = {} /\ phase[j] = Share
            /\ End(j, "done")
         \/ /\ page # {}
            /\ batch' = [batch EXCEPT ![j] = [r \in Lowest(page) |-> sealed[r]]]
            /\ \E last \in Lowest(page) :
                 /\ \A r \in Lowest(page) : r <= last
                 /\ cursor' = [cursor EXCEPT ![j] = last]
            /\ Goto(j, "rewrap") /\ UNCHANGED phase
  BY DEF Read
<1>2. /\ pc[j] = "read"
      /\ config' = config /\ keys' = keys /\ sealed' = sealed /\ rows' = rows
      /\ unborn' = unborn /\ dry' = dry /\ rewrapped' = rewrapped /\ faults' = faults
      /\ disturbed' = disturbed /\ blind' = blind
  BY DEF Read, db
<1>3. Kept
  BY <1>2, KeptSound
<1>4. CASE /\ phase' = [phase EXCEPT ![j] = Share]
           /\ cursor' = [cursor EXCEPT ![j] = 0]
           /\ UNCHANGED <<pc, batch>>
  <2>1. TypeOK'
    BY <1>2, <1>4 DEF TypeOK
  <2>2. QED
    BY <1>2, <1>3, <1>4, <2>1 DEF SealInv, Kept, Running
<1>5. CASE End(j, "done")
  BY <1>2, <1>5, EndStep DEF TypeOK
<1>6. CASE /\ batch' = [batch EXCEPT ![j] = [r \in Lowest(page) |-> sealed[r]]]
           /\ \E last \in Lowest(page) :
                /\ \A r \in Lowest(page) : r <= last
                /\ cursor' = [cursor EXCEPT ![j] = last]
           /\ Goto(j, "rewrap") /\ UNCHANGED phase
  <2>1. Lowest(page) \subseteq rows /\ rows \subseteq Row
    BY PageType DEF TypeOK
  <2>2. /\ batch'[j] = [r \in Lowest(page) |-> sealed[r]]
        /\ \A k \in Job : k # j => batch'[k] = batch[k]
        /\ batch' = [k \in Job |-> batch'[k]]
    BY <1>6 DEF SealInv
  <2>3. /\ DOMAIN batch'[j] \subseteq Row
        /\ \A r \in DOMAIN batch'[j] : batch'[j][r] = sealed[r]
    BY <2>1, <2>2
  <2>4. pc' \in [Job -> {"idle", "read", "rewrap", "done", "aborted"}]
    BY <1>6 DEF Goto, TypeOK
  <2>5. cursor' \in [Job -> Row \cup {0}]
    BY <1>6, <2>1 DEF TypeOK
  <2>6. \A k \in Job : /\ DOMAIN batch'[k] \subseteq Row
                       /\ \A r \in DOMAIN batch'[k] : batch'[k][r] \in Sealed
    BY <2>2, <2>3 DEF TypeOK
  <2>7. TypeOK'
    BY <1>2, <1>6, <2>4, <2>5, <2>6 DEF TypeOK
  <2>8. \A k \in Job : \A r \in DOMAIN batch'[k] : Sound(batch[k][r])'
    BY <1>3, <2>2, <2>3 DEF SealInv, Kept
  <2>9. \A k \in Job : Running(k)' => Running(k)
    BY <1>2, <1>6 DEF Running, Goto, TypeOK
  <2>10. QED
    BY <1>2, <1>3, <2>2, <2>7, <2>8, <2>9 DEF SealInv, Kept
<1>7. QED
  BY <1>1, <1>4, <1>5, <1>6

(* What an execution writes is sealed with what it has loaded.             *)
LEMMA RewrapStep ==
  ASSUME IInv, NEW j \in Job, Rewrap(j)
  PROVE  IInv'
<1> USE DEF IInv
<1>0. /\ pc[j] = "rewrap"
      /\ config' = config /\ keys' = keys /\ rows' = rows /\ unborn' = unborn /\ dry' = dry
      /\ faults' = faults /\ disturbed' = disturbed /\ blind' = blind
  BY DEF Rewrap
<1>1. PICK r \in DOMAIN batch[j] :
         LET old == batch[j][r].label # Current(j)
             Advance == /\ batch' = [batch EXCEPT ![j] = [q \in DOMAIN @ \ {r} |-> @[q]]]
                        /\ Goto(j, IF DOMAIN batch[j] = {r} THEN "read" ELSE "rewrap")
                        /\ UNCHANGED <<phase, cursor>>
         IN
         /\ \A q \in DOMAIN batch[j] : r <= q
         /\ rewrapped' = [rewrapped EXCEPT ![j] = @ \/ old]
         /\ \/ /\ ~old \/ dry[j]
               /\ Advance /\ UNCHANGED sealed
            \/ /\ old /\ ~dry[j] /\ Opens(j, batch[j][r]) /\ r \in rows
               /\ sealed' = [sealed EXCEPT ![r] = Seal(j)]
               /\ Advance
            \/ /\ old /\ ~dry[j] /\ ~(Opens(j, batch[j][r]) /\ r \in rows)
               /\ End(j, "aborted") /\ UNCHANGED sealed
  BY DEF Rewrap
<1> DEFINE Advance == /\ batch' = [batch EXCEPT ![j] = [q \in DOMAIN @ \ {r} |-> @[q]]]
                      /\ Goto(j, IF DOMAIN batch[j] = {r} THEN "read" ELSE "rewrap")
                      /\ UNCHANGED <<phase, cursor>>
           Writes == sealed' = sealed \/ sealed' = [sealed EXCEPT ![r] = Seal(j)]
<1>2. /\ rewrapped' \in [Job -> BOOLEAN]
      /\ (Advance /\ Writes) \/ (End(j, "aborted") /\ sealed' = sealed)
  BY <1>1 DEF TypeOK
<1>3. CASE End(j, "aborted") /\ sealed' = sealed
  BY <1>0, <1>2, <1>3, EndStep DEF TypeOK
<1>4. CASE Advance /\ Writes
  <2>1. /\ batch'[j] = [q \in DOMAIN batch[j] \ {r} |-> batch[j][q]]
        /\ \A k \in Job : k # j => batch'[k] = batch[k]
        /\ batch' = [k \in Job |-> batch'[k]]
    BY <1>4 DEF SealInv
  <2>2. \A k \in Job : /\ DOMAIN batch'[k] \subseteq DOMAIN batch[k]
                       /\ \A q \in DOMAIN batch'[k] : batch'[k][q] = batch[k][q]
    BY <2>1
  <2>3. Kept
    BY <1>0, KeptSound
  <2>4. Sound(Seal(j))
    BY <1>0, SealType DEF SealInv, Running
  <2>5. \A q \in Row : Sound(sealed[q])'
    BY <1>4, <2>3, <2>4 DEF SealInv, TypeOK, Kept
  <2>6. sealed' \in [Row -> Sealed]
    BY <1>4, <2>4 DEF Sound, TypeOK
  <2>7. /\ pc' \in [Job -> {"idle", "read", "rewrap", "done", "aborted"}]
        /\ \A k \in Job : Running(k)' => Running(k)
    BY <1>0, <1>4 DEF Goto, Running, TypeOK
  <2>8. TypeOK'
    BY <1>0, <1>2, <1>4, <2>2, <2>6, <2>7 DEF TypeOK
  <2>9. QED
    BY <1>0, <2>1, <2>2, <2>3, <2>5, <2>7, <2>8 DEF SealInv, Kept
<1>5. QED
  BY <1>2, <1>3, <1>4

LEMMA FaultStep ==
  ASSUME IInv, NEW j \in Job, Fault(j)
  PROVE  IInv'
<1>1. faults' \in 0..MaxFaults
  BY KeyRotationAssumption DEF Fault, IInv, TypeOK
<1>2. QED
  BY <1>1, EndStep DEF Fault, IInv, TypeOK, db

LEMMA NextIInv == IInv /\ [Next]_vars => IInv'
<1> SUFFICES ASSUME IInv, [Next]_vars PROVE IInv'
  OBVIOUS
<1>1. CASE UNCHANGED vars
  BY <1>1, KeptSound DEF vars, IInv, TypeOK, SealInv, Kept, Running
<1>2. CASE Next
  BY <1>2, ServiceStep, OperatorStep, BeginStep, ReadStep, RewrapStep, FaultStep
     DEF Next, JobStep
<1>3. QED
  BY <1>1, <1>2

LEMMA Invariant == Spec => []IInv
BY InitIInv, NextIInv, PTL DEF Spec

(* The types of the model (key-rotation.service.ts, crypto.service.ts).    *)
THEOREM TypeCorrect == Spec => []TypeOK
<1>1. IInv => TypeOK
  BY DEF IInv
<1>2. QED
  BY <1>1, Invariant, PTL

(* V2 having become V1, no documented step is left.                        *)
LEMMA PromotedStays ==
  ASSUME IInv, Promoted, [Next]_vars
  PROVE  Promoted'
<1>1. config["v1"] # OldKey /\ config["v2"] = Absent /\ Absent \notin Key
  BY KeyRotationAssumption DEF Promoted, IInv, SealInv, ConfigInv
<1>2. config' = config
  BY <1>1
     DEF Next, vars, JobStep, Start, Stop, Insert, Delete, AddV2, RemoveV1, PromoteV2,
         Trusted, Applied, Begin, Read, Rewrap, Fault
<1>3. QED
  BY <1>2 DEF Promoted

(* An execution writes a value over one it opened, and only if it is under *)
(* another label than its own.                                             *)
LEMMA RewrapWrites ==
  ASSUME IInv, NEW j \in Job, Rewrap(j), sealed' # sealed
  PROVE  /\ Running(j) /\ keys[j]["v2"] # Absent
         /\ \E r \in Row : /\ sealed' = [sealed EXCEPT ![r] = Seal(j)]
                           /\ Seal(j).label = "v2"
<1>1. PICK r \in DOMAIN batch[j] :
         /\ batch[j][r].label # Current(j) /\ Opens(j, batch[j][r])
         /\ sealed' = [sealed EXCEPT ![r] = Seal(j)]
  BY DEF Rewrap
<1>2. batch[j][r] \in Sealed /\ r \in Row /\ Loaded(j)
  BY DEF IInv, TypeOK, SealInv
<1>3. keys[j][batch[j][r].label] \in Key
  BY <1>1, <1>2 DEF Opens, Sealed
<1>4. keys[j]["v2"] # Absent
  BY <1>1, <1>2, <1>3, KeyRotationAssumption DEF Current, Sealed, Label
<1>5. QED
  BY <1>1, <1>2, <1>4 DEF Rewrap, Running, Seal, Current

(* Executions begun without the new key, and overtaken by others, take no  *)
(* value back (rotateFiles, rotateShares).                                 *)
THEOREM NeverBack == Spec => NoWayBack
<1> DEFINE Stays == \A r \in rows : sealed[r].label = "v2" => sealed'[r].label = "v2"
<1>1. IInv /\ [Next]_vars => [Stays]_vars
  <2> SUFFICES ASSUME IInv, Next PROVE Stays
    OBVIOUS
  <2>1. ASSUME NEW i \in Instance, Insert(i) PROVE Stays
    <3>1. PICK r \in unborn : sealed' = [sealed EXCEPT ![r] = Seal(i)]
      BY <2>1 DEF Insert
    <3>2. r \notin rows
      BY DEF IInv, TypeOK
    <3>3. QED
      BY <3>1, <3>2 DEF IInv, TypeOK
  <2>2. ASSUME NEW j \in Job, Rewrap(j) PROVE Stays
    <3>1. CASE sealed' = sealed
      BY <3>1
    <3>2. CASE sealed' # sealed
      BY <2>2, <3>2, RewrapWrites DEF IInv, TypeOK
    <3>3. QED
      BY <3>1, <3>2
  <2>3. CASE sealed' = sealed
    BY <2>3
  <2>4. CASE sealed' # sealed
    BY <2>1, <2>2, <2>4 DEF Next, JobStep, Start, Stop, Delete, AddV2, RemoveV1, PromoteV2, Begin, Read,
           Fault, db
  <2>5. QED
    BY <2>3, <2>4
<1>2. QED
  BY <1>1, Invariant, PTL DEF Spec, NoWayBack

(* With one process of the service, restarted before any execution: the    *)
(* new key is loaded wherever it may be met.                               *)
Met == \/ \E r \in rows : sealed[r].label = "v2"
       \/ \E j \in Job : Running(j) /\ keys[j]["v2"] # Absent

Ready == \A i \in Instance : Up(i) /\ Met => keys[i]["v2"] # Absent

LEMMA MetInConfig ==
  ASSUME IInv, ~Promoted, Met
  PROVE  config["v2"] \in Key
<1>1. NewKey = config["v2"] /\ Absent \notin Key
  BY KeyRotationAssumption DEF NewKey
<1>2. CASE \E r \in rows : sealed[r].label = "v2"
  BY <1>1, <1>2 DEF IInv, SealInv, Sound, Sealed, TypeOK
<1>3. CASE \E j \in Job : Running(j) /\ keys[j]["v2"] # Absent
  <2>1. PICK j \in Job : Running(j) /\ keys[j]["v2"] # Absent
    BY <1>3
  <2>2. Loaded(j) /\ keys[j] # NoKeys
    BY <2>1 DEF IInv, SealInv
  <2>3. QED
    BY <1>1, <2>1, <2>2 DEF Loaded
<1>4. QED
  BY <1>2, <1>3 DEF Met

LEMMA ReadyStep ==
  ASSUME Restarts, \A i, k \in Instance : i = k, IInv, ~Promoted, Ready, [Next]_vars
  PROVE  Ready'
<1>0. Instance \cap Job = {} /\ Absent \notin Key
  BY KeyRotationAssumption
<1>1. ASSUME NEW i \in Instance, Start(i) PROVE Ready'
  <2>1. keys' = [keys EXCEPT ![i] = config] /\ Met' = Met
    <3>1. \A j \in Job : keys'[j] = keys[j] /\ pc'[j] = pc[j]
      BY <1>0, <1>1 DEF Start, IInv, TypeOK, job
    <3>2. rows' = rows /\ sealed' = sealed
      BY <1>1 DEF Start, db
    <3>3. QED
      BY <1>1, <3>1, <3>2 DEF Start, Load, Met, Running
  <2>2. keys'[i] = config
    BY <2>1 DEF IInv, TypeOK
  <2>3. Met => config["v2"] # Absent
    BY <1>0, MetInConfig
  <2>4. QED
    BY <2>1, <2>2, <2>3 DEF Ready
<1>2. ASSUME NEW i \in Instance, Stop(i) PROVE Ready'
  <2>1. keys'[i] = NoKeys
    BY <1>2 DEF Stop, IInv, TypeOK
  <2>2. QED
    BY <2>1 DEF Ready, Up
<1>3. ASSUME NEW i \in Instance, Insert(i) PROVE Ready'
  <2>1. PICK r \in unborn : /\ rows' = rows \cup {r}
                            /\ sealed' = [sealed EXCEPT ![r] = Seal(i)]
    BY <1>3 DEF Insert
  <2>2. keys' = keys /\ pc' = pc
    BY <1>3 DEF Insert, job
  <2>3. Met' => Met \/ Seal(i).label = "v2"
    BY <2>1, <2>2 DEF Met, Running, IInv, TypeOK
  <2>4. Seal(i).label = "v2" => keys[i]["v2"] # Absent
    BY DEF Seal, Current
  <2>5. QED
    BY <1>3, <2>2, <2>3, <2>4 DEF Ready, Insert, Up
<1>4. ASSUME NEW f \in File, Delete(f) PROVE Ready'
  BY <1>4 DEF Delete, Ready, Met, Running, Up
<1>5. CASE AddV2 \/ RemoveV1 \/ PromoteV2
  BY <1>5 DEF AddV2, RemoveV1, PromoteV2, Ready, Met, Running, Up, db, job
<1>6. ASSUME NEW j \in Job, Begin(j) PROVE Ready'
  <2>1. \A i \in Instance : keys'[i] = keys[i] /\ (Up(i) => keys[i] = config)
    BY <1>0, <1>6 DEF Begin, Restarted, Load, IInv, TypeOK
  <2>2. Met' => Met \/ config["v2"] # Absent
    <3>1. keys'[j] = config /\ \A k \in Job : k # j => keys'[k] = keys[k] /\ pc'[k] = pc[k]
      BY <1>6 DEF Begin, Load, Goto, IInv, TypeOK
    <3>2. rows' = rows /\ sealed' = sealed
      BY <1>6 DEF Begin, db
    <3>3. QED
      BY <3>1, <3>2 DEF Met, Running
  <2>3. QED
    BY <2>1, <2>2 DEF Ready, Up
<1>7. ASSUME NEW j \in Job, Read(j) \/ Fault(j) PROVE Ready'
  <2>1. keys' = keys /\ rows' = rows /\ sealed' = sealed
    BY <1>7 DEF Read, Fault, db
  <2>2. \A k \in Job : Running(k)' => Running(k)
    BY <1>7 DEF Read, Fault, End, Goto, Running, IInv, TypeOK
  <2>3. QED
    BY <2>1, <2>2 DEF Ready, Met, Up
<1>8. ASSUME NEW j \in Job, Rewrap(j) PROVE Ready'
  <2>1. keys' = keys /\ rows' = rows
    BY <1>8 DEF Rewrap
  <2>2. \A k \in Job : Running(k)' => Running(k)
    BY <1>8 DEF Rewrap, End, Goto, Running, IInv, TypeOK
  <2>3. Met' => Met
    BY <1>8, <2>1, <2>2, RewrapWrites DEF Met
  <2>4. QED
    BY <2>1, <2>3 DEF Ready, Up
<1>9. CASE UNCHANGED vars
  BY <1>9 DEF vars, Ready, Met, Running, Up
<1>10. QED
  BY <1>1, <1>2, <1>3, <1>4, <1>5, <1>6, <1>7, <1>8, <1>9 DEF Next, JobStep

(* The service goes on reading every value while the rotation runs, if it  *)
(* is one process and was restarted first (CryptoService.open).            *)
THEOREM ServiceGoesOn ==
  ASSUME Restarts, \A i, k \in Instance : i = k
  PROVE  Spec => []ServiceReads
<1>1. Init => Ready
  BY KeyRotationAssumption DEF Init, Ready, Met, Running
<1>2. IInv /\ (Promoted \/ Ready) /\ [Next]_vars => (Promoted \/ Ready)'
  BY ReadyStep, PromotedStays
<1>3. IInv /\ (Promoted \/ Ready) => ServiceReads
  <2> SUFFICES ASSUME IInv, ~Promoted, Ready, NEW i \in Instance, Up(i), NEW r \in rows
               PROVE  Opens(i, sealed[r])
    BY DEF ServiceReads
  <2>1. Sound(sealed[r]) /\ Loaded(i) /\ keys[i] # NoKeys
    BY DEF IInv, SealInv, TypeOK, Up
  <2>2. CASE sealed[r].label = "v1"
    BY <2>1, <2>2 DEF Loaded, Sound, Opens
  <2>3. CASE sealed[r].label = "v2"
    <3>1. keys[i]["v2"] # Absent
      BY <2>3 DEF Ready, Met
    <3>2. QED
      BY <2>1, <2>3, <3>1 DEF Loaded, Sound, Opens
  <2>4. QED
    BY <2>1, <2>2, <2>3 DEF Sound, Sealed, Label
<1>4. QED
  BY <1>1, <1>2, <1>3, Invariant, PTL DEF Spec

-----------------------------------------------------------------------------
(* What an execution has walked over, if it seals with the new key.        *)
Renews(j) == (Running(j) \/ pc[j] = "done") /\ keys[j]["v2"] \in Key

Behind(j, r) ==
    \/ pc[j] = "done"
    \/ phase[j] = Share /\ r \in File
    \/ r \in phase[j] /\ r <= cursor[j] /\ r \notin DOMAIN batch[j]

(* Between two executions nothing is left of the first.                    *)
PlaceInv ==
    \A j \in Job : /\ pc[j] # "rewrap" => DOMAIN batch[j] = {}
                   /\ ~Running(j) => phase[j] = File /\ cursor[j] = 0

(* Until a file is deleted, the row of the cursor is there.                *)
CursorInv == \A j \in Job \ disturbed : Running(j) => cursor[j] \in rows \cup {0}

(* The service has the new key, too: what it inserts is not left behind.   *)
Served == \A i \in Instance : Up(i) => keys[i]["v2"] \in Key

ServedInv == \A j \in Job : Renews(j) => Served

(* A value read on the new key is still on it.                             *)
BatchInv ==
    \A j \in Job : Renews(j) =>
       \A r \in DOMAIN batch[j] : batch[j][r].label = "v2" => sealed[r].label = "v2"

BehindInv ==
    \A j \in Job \ disturbed : Renews(j) /\ ~dry[j] =>
       \A r \in rows : Behind(j, r) => sealed[r].label = "v2"

WalkInv == PlaceInv /\ CursorInv /\ ServedInv /\ BatchInv /\ BehindInv

LEMMA WalkInit == Init => WalkInv
BY KeyRotationAssumption
   DEF Init, WalkInv, PlaceInv, CursorInv, ServedInv, BatchInv, BehindInv, Renews, Running,
       NoKeys, NoRows, Label

(* An execution that renews writes with the key the configuration has.     *)
LEMMA RenewsConfig ==
  ASSUME IInv, NEW j \in Job, Renews(j)
  PROVE  /\ Current(j) = "v2" /\ Seal(j).label = "v2"
         /\ ~Promoted => config["v2"] \in Key
<1>1. Loaded(j) /\ keys[j]["v2"] \in Key /\ Absent \notin Key
  BY KeyRotationAssumption DEF IInv, SealInv, Renews
<1>2. ~Promoted => config["v2"] \in Key
  BY <1>1 DEF Loaded, NewKey, NoKeys, Label
<1>3. QED
  BY <1>1, <1>2 DEF Current, Seal

LEMMA WalkService ==
  ASSUME IInv, ~Promoted, WalkInv, NEW i \in Instance, Start(i) \/ Stop(i)
  PROVE  WalkInv'
<1>1. i \notin Job /\ UNCHANGED <<config, db, job>>
  BY KeyRotationAssumption DEF Start, Stop
<1>2. \A j \in Job : keys'[j] = keys[j]
  BY <1>1 DEF Start, Stop, IInv, TypeOK
<1>3. \A k \in Instance : keys'[k] = keys[k] \/ keys'[k] = NoKeys \/ keys'[k] = config
  BY DEF Start, Stop, Load, IInv, TypeOK
<1>4. config["v2"] \in Key => (Served => Served')
  BY <1>3 DEF Served, Up
<1>5. \A j \in Job : Renews(j)' = Renews(j)
  BY <1>1, <1>2 DEF Renews, Running, job
<1>6. ServedInv'
  BY <1>4, <1>5, RenewsConfig DEF WalkInv, ServedInv
<1>7. QED
  BY <1>1, <1>5, <1>6
     DEF WalkInv, PlaceInv, CursorInv, BatchInv, BehindInv, Running, Behind, job, db

LEMMA WalkInsert ==
  ASSUME IInv, WalkInv, NEW i \in Instance, Insert(i)
  PROVE  WalkInv'
<1>1. UNCHANGED <<config, keys, job>> /\ Up(i)
  BY DEF Insert
<1>2. PICK r \in unborn : rows' = rows \cup {r} /\ sealed' = [sealed EXCEPT ![r] = Seal(i)]
  BY DEF Insert
<1>3. \A j \in Job : Renews(j)' = Renews(j) /\ Running(j)' = Running(j)
  BY <1>1 DEF Renews, Running, job
<1>4. ASSUME NEW j \in Job, Renews(j) PROVE Seal(i).label = "v2"
  <2>1. keys[i]["v2"] \in Key /\ Absent \notin Key
    BY <1>1, <1>4, KeyRotationAssumption DEF WalkInv, ServedInv, Served
  <2>2. QED
    BY <2>1 DEF Seal, Current
<1>5. \A q \in Row : sealed'[q] = IF q = r THEN Seal(i) ELSE sealed[q]
  BY <1>2 DEF IInv, TypeOK
<1>6. Served' = Served
  BY <1>1 DEF Served, Up
<1>7. r \in Row /\ rows \subseteq Row
  BY DEF IInv, TypeOK
<1>8. \A j \in Job : DOMAIN batch[j] \subseteq Row
  BY DEF IInv, TypeOK
<1>9. PlaceInv' /\ CursorInv' /\ ServedInv'
  BY <1>1, <1>2, <1>3, <1>6 DEF WalkInv, PlaceInv, CursorInv, ServedInv, Running, job
<1>10. BatchInv'
  BY <1>1, <1>3, <1>4, <1>5, <1>8 DEF WalkInv, BatchInv, job
<1>11. BehindInv'
  BY <1>1, <1>2, <1>3, <1>4, <1>5, <1>7 DEF WalkInv, BehindInv, Behind, job
<1>12. QED
  BY <1>9, <1>10, <1>11 DEF WalkInv

LEMMA WalkDelete ==
  ASSUME IInv, WalkInv, NEW f \in File, Delete(f)
  PROVE  WalkInv'
<1>1. /\ UNCHANGED <<config, keys, sealed, pc, phase, dry, cursor, batch>>
      /\ rows' = rows \ {f}
      /\ disturbed' = disturbed \cup {j \in Job : Running(j)}
  BY DEF Delete, Running
<1>2. QED
  BY <1>1
     DEF WalkInv, PlaceInv, CursorInv, ServedInv, BatchInv, BehindInv, Renews, Running,
         Behind, Served, Up

(* Where the operator writes the keys is nothing to a walk under way.      *)
LEMMA WalkOperator ==
  ASSUME WalkInv, AddV2 \/ RemoveV1 \/ PromoteV2
  PROVE  WalkInv'
<1>1. UNCHANGED <<keys, db, job>>
  BY DEF AddV2, RemoveV1, PromoteV2
<1>2. QED
  BY <1>1
     DEF WalkInv, PlaceInv, CursorInv, ServedInv, BatchInv, BehindInv, Renews, Running, Behind,
         Served, Up, job, db

LEMMA WalkBegin ==
  ASSUME Restarts, IInv, WalkInv, NEW j \in Job, Begin(j)
  PROVE  WalkInv'
<1>1. /\ UNCHANGED <<config, db, phase, cursor, batch>>
      /\ keys' = [keys EXCEPT ![j] = config] /\ ~Running(j) /\ pc[j] # "rewrap"
      /\ pc' = [pc EXCEPT ![j] = "read"] /\ disturbed' = disturbed \ {j}
      /\ Restarted
      /\ \E d \in BOOLEAN : dry' = [dry EXCEPT ![j] = d]
  BY DEF Begin, Load, Goto, Running
<1>2. \A k \in Job \ {j} : /\ keys'[k] = keys[k] /\ pc'[k] = pc[k] /\ dry'[k] = dry[k]
                           /\ Renews(k)' = Renews(k) /\ Running(k)' = Running(k)
  BY <1>1 DEF Renews, Running, IInv, TypeOK
<1>3. pc'[j] = "read" /\ phase'[j] = File /\ cursor'[j] = 0 /\ DOMAIN batch'[j] = {}
  BY <1>1 DEF IInv, TypeOK, WalkInv, PlaceInv
<1>4. Renews(j)' => Served'
  <2>1. \A i \in Instance : keys'[i] = keys[i] /\ (Up(i) => keys[i] = config)
    BY <1>1, KeyRotationAssumption DEF Restarted, Load, IInv, TypeOK
  <2>2. keys'[j] = config
    BY <1>1 DEF IInv, TypeOK
  <2>3. QED
    BY <2>1, <2>2 DEF Renews, Served, Up
<1>11. Served => Served'
  BY <1>1, KeyRotationAssumption DEF Served, Up, IInv, TypeOK
<1>5. PlaceInv'
  BY <1>1, <1>2, <1>3 DEF WalkInv, PlaceInv, Running
<1>6. CursorInv'
  BY <1>1, <1>2, <1>3 DEF WalkInv, CursorInv, db
<1>7. ServedInv' /\ BatchInv'
  BY <1>1, <1>2, <1>3, <1>4, <1>11 DEF WalkInv, ServedInv, BatchInv, db
<1>8. \A r \in rows' : ~Behind(j, r)'
  BY <1>1, <1>3, KeyRotationAssumption DEF Behind, db, IInv, TypeOK, Row
<1>9. BehindInv'
  BY <1>1, <1>2, <1>8 DEF WalkInv, BehindInv, Behind, db
<1>10. QED
  BY <1>5, <1>6, <1>7, <1>9 DEF WalkInv

(* The rows of a page are all those up to its last one.                    *)
LEMMA PageEnd ==
  ASSUME NEW S \in SUBSET Nat, NEW last \in Lowest(S)
  PROVE  \A r \in S : r <= last => r \in Lowest(S)
<1> SUFFICES ASSUME NEW r \in S, r <= last PROVE r \in Lowest(S)
  OBVIOUS
<1> DEFINE A == {q \in S : q < r}
           B == {q \in S : q < last}
<1>1. last \in Nat /\ r \in Nat /\ Cardinality(B) < BatchSize
  BY DEF Lowest
<1>2. A \in SUBSET B /\ B \in SUBSET Nat /\ \A q \in B : q <= last
  <2>1. ASSUME NEW q \in S, q < r PROVE q < last
    BY <1>1, <2>1
  <2>2. ASSUME NEW q \in S, q < last PROVE q <= last
    BY <1>1, <2>2
  <2>3. QED
    BY <2>1, <2>2
<1>3. (Cardinality(A) < BatchSize) => r \in Lowest(S)
  BY DEF Lowest
<1> HIDE DEF A, B
<1>4. IsFiniteSet(B)
  BY <1>1, <1>2, FS_BoundedSetOfNaturals
<1>5. IsFiniteSet(A) /\ Cardinality(A) <= Cardinality(B)
  BY <1>2, <1>4, FS_Subset
<1>6. Cardinality(A) \in Nat
  BY <1>5, FS_CardinalityType
<1>7. Cardinality(B) \in Nat
  BY <1>4, FS_CardinalityType
<1>8. QED
  BY <1>1, <1>3, <1>5, <1>6, <1>7, KeyRotationAssumption

(* A step of an execution that writes nothing leaves the others as they    *)
(* are.                                                                    *)
LEMMA WalkOthers ==
  ASSUME IInv, WalkInv, NEW j \in Job,
         UNCHANGED <<config, keys, rows, dry, disturbed>>,
         \A r \in Row : sealed[r].label = "v2" => sealed'[r].label = "v2",
         \A k \in Job \ {j} : /\ pc'[k] = pc[k] /\ phase'[k] = phase[k]
                              /\ cursor'[k] = cursor[k] /\ batch'[k] = batch[k]
  PROVE  \A k \in Job \ {j} :
           /\ pc'[k] # "rewrap" => DOMAIN batch'[k] = {}
           /\ ~Running(k)' => phase'[k] = File /\ cursor'[k] = 0
           /\ k \notin disturbed' /\ Running(k)' => cursor'[k] \in rows' \cup {0}
           /\ Renews(k)' =>
                \A r \in DOMAIN batch'[k] :
                   batch'[k][r].label = "v2" => sealed'[r].label = "v2"
           /\ k \notin disturbed' /\ Renews(k)' /\ ~dry'[k] =>
                \A r \in rows' : Behind(k, r)' => sealed'[r].label = "v2"
<1> SUFFICES ASSUME NEW k \in Job \ {j}
             PROVE  /\ pc'[k] # "rewrap" => DOMAIN batch'[k] = {}
                    /\ ~Running(k)' => phase'[k] = File /\ cursor'[k] = 0
                    /\ k \notin disturbed' /\ Running(k)' => cursor'[k] \in rows' \cup {0}
                    /\ Renews(k)' =>
                         \A r \in DOMAIN batch'[k] :
                            batch'[k][r].label = "v2" => sealed'[r].label = "v2"
                    /\ k \notin disturbed' /\ Renews(k)' /\ ~dry'[k] =>
                         \A r \in rows' : Behind(k, r)' => sealed'[r].label = "v2"
  OBVIOUS
<1>1. Running(k)' = Running(k) /\ Renews(k)' = Renews(k) /\ \A r : Behind(k, r)' = Behind(k, r)
  BY DEF Running, Renews, Behind
<1>2. rows \subseteq Row /\ DOMAIN batch[k] \subseteq Row
  BY DEF IInv, TypeOK
<1>3. QED
  BY <1>1, <1>2 DEF WalkInv, PlaceInv, CursorInv, BatchInv, BehindInv

(* The execution of the step is left to be looked at.                      *)
LEMMA WalkOne ==
  ASSUME IInv, WalkInv, NEW j \in Job,
         UNCHANGED <<config, keys, rows, dry, disturbed>>,
         \A r \in Row : sealed[r].label = "v2" => sealed'[r].label = "v2",
         \A k \in Job \ {j} : /\ pc'[k] = pc[k] /\ phase'[k] = phase[k]
                              /\ cursor'[k] = cursor[k] /\ batch'[k] = batch[k],
         Renews(j)' => Renews(j),
         pc'[j] # "rewrap" => DOMAIN batch'[j] = {},
         ~Running(j)' => phase'[j] = File /\ cursor'[j] = 0,
         j \notin disturbed /\ Running(j)' => cursor'[j] \in rows \cup {0},
         Renews(j)' => \A r \in DOMAIN batch'[j] :
                          batch'[j][r].label = "v2" => sealed'[r].label = "v2",
         j \notin disturbed /\ Renews(j)' /\ ~dry[j] =>
            \A r \in rows : Behind(j, r)' => sealed'[r].label = "v2"
  PROVE  WalkInv'
<1>1. \A k \in Job : Renews(k)' => Renews(k)
  BY DEF Renews, Running
<1>2. Served => Served'
  BY DEF Served, Up
<1>3. PlaceInv' /\ CursorInv'
  BY WalkOthers DEF PlaceInv, CursorInv
<1>4. ServedInv'
  BY <1>1, <1>2 DEF WalkInv, ServedInv
<1>5. BatchInv'
  BY WalkOthers DEF BatchInv
<1>6. BehindInv'
  BY WalkOthers DEF BehindInv
<1>7. QED
  BY <1>3, <1>4, <1>5, <1>6 DEF WalkInv

(* The next page: what it does not hold was walked, or is not there.       *)
LEMMA WalkRead ==
  ASSUME IInv, WalkInv, NEW j \in Job, Read(j)
  PROVE  WalkInv'
<1>1. PICK page \in Pages(j) :
         \/ /\ page = {} /\ phase[j] = File
            /\ phase' = [phase EXCEPT ![j] = Share]
            /\ cursor' = [cursor EXCEPT ![j] = 0]
            /\ UNCHANGED <<pc, batch>>
         \/ /\ page = {} /\ phase[j] = Share
            /\ End(j, "done")
         \/ /\ page # {}
            /\ batch' = [batch EXCEPT ![j] = [r \in Lowest(page) |-> sealed[r]]]
            /\ \E last \in Lowest(page) :
                 /\ \A r \in Lowest(page) : r <= last
                 /\ cursor' = [cursor EXCEPT ![j] = last]
            /\ Goto(j, "rewrap") /\ UNCHANGED phase
  BY DEF Read
<1>2. pc[j] = "read" /\ UNCHANGED <<config, keys, sealed, rows, dry, disturbed>>
  BY DEF Read, db
<1>3. /\ DOMAIN batch[j] = {} /\ cursor[j] \in Row \cup {0} /\ phase[j] \in {File, Share}
      /\ rows \subseteq Row /\ Running(j) /\ Row \subseteq Nat \ {0}
  BY <1>2, KeyRotationAssumption DEF WalkInv, PlaceInv, IInv, TypeOK, Running, Row
<1>4. page \subseteq rows /\ Lowest(page) \subseteq page
  BY PageType DEF IInv
<1>13. cursor[j] \in Int /\ \A r \in rows : r \in Int
  <2>1. \A r \in Row : r \in Int
    BY KeyRotationAssumption DEF Row
  <2>2. cursor[j] \in Row \/ cursor[j] = 0
    BY <1>3
  <2>3. \A r \in rows : r \in Row
    BY <1>3
  <2>4. QED
    BY <2>1, <2>2, <2>3
<1>5. \A k \in Job \ {j} : /\ pc'[k] = pc[k] /\ phase'[k] = phase[k]
                           /\ cursor'[k] = cursor[k] /\ batch'[k] = batch[k]
  BY <1>1 DEF End, Goto, IInv, TypeOK, SealInv
<1>6. Renews(j)' => Renews(j)
  BY <1>2, <1>3 DEF Renews
<1>7. j \notin disturbed => page = Ahead(j)
  BY <1>3 DEF WalkInv, CursorInv, Pages
<1>8. ASSUME j \notin disturbed, Renews(j), ~dry[j], NEW r \in rows, Behind(j, r)
      PROVE  sealed[r].label = "v2"
  BY <1>8 DEF WalkInv, BehindInv
<1>9. CASE /\ page = {} /\ phase[j] = File
           /\ phase' = [phase EXCEPT ![j] = Share]
           /\ cursor' = [cursor EXCEPT ![j] = 0]
           /\ UNCHANGED <<pc, batch>>
  <2>1. /\ phase'[j] = Share /\ cursor'[j] = 0 /\ pc'[j] = "read" /\ Running(j)'
        /\ DOMAIN batch'[j] = {}
    BY <1>2, <1>3, <1>9 DEF IInv, TypeOK, Running
  <2>2. ASSUME j \notin disturbed, NEW r \in rows, Behind(j, r)' PROVE Behind(j, r)
    <3>1. r \in File
      BY <1>3, <2>1, <2>2 DEF Behind
    <3>2. ~(r > cursor[j])
      BY <1>7, <1>9, <2>2, <3>1 DEF Ahead
    <3>3. r <= cursor[j]
      BY <1>13, <3>2
    <3>4. QED
      BY <1>3, <1>9, <3>1, <3>3 DEF Behind
  <2>3. QED
    BY <1>2, <1>5, <1>6, <1>8, <2>1, <2>2, WalkOne
<1>10. CASE page = {} /\ phase[j] = Share /\ End(j, "done")
  <2>1. /\ phase'[j] = File /\ cursor'[j] = 0 /\ pc'[j] = "done" /\ ~Running(j)'
        /\ DOMAIN batch'[j] = {}
    BY <1>10 DEF End, Goto, NoRows, Running, IInv, TypeOK, SealInv
  <2>2. ASSUME j \notin disturbed, NEW r \in rows PROVE Behind(j, r)
    <3>1. r \in Share => ~(r > cursor[j])
      BY <1>7, <1>10, <2>2 DEF Ahead
    <3>2. QED
      BY <1>3, <1>10, <3>1 DEF Behind, Row
  <2>3. QED
    BY <1>2, <1>5, <1>6, <1>8, <2>1, <2>2, WalkOne
<1>11. CASE /\ page # {}
            /\ batch' = [batch EXCEPT ![j] = [r \in Lowest(page) |-> sealed[r]]]
            /\ \E last \in Lowest(page) :
                 /\ \A r \in Lowest(page) : r <= last
                 /\ cursor' = [cursor EXCEPT ![j] = last]
            /\ Goto(j, "rewrap") /\ UNCHANGED phase
  <2>1. PICK last \in Lowest(page) : cursor' = [cursor EXCEPT ![j] = last]
    BY <1>11
  <2>2. /\ phase'[j] = phase[j] /\ cursor'[j] = last /\ pc'[j] = "rewrap" /\ Running(j)'
        /\ batch'[j] = [r \in Lowest(page) |-> sealed[r]]
    BY <1>11, <2>1 DEF Goto, IInv, TypeOK, Running, SealInv
  <2>3. /\ DOMAIN batch'[j] = Lowest(page)
        /\ \A r \in DOMAIN batch'[j] : batch'[j][r] = sealed[r]
    BY <2>2
  <2>4. page \in SUBSET Nat
    BY <1>3, <1>4
  <2>5. ASSUME j \notin disturbed, NEW r \in rows, Behind(j, r)' PROVE Behind(j, r)
    <3>1. CASE phase[j] = Share /\ r \in File
      BY <3>1 DEF Behind
    <3>2. CASE r \in phase[j] /\ r <= last /\ r \notin Lowest(page)
      <4>1. r \notin page
        BY <2>4, <3>2, PageEnd
      <4>2. ~(r > cursor[j])
        BY <1>7, <2>5, <3>2, <4>1 DEF Ahead
      <4>3. r <= cursor[j]
        BY <1>13, <4>2
      <4>4. QED
        BY <1>3, <3>2, <4>3 DEF Behind
    <3>3. QED
      BY <2>2, <2>3, <2>5, <3>1, <3>2 DEF Behind
  <2>6. QED
    BY <1>2, <1>4, <1>5, <1>6, <1>8, <2>1, <2>2, <2>3, <2>5, WalkOne
<1>12. QED
  BY <1>1, <1>9, <1>10, <1>11

(* An execution cut short is left to be begun again.                       *)
LEMMA WalkAborted ==
  ASSUME IInv, WalkInv, NEW j \in Job, End(j, "aborted"),
         UNCHANGED <<config, keys, sealed, rows, dry, disturbed>>
  PROVE  WalkInv'
<1>1. /\ phase'[j] = File /\ cursor'[j] = 0 /\ pc'[j] = "aborted" /\ ~Running(j)'
      /\ DOMAIN batch'[j] = {} /\ ~Renews(j)'
  BY DEF End, Goto, NoRows, Running, Renews, IInv, TypeOK, SealInv
<1>2. \A k \in Job \ {j} : /\ pc'[k] = pc[k] /\ phase'[k] = phase[k]
                           /\ cursor'[k] = cursor[k] /\ batch'[k] = batch[k]
  BY DEF End, Goto, IInv, TypeOK, SealInv
<1>3. QED
  BY <1>1, <1>2, WalkOne

(* A row of the page: left as it was if it is on the new key, or sealed    *)
(* again under it.                                                         *)
LEMMA WalkRewrap ==
  ASSUME IInv, WalkInv, NEW j \in Job, Rewrap(j)
  PROVE  WalkInv'
<1>1. PICK r \in DOMAIN batch[j] :
         LET old == batch[j][r].label # Current(j)
             Advance == /\ batch' = [batch EXCEPT ![j] = [q \in DOMAIN @ \ {r} |-> @[q]]]
                        /\ Goto(j, IF DOMAIN batch[j] = {r} THEN "read" ELSE "rewrap")
                        /\ UNCHANGED <<phase, cursor>>
         IN
         /\ \A q \in DOMAIN batch[j] : r <= q
         /\ rewrapped' = [rewrapped EXCEPT ![j] = @ \/ old]
         /\ \/ /\ ~old \/ dry[j]
               /\ Advance /\ UNCHANGED sealed
            \/ /\ old /\ ~dry[j] /\ Opens(j, batch[j][r]) /\ r \in rows
               /\ sealed' = [sealed EXCEPT ![r] = Seal(j)]
               /\ Advance
            \/ /\ old /\ ~dry[j] /\ ~(Opens(j, batch[j][r]) /\ r \in rows)
               /\ End(j, "aborted") /\ UNCHANGED sealed
  BY DEF Rewrap
<1> DEFINE old == batch[j][r].label # Current(j)
           Advance == /\ batch' = [batch EXCEPT ![j] = [q \in DOMAIN @ \ {r} |-> @[q]]]
                      /\ Goto(j, IF DOMAIN batch[j] = {r} THEN "read" ELSE "rewrap")
                      /\ UNCHANGED <<phase, cursor>>
<1>2. pc[j] = "rewrap" /\ Running(j) /\ UNCHANGED <<config, keys, rows, dry, disturbed>>
  BY DEF Rewrap, Running
<1>3. CASE End(j, "aborted") /\ sealed' = sealed
  BY <1>2, <1>3, WalkAborted
<1>4. ASSUME Advance,
             \/ (~old \/ dry[j]) /\ sealed' = sealed
             \/ old /\ sealed' = [sealed EXCEPT ![r] = Seal(j)]
      PROVE  WalkInv'
  <2>1. /\ phase'[j] = phase[j] /\ cursor'[j] = cursor[j] /\ Running(j)'
        /\ batch'[j] = [q \in DOMAIN batch[j] \ {r} |-> batch[j][q]]
        /\ pc'[j] \in {"read", "rewrap"} /\ (pc'[j] = "read" => DOMAIN batch[j] = {r})
    BY <1>4 DEF Goto, Running, IInv, TypeOK, SealInv
  <2>2. /\ DOMAIN batch'[j] = DOMAIN batch[j] \ {r}
        /\ \A q \in DOMAIN batch'[j] : batch'[j][q] = batch[j][q]
    BY <2>1
  <2>3. \A k \in Job \ {j} : /\ pc'[k] = pc[k] /\ phase'[k] = phase[k]
                             /\ cursor'[k] = cursor[k] /\ batch'[k] = batch[k]
    BY <1>4 DEF Goto, IInv, TypeOK, SealInv
  <2>4. \A q \in Row : sealed[q].label = "v2" => sealed'[q].label = "v2"
    <3>1. CASE sealed' = sealed
      BY <3>1
    <3>2. CASE sealed' # sealed
      BY <3>2, RewrapWrites DEF IInv, TypeOK
    <3>3. QED
      BY <3>1, <3>2
  <2>5. Renews(j)' => Renews(j)
    BY <1>2 DEF Renews
  <2>6. rows \subseteq Row /\ DOMAIN batch[j] \subseteq Row
    BY DEF IInv, TypeOK
  <2>7. j \notin disturbed => cursor'[j] \in rows \cup {0}
    BY <1>2, <2>1 DEF WalkInv, CursorInv
  <2>8. ASSUME Renews(j)', NEW q \in DOMAIN batch'[j], batch'[j][q].label = "v2"
        PROVE  sealed'[q].label = "v2"
    BY <2>2, <2>4, <2>5, <2>6, <2>8 DEF WalkInv, BatchInv
  <2>9. ASSUME Renews(j), ~dry[j] PROVE sealed'[r].label = "v2"
    <3>1. Current(j) = "v2" /\ Seal(j).label = "v2"
      BY <2>9, RenewsConfig
    <3>2. CASE ~old
      BY <2>4, <2>6, <2>9, <3>1, <3>2 DEF WalkInv, BatchInv
    <3>3. CASE old
      BY <1>4, <2>6, <2>9, <3>1, <3>3 DEF IInv, TypeOK
    <3>4. QED
      BY <3>2, <3>3
  <2>10. ASSUME j \notin disturbed, Renews(j)', ~dry[j], NEW q \in rows, Behind(j, q)'
         PROVE  sealed'[q].label = "v2"
    <3>1. CASE q = r
      BY <2>5, <2>9, <2>10, <3>1
    <3>2. CASE q # r
      <4>1. Behind(j, q)
        BY <2>1, <2>2, <2>10, <3>2 DEF Behind
      <4>2. QED
        BY <2>4, <2>5, <2>6, <2>10, <4>1 DEF WalkInv, BehindInv
    <3>3. QED
      BY <3>1, <3>2
  <2>11. QED
    BY <1>2, <2>1, <2>2, <2>3, <2>4, <2>5, <2>7, <2>8, <2>10, WalkOne
<1>5. QED
  BY <1>1, <1>3, <1>4

LEMMA WalkStep ==
  ASSUME Restarts, IInv, ~Promoted, WalkInv, [Next]_vars
  PROVE  WalkInv'
<1>1. ASSUME NEW j \in Job, Fault(j) PROVE WalkInv'
  BY <1>1, WalkAborted DEF Fault, db
<1>2. CASE UNCHANGED vars
  BY <1>2
     DEF vars, WalkInv, PlaceInv, CursorInv, ServedInv, BatchInv, BehindInv, Renews, Running,
         Behind, Served, Up
<1>3. QED
  BY <1>1, <1>2, WalkService, WalkInsert, WalkDelete, WalkOperator, WalkBegin, WalkRead,
     WalkRewrap DEF Next, JobStep

LEMMA Walked ==
  ASSUME Restarts
  PROVE  Spec => [](Promoted \/ WalkInv)
<1>1. Init => Promoted \/ WalkInv
  BY WalkInit
<1>2. IInv /\ (Promoted \/ WalkInv) /\ [Next]_vars => (Promoted \/ WalkInv)'
  BY WalkStep, PromotedStays
<1>3. QED
  BY <1>1, <1>2, Invariant, PTL DEF Spec

(* Whatever is inserted while it walks, an execution for real that comes   *)
(* to its end with no file deleted under it has renewed every row, if the  *)
(* service was restarted before it (KeyRotationService.rotate).            *)
THEOREM NothingStays ==
  ASSUME Restarts
  PROVE  Spec => []NothingLeft
<1>1. IInv /\ (Promoted \/ WalkInv) => NothingLeft
  <2> SUFFICES ASSUME IInv, WalkInv, NEW j \in Job \ disturbed, pc[j] = "done", ~dry[j],
                      keys[j]["v2"] = config["v2"], ~Promoted, NEW r \in rows
               PROVE  sealed[r].label = Current(j)
    BY DEF NothingLeft
  <2>1. Sound(sealed[r]) /\ Loaded(j) /\ NewKey = config["v2"] /\ Absent \notin Key
    BY KeyRotationAssumption DEF IInv, TypeOK, SealInv, NewKey
  <2>2. CASE keys[j]["v2"] \in Key
    <3>1. Renews(j) /\ Behind(j, r)
      BY <2>2 DEF Renews, Behind
    <3>2. QED
      BY <3>1, RenewsConfig DEF WalkInv, BehindInv
  <2>3. CASE keys[j]["v2"] \notin Key
    <3>1. keys[j]["v2"] = Absent
      BY <2>1, <2>3 DEF Loaded, NoKeys, Label
    <3>2. sealed[r].label = "v1"
      BY <2>1, <2>3 DEF Sound, Sealed, Label
    <3>3. QED
      BY <3>1, <3>2 DEF Current
  <2>4. QED
    BY <2>2, <2>3
<1>2. QED
  BY <1>1, Walked, Invariant, PTL

(* Once the old key has been given up on a report that can be trusted, no  *)
(* row is on it, and no process that writes has only it.                   *)
GivenUpInv ==
    \/ blind \/ config["v1"] = OldKey
    \/ /\ \A i \in Instance : Up(i) => keys[i]["v2"] \in Key \/ (Promoted /\ keys[i] = config)
       /\ \A r \in rows : sealed[r].label = "v2" \/ (Promoted /\ sealed[r].key = config["v1"])

(* A report that can be trusted: every row is on the new key, and so is    *)
(* the service.                                                            *)
LEMMA AppliedAll ==
  ASSUME IInv, WalkInv, NEW j \in Job \ disturbed, Applied(j)
  PROVE  Served /\ \A r \in rows : sealed[r].label = "v2"
<1>1. Renews(j) /\ \A r \in rows : Behind(j, r)
  BY DEF Applied, Renews, Behind
<1>2. QED
  BY <1>1 DEF WalkInv, ServedInv, BehindInv, Applied

LEMMA GivenUpStep ==
  ASSUME IInv, Promoted \/ WalkInv, GivenUpInv, [Next]_vars
  PROVE  GivenUpInv'
<1>0. Instance \cap Job = {} /\ Absent \notin Key /\ OldKey \in Key
  BY KeyRotationAssumption
<1>1. CASE RemoveV1 \/ PromoteV2
  <2>1. UNCHANGED <<keys, db>> /\ WalkInv
    BY <1>1, GivenUp DEF RemoveV1, PromoteV2, IInv
  <2>2. PICK j \in Job : Applied(j) /\ (j \in disturbed => blind')
    BY <1>1 DEF RemoveV1, PromoteV2, Trusted
  <2>3. CASE j \in disturbed
    BY <2>2, <2>3 DEF GivenUpInv
  <2>4. CASE j \notin disturbed
    BY <2>1, <2>2, <2>4, AppliedAll DEF GivenUpInv, Served, Up, db
  <2>5. QED
    BY <2>3, <2>4
<1>2. CASE AddV2
  BY <1>2, AddedV2 DEF AddV2, GivenUpInv, TypeOK, IInv, Label
<1>3. CASE ~(AddV2 \/ RemoveV1 \/ PromoteV2)
  <2> SUFFICES ASSUME ~blind, config["v1"] # OldKey PROVE GivenUpInv'
    <3>1. config' = config /\ blind' = blind
      BY <1>3 DEF Next, vars, JobStep, Start, Stop, Insert, Delete, Begin, Read, Rewrap, Fault
    <3>2. QED
      BY <3>1 DEF GivenUpInv
  <2>1. config' = config /\ Promoted' = Promoted
    BY <1>3
       DEF Next, vars, JobStep, Start, Stop, Insert, Delete, Begin, Read, Rewrap, Fault, Promoted
  <2>2. ASSUME NEW i \in Instance, Start(i) PROVE GivenUpInv'
    <3>1. Promoted
      BY <1>0, <2>2 DEF Start, Contract, Promoted
    <3>2. keys' = [keys EXCEPT ![i] = config] /\ rows' = rows /\ sealed' = sealed
      BY <2>2 DEF Start, Load, db
    <3>3. QED
      BY <2>1, <3>1, <3>2 DEF GivenUpInv, Up, IInv, TypeOK
  <2>3. ASSUME NEW i \in Instance, Stop(i) PROVE GivenUpInv'
    BY <2>1, <2>3 DEF Stop, GivenUpInv, Up, IInv, TypeOK, db
  <2>4. ASSUME NEW i \in Instance, Insert(i) PROVE GivenUpInv'
    <3>1. PICK r \in unborn : rows' = rows \cup {r} /\ sealed' = [sealed EXCEPT ![r] = Seal(i)]
      BY <2>4 DEF Insert
    <3>2. Seal(i).label = "v2" \/ (Promoted /\ Seal(i).key = config["v1"])
      <4>1. CASE keys[i]["v2"] \in Key
        BY <1>0, <4>1 DEF Seal, Current
      <4>2. CASE Promoted /\ keys[i] = config
        BY <1>0, <4>2 DEF Seal, Current, IInv, SealInv, ConfigInv
      <4>3. QED
        BY <2>4, <4>1, <4>2 DEF GivenUpInv, Insert
    <3>3. keys' = keys /\ r \in Row /\ rows \subseteq Row
      BY <2>4 DEF Insert, IInv, TypeOK
    <3>4. \A q \in rows' : sealed'[q] = IF q = r THEN Seal(i) ELSE sealed[q]
      BY <3>1, <3>3 DEF IInv, TypeOK
    <3>5. QED
      BY <2>1, <3>1, <3>2, <3>3, <3>4 DEF GivenUpInv, Up
  <2>5. ASSUME NEW f \in File, Delete(f) PROVE GivenUpInv'
    BY <2>1, <2>5 DEF Delete, GivenUpInv, Up
  <2>6. ASSUME NEW j \in Job, Begin(j) PROVE GivenUpInv'
    <3>1. rows' = rows /\ sealed' = sealed /\ \A i \in Instance : keys'[i] = keys[i]
      BY <1>0, <2>6 DEF Begin, IInv, TypeOK, db
    <3>2. QED
      BY <2>1, <3>1 DEF GivenUpInv, Up
  <2>7. ASSUME NEW j \in Job, Read(j) \/ Fault(j) PROVE GivenUpInv'
    BY <2>1, <2>7 DEF Read, Fault, GivenUpInv, Up, db
  <2>8. ASSUME NEW j \in Job, Rewrap(j) PROVE GivenUpInv'
    <3>1. keys' = keys /\ rows' = rows /\ rows \subseteq Row
      BY <2>8 DEF Rewrap, IInv, TypeOK
    <3>2. \A r \in rows : sealed'[r] = sealed[r] \/ sealed'[r].label = "v2"
      <4>1. CASE sealed' = sealed
        BY <4>1
      <4>2. CASE sealed' # sealed
        BY <2>8, <3>1, <4>2, RewrapWrites DEF IInv, TypeOK
      <4>3. QED
        BY <4>1, <4>2
    <3>3. QED
      BY <2>1, <3>1, <3>2 DEF GivenUpInv, Up
  <2>9. CASE UNCHANGED vars
    BY <2>1, <2>9 DEF vars, GivenUpInv, Up
  <2>10. QED
    BY <1>3, <2>2, <2>3, <2>4, <2>5, <2>6, <2>7, <2>8, <2>9 DEF Next, JobStep
<1>4. QED
  BY <1>1, <1>2, <1>3

(* However many executions overlap, fail or begin again, and when the old  *)
(* key is taken out on the word of the command, the configuration holds    *)
(* the key of every row; reservations aside, also when V2 becomes V1       *)
(* (KeyRotationService.rotate, rotate-keys.ts, services restarted before). *)
THEOREM KeysAlwaysSuffice ==
  ASSUME Restarts
  PROVE  Spec => []KeysSuffice
<1>1. Init => GivenUpInv
  BY DEF Init, GivenUpInv, Label
<1>2. IInv /\ (Promoted \/ WalkInv) /\ GivenUpInv /\ [Next]_vars => GivenUpInv'
  BY GivenUpStep
<1>3. IInv /\ GivenUpInv => KeysSuffice
  <2> SUFFICES ASSUME IInv, GivenUpInv, ~blind, NEW r \in rows,
                      ~(Promoted /\ sealed[r].label = "v2")
               PROVE  config[sealed[r].label] = sealed[r].key
    BY DEF KeysSuffice
  <2>1. Sound(sealed[r]) /\ sealed[r].label \in {"v1", "v2"}
    BY DEF IInv, SealInv, TypeOK, Sound, Sealed, Label
  <2>2. CASE Promoted
    BY <2>1, <2>2 DEF GivenUpInv, Promoted
  <2>3. CASE ~Promoted
    BY <2>1, <2>3 DEF Sound, NewKey, GivenUpInv, Promoted
  <2>4. QED
    BY <2>2, <2>3
<1>4. QED
  BY <1>1, <1>2, <1>3, Walked, Invariant, PTL DEF Spec
=============================================================================
