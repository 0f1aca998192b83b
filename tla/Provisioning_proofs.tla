------------------------- MODULE Provisioning_proofs -------------------------
(***************************************************************************)
(* Proofs about Provisioning, for every number of instances, names,         *)
(* creations and ports: a deleted environment stays deleted, and two rows   *)
(* share a port only if their creations raced.                              *)
(*                                                                          *)
(* PortsDifferUnlessRaced is not inductive: RowInv adds what a creation     *)
(* knows on its way from the used ports to its row.                         *)
(***************************************************************************)
EXTENDS Provisioning, TLAPS

RowTypes ==
    /\ env \in BOOLEAN /\ profile \in BOOLEAN
    /\ rows \in [Instances -> Row \cup {None, Gone}]
    /\ create \in [Creators -> Create]

\* A creation that has not inserted yet has an id without a row.
Fresh ==
    \A c \in Creators :
        create[c].pc \in {"ports", "probe", "clone", "insert"} =>
            create[c].ins \in Instances /\ rows[create[c].ins] = None

OwnIds ==
    \A c, d \in Creators :
        c # d /\ create[c].ins # None => create[c].ins # create[d].ins

\* What a creation saw had a row, and while it has one its port is used.
SawUsed ==
    \A c \in Creators :
        create[c].pc \in {"probe", "clone", "insert"} =>
            \A i \in create[c].saw :
                rows[i] # None /\ (i \in Present => rows[i].port \in create[c].used)

Chosen ==
    \A c \in Creators :
        create[c].pc \in {"clone", "insert"} =>
            create[c].port \in Ports \ create[c].used

\* What a row remembers was inserted before it.
History == \A j \in Present : \A k \in rows[j].after : rows[k] # None

RowInv == Fresh /\ OwnIds /\ SawUsed /\ Chosen /\ History /\ PortsDifferUnlessRaced

IInv == RowTypes /\ RowInv /\ GoneForGood

-----------------------------------------------------------------------------
LEMMA InitIInv == ProvisioningAssumption /\ Init => IInv
<1> SUFFICES ASSUME ProvisioningAssumption, Init PROVE IInv
  OBVIOUS
<1>1. NotCreating \in Create /\ NotCreating.pc = "idle" /\ NotCreating.ins = None
  BY DEF NotCreating, Create
<1>2. Present = {}
  BY DEF Init, Present
<1>3. RowTypes
  BY <1>1 DEF Init, RowTypes
<1>4. \A c \in Creators : create[c] = NotCreating
  BY DEF Init
<1>5. RowInv
  BY <1>1, <1>2, <1>4 DEF RowInv, Fresh, OwnIds, SawUsed, Chosen, History, PortsDifferUnlessRaced
<1>6. GoneForGood
  BY DEF Init, GoneForGood
<1> QED BY <1>3, <1>5, <1>6 DEF IInv

\* A step that inserts no row, keeps the port and the memory of each row and
\* moves creations only past their insertion keeps the invariant.
LEMMA NoInsertKeeps ==
  ASSUME RowInv, RowTypes, RowTypes',
         \A i \in Instances : rows'[i] = None <=> rows[i] = None,
         \A i \in Present' :
            /\ i \in Present
            /\ rows'[i].port = rows[i].port /\ rows'[i].after = rows[i].after,
         \A c \in Creators :
            \/ create'[c] = create[c]
            \/ /\ create'[c].pc \in {"idle", "spawn", "ready"}
               /\ create'[c].ins \in {None, create[c].ins}
  PROVE  RowInv'
<1> USE DEF RowInv
<1>1. Fresh'
  BY DEF Fresh
<1>2. OwnIds'
  BY DEF OwnIds
<1>3. SawUsed'
  <2> SUFFICES ASSUME NEW c \in Creators, create'[c].pc \in {"probe", "clone", "insert"},
                      NEW i \in create'[c].saw
               PROVE  rows'[i] # None /\ (i \in Present' => rows'[i].port \in create'[c].used)
    BY DEF SawUsed
  <2>1. create'[c] = create[c]
    OBVIOUS
  <2>2. create[c] \in Create
    BY DEF RowTypes
  <2>3. i \in Instances
    BY <2>1, <2>2 DEF Create
  <2> QED BY <2>1, <2>3 DEF SawUsed
<1>4. Chosen'
  BY DEF Chosen
<1>5. History'
  <2> SUFFICES ASSUME NEW j \in Present', NEW k \in rows'[j].after PROVE rows'[k] # None
    BY DEF History
  <2>1. rows[j] \in Row /\ k \in rows[j].after
    BY DEF Present, RowTypes
  <2>2. k \in Instances
    BY <2>1 DEF Row
  <2> QED BY <2>1, <2>2 DEF History
<1>6. PortsDifferUnlessRaced'
  BY DEF PortsDifferUnlessRaced
<1> QED BY <1>1, <1>2, <1>3, <1>4, <1>5, <1>6

\* Its place apart, a creation that has not inserted keeps what it knows.
LEMMA QuietKeeps ==
  ASSUME IInv, UNCHANGED <<env, profile, rows, create>>
  PROVE  IInv'
<1> USE DEF IInv
<1>1. RowTypes' /\ Present' = Present
  BY DEF RowTypes, Present
<1>2. RowInv'
  BY <1>1, NoInsertKeeps
<1>3. GoneForGood'
  BY <1>1 DEF GoneForGood
<1> QED BY <1>1, <1>2, <1>3

-----------------------------------------------------------------------------
(* create.                                                                  *)

LEMMA SetStatusKeeps ==
  ASSUME ProvisioningAssumption, RowTypes, NEW i \in Instances,
         NEW s \in {"starting", "running", "stopped"}, rows' = SetStatus(i, s)
  PROVE  /\ rows' \in [Instances -> Row \cup {None, Gone}]
         /\ \A j \in Instances : rows'[j] = None <=> rows[j] = None
         /\ Present' = Present
         /\ \A j \in Present :
               rows'[j].port = rows[j].port /\ rows'[j].after = rows[j].after
<1>1. CASE i \notin Present
  BY <1>1 DEF SetStatus, RowTypes, Present
<1>2. CASE i \in Present
  <2>1. rows[i] \in Row
    BY <1>2 DEF RowTypes, Present
  <2> DEFINE r == [rows[i] EXCEPT !.status = s]
  <2>2. r \in Row /\ r.port = rows[i].port /\ r.after = rows[i].after
    BY <2>1 DEF Row
  <2>3. rows' = [rows EXCEPT ![i] = r]
    BY <1>2 DEF SetStatus
  <2>4. r # None /\ r # Gone
    BY <2>2 DEF ProvisioningAssumption
  <2> HIDE DEF r
  <2>5. rows'[i] = r /\ \A j \in Instances \ {i} : rows'[j] = rows[j]
    BY <2>3 DEF RowTypes
  <2>6. rows' \in [Instances -> Row \cup {None, Gone}]
    BY <2>2, <2>3 DEF RowTypes
  <2>7. Present' = Present
    BY <1>2, <2>4, <2>5 DEF Present
  <2>8. \A j \in Instances : rows'[j] = None <=> rows[j] = None
    BY <1>2, <2>4, <2>5 DEF Present
  <2>9. \A j \in Present : rows'[j].port = rows[j].port /\ rows'[j].after = rows[j].after
    BY <2>2, <2>5 DEF Present
  <2> QED BY <2>6, <2>7, <2>8, <2>9
<1> QED BY <1>1, <1>2

LEMMA CreateTypes ==
  /\ NotCreating \in Create /\ NotCreating.pc = "idle" /\ NotCreating.ins = None
  BY DEF NotCreating, Create

\* A creation ends, or goes on past its insertion.
LEMMA PastInsertKeeps ==
  ASSUME IInv, NEW c \in Creators, RowTypes',
         \/ create' = create
         \/ CreateEnds(c)
         \/ \E pc \in {"spawn", "ready"} : create' = [create EXCEPT ![c].pc = pc],
         \A i \in Instances : rows'[i] = None <=> rows[i] = None,
         \A i \in Present' :
            /\ i \in Present
            /\ rows'[i].port = rows[i].port /\ rows'[i].after = rows[i].after
  PROVE  RowInv'
<1>1. \A d \in Creators : create[d] \in Create
  BY DEF IInv, RowTypes
<1>2. \A d \in Creators :
        \/ create'[d] = create[d]
        \/ /\ create'[d].pc \in {"idle", "spawn", "ready"}
           /\ create'[d].ins \in {None, create[d].ins}
  BY <1>1, CreateTypes DEF IInv, RowTypes, CreateEnds, Create
<1> QED BY <1>2, NoInsertKeeps DEF IInv

LEMMA CreateEndsTypes ==
  ASSUME RowTypes, NEW c \in Creators, CreateEnds(c)
  PROVE  create' \in [Creators -> Create]
  BY CreateTypes DEF RowTypes, CreateEnds

LEMMA BeginCreateKeeps ==
  ASSUME IInv, NEW c \in Creators, NEW i \in Instances, NEW n \in Names \cup {None},
         BeginCreate(c, i, n)
  PROVE  IInv'
<1> USE DEF IInv, RowInv
<1> DEFINE new == [NotCreating EXCEPT !.pc = "ports", !.ins = i, !.name = n]
<1>1. new \in Create /\ new.pc = "ports" /\ new.ins = i
  BY DEF NotCreating, Create
<1>2. create' = [create EXCEPT ![c] = new] /\ UNCHANGED <<env, profile, rows>>
  BY DEF BeginCreate
<1> HIDE DEF new
<1>3. RowTypes'
  BY <1>1, <1>2 DEF RowTypes
<1>4. create'[c] = new /\ \A d \in Creators \ {c} : create'[d] = create[d]
  BY <1>2 DEF RowTypes
<1>5. Present' = Present
  BY <1>2 DEF Present
<1>6. rows[i] = None /\ \A d \in Creators : create[d].ins # i
  BY DEF BeginCreate
<1>7. Fresh'
  BY <1>1, <1>2, <1>4, <1>6 DEF Fresh
<1>8. OwnIds'
  BY <1>1, <1>4, <1>6 DEF OwnIds
<1>9. SawUsed'
  BY <1>1, <1>2, <1>4, <1>5 DEF SawUsed
<1>10. Chosen'
  BY <1>1, <1>4 DEF Chosen
<1>11. History' /\ PortsDifferUnlessRaced' /\ GoneForGood'
  BY <1>2, <1>5 DEF History, PortsDifferUnlessRaced, GoneForGood
<1> QED BY <1>3, <1>7, <1>8, <1>9, <1>10, <1>11

LEMMA ReadPortsKeeps ==
  ASSUME IInv, NEW c \in Creators, ReadPorts(c)
  PROVE  IInv'
<1> USE DEF IInv, RowInv
<1> DEFINE new == [create[c] EXCEPT !.pc = "probe", !.used = UsedPorts, !.saw = Present]
<1>1. create[c] \in Create
  BY DEF RowTypes
<1>2. \A j \in Present : rows[j] \in Row /\ rows[j] # None
  BY DEF RowTypes, Present
<1>3. UsedPorts \subseteq Ports /\ Present \subseteq Instances
  BY <1>2 DEF UsedPorts, Row, Present
<1>4. /\ new \in Create /\ new.pc = "probe" /\ new.ins = create[c].ins
      /\ new.used = UsedPorts /\ new.saw = Present
  BY <1>1, <1>3 DEF Create
<1>5. create' = [create EXCEPT ![c] = new] /\ UNCHANGED <<env, profile, rows>>
  BY DEF ReadPorts
<1> HIDE DEF new
<1>6. RowTypes'
  BY <1>4, <1>5 DEF RowTypes
<1>7. create'[c] = new /\ \A d \in Creators \ {c} : create'[d] = create[d]
  BY <1>5 DEF RowTypes
<1>8. Present' = Present
  BY <1>5 DEF Present
<1>9. create[c].pc = "ports"
  BY DEF ReadPorts
<1>10. Fresh'
  BY <1>4, <1>5, <1>7, <1>9 DEF Fresh
<1>11. OwnIds'
  BY <1>4, <1>7 DEF OwnIds
<1>12. \A j \in Present : rows[j].port \in UsedPorts
  BY DEF UsedPorts
<1>13. SawUsed'
  BY <1>2, <1>4, <1>5, <1>7, <1>8, <1>12 DEF SawUsed
<1>14. Chosen'
  BY <1>4, <1>7 DEF Chosen
<1>15. History' /\ PortsDifferUnlessRaced' /\ GoneForGood'
  BY <1>5, <1>8 DEF History, PortsDifferUnlessRaced, GoneForGood
<1> QED BY <1>6, <1>10, <1>11, <1>13, <1>14, <1>15

LEMMA ProbeKeeps ==
  ASSUME IInv, NEW c \in Creators, Probe(c)
  PROVE  IInv'
<1> USE DEF IInv, RowInv
<1>1. CASE CreateEnds(c)
  <2>1. UNCHANGED <<env, profile, rows>> /\ RowTypes' /\ Present' = Present
    BY <1>1, CreateEndsTypes DEF Probe, RowTypes, Present
  <2>2. RowInv'
    BY <1>1, <2>1, PastInsertKeeps
  <2> QED BY <2>1, <2>2 DEF GoneForGood
<1>2. ASSUME NEW p \in Usable(c),
             create' = [create EXCEPT ![c].pc = "clone", ![c].port = p]
      PROVE  IInv'
  <2> DEFINE new == [create[c] EXCEPT !.pc = "clone", !.port = p]
  <2>1. create[c] \in Create /\ p \in Ports \ create[c].used
    BY DEF RowTypes, Usable
  <2>2. /\ new \in Create /\ new.pc = "clone" /\ new.ins = create[c].ins
        /\ new.used = create[c].used /\ new.saw = create[c].saw /\ new.port = p
    BY <2>1 DEF Create
  <2>3. create' = [create EXCEPT ![c] = new] /\ UNCHANGED <<env, profile, rows>>
    BY <1>2 DEF Probe
  <2> HIDE DEF new
  <2>4. RowTypes'
    BY <2>2, <2>3 DEF RowTypes
  <2>5. create'[c] = new /\ \A d \in Creators \ {c} : create'[d] = create[d]
    BY <2>3 DEF RowTypes
  <2>6. Present' = Present /\ create[c].pc = "probe"
    BY <2>3 DEF Present, Probe
  <2>7. Fresh'
    BY <2>2, <2>3, <2>5, <2>6 DEF Fresh
  <2>8. OwnIds'
    BY <2>2, <2>5 DEF OwnIds
  <2>9. SawUsed'
    BY <2>2, <2>3, <2>5, <2>6 DEF SawUsed
  <2>10. Chosen'
    BY <2>1, <2>2, <2>5 DEF Chosen
  <2>11. History' /\ PortsDifferUnlessRaced' /\ GoneForGood'
    BY <2>3, <2>6 DEF History, PortsDifferUnlessRaced, GoneForGood
  <2> QED BY <2>4, <2>7, <2>8, <2>9, <2>10, <2>11
<1> QED BY <1>1, <1>2 DEF Probe

LEMMA CloneProfileKeeps ==
  ASSUME IInv, NEW c \in Creators, CloneProfile(c)
  PROVE  IInv'
<1> USE DEF IInv, RowInv
<1>0. PICK was \in {FALSE, profile} :
         create' = [create EXCEPT ![c].pc = "insert", ![c].cloned = was]
  BY DEF CloneProfile
<1> DEFINE new == [create[c] EXCEPT !.pc = "insert", !.cloned = was]
<1>1. create[c] \in Create /\ was \in BOOLEAN
  BY <1>0 DEF RowTypes
<1>2. /\ new \in Create /\ new.pc = "insert" /\ new.ins = create[c].ins
      /\ new.used = create[c].used /\ new.saw = create[c].saw /\ new.port = create[c].port
  BY <1>1 DEF Create
<1>3. create' = [create EXCEPT ![c] = new] /\ UNCHANGED <<env, profile, rows>>
  BY <1>0 DEF CloneProfile
<1> HIDE DEF new
<1>4. RowTypes'
  BY <1>2, <1>3 DEF RowTypes
<1>5. create'[c] = new /\ \A d \in Creators \ {c} : create'[d] = create[d]
  BY <1>3 DEF RowTypes
<1>6. Present' = Present /\ create[c].pc = "clone"
  BY <1>3 DEF Present, CloneProfile
<1>7. Fresh'
  BY <1>2, <1>3, <1>5, <1>6 DEF Fresh
<1>8. OwnIds'
  BY <1>2, <1>5 DEF OwnIds
<1>9. SawUsed'
  BY <1>2, <1>3, <1>5, <1>6 DEF SawUsed
<1>10. Chosen'
  BY <1>2, <1>5, <1>6 DEF Chosen
<1>11. History' /\ PortsDifferUnlessRaced' /\ GoneForGood'
  BY <1>3, <1>6 DEF History, PortsDifferUnlessRaced, GoneForGood
<1> QED BY <1>4, <1>7, <1>8, <1>9, <1>10, <1>11

\* The row that is inserted: nobody remembers it, and no row its creation saw
\* has its port.
LEMMA InsertKeeps ==
  ASSUME ProvisioningAssumption, IInv, NEW c \in Creators, Insert(c)
  PROVE  IInv'
<1> USE DEF IInv, RowInv
<1> DEFINE i == create[c].ins
           r == [name |-> create[c].name, port |-> create[c].port, status |-> "starting",
                 cloned |-> create[c].cloned, after |-> create[c].saw]
<1>1. CASE CreateEnds(c) /\ UNCHANGED rows
  <2>1. UNCHANGED <<env, profile, rows>> /\ RowTypes' /\ Present' = Present
    BY <1>1, CreateEndsTypes DEF Insert, RowTypes, Present
  <2>2. RowInv'
    BY <1>1, <2>1, PastInsertKeeps
  <2> QED BY <2>1, <2>2 DEF GoneForGood
<1>2. CASE KeysHold(c) /\ rows' = [rows EXCEPT ![i] = r]
           /\ create' = [create EXCEPT ![c].pc = "spawn"]
  <2>1. create[c].pc = "insert" /\ UNCHANGED <<env, profile>> /\ env
    BY <1>2 DEF Insert, KeysHold
  <2>2. create[c] \in Create /\ i \in Instances /\ rows[i] = None
    BY <2>1 DEF RowTypes, Fresh
  <2>3. create[c].port \in Ports \ create[c].used
    BY <2>1 DEF Chosen
  <2>4. r \in Row /\ r.port = create[c].port /\ r.after = create[c].saw
    BY <2>2, <2>3 DEF Create, Row
  <2>5. r # None /\ r # Gone
    BY <2>4 DEF ProvisioningAssumption
  <2> DEFINE new == [create[c] EXCEPT !.pc = "spawn"]
  <2>6. new \in Create /\ new.pc = "spawn" /\ new.ins = i
    BY <2>2 DEF Create
  <2>7. create' = [create EXCEPT ![c] = new]
    BY <1>2
  <2> HIDE DEF r, new
  <2>8. rows'[i] = r /\ \A j \in Instances \ {i} : rows'[j] = rows[j]
    BY <1>2, <2>2 DEF RowTypes
  <2>9. create'[c] = new /\ \A d \in Creators \ {c} : create'[d] = create[d]
    BY <2>7 DEF RowTypes
  <2>10. RowTypes'
    BY <1>2, <2>1, <2>4, <2>6, <2>7 DEF RowTypes
  <2>11. Present' = Present \cup {i} /\ i \notin Present
    BY <2>2, <2>5, <2>8 DEF Present
  <2>12. \A d \in Creators \ {c} : create[d].ins # i
    <3>1. i # None
      BY <2>2 DEF ProvisioningAssumption
    <3> QED BY <3>1 DEF OwnIds
  <2>13. Fresh'
    BY <2>6, <2>8, <2>9, <2>12 DEF Fresh
  <2>14. OwnIds'
    BY <2>6, <2>9 DEF OwnIds
  <2>15. SawUsed'
    <3> SUFFICES ASSUME NEW d \in Creators, create'[d].pc \in {"probe", "clone", "insert"},
                        NEW k \in create'[d].saw
                 PROVE  rows'[k] # None /\ (k \in Present' => rows'[k].port \in create'[d].used)
      BY DEF SawUsed
    <3>1. d # c /\ create'[d] = create[d]
      BY <2>6, <2>9
    <3>2. rows[k] # None /\ (k \in Present => rows[k].port \in create[d].used)
      BY <3>1 DEF SawUsed
    <3>3. k \in Instances
      BY <3>1 DEF RowTypes, Create
    <3>4. k # i
      BY <2>2, <3>2
    <3> QED BY <2>8, <2>11, <3>1, <3>2, <3>3, <3>4
  <2>16. Chosen'
    BY <2>6, <2>9 DEF Chosen
  <2>17. \A k \in create[c].saw :
            k \in Instances /\ rows[k] # None /\ (k \in Present => rows[k].port # r.port)
    BY <2>1, <2>2, <2>3, <2>4 DEF SawUsed, Create
  <2>18. History'
    <3> SUFFICES ASSUME NEW j \in Present', NEW k \in rows'[j].after PROVE rows'[k] # None
      BY DEF History
    <3>1. CASE j = i
      BY <2>2, <2>4, <2>8, <2>17, <3>1
    <3>2. CASE j # i
      <4>1. j \in Present /\ rows'[j] = rows[j]
        BY <2>8, <2>11, <3>2 DEF Present
      <4>2. rows[k] # None /\ k \in Instances
        BY <4>1 DEF History, RowTypes, Present, Row
      <4> QED BY <2>2, <2>8, <4>2
    <3> QED BY <3>1, <3>2
  <2>19. PortsDifferUnlessRaced'
    <3>1. \A j \in Present : j # i /\ rows'[j] = rows[j] /\ i \notin rows[j].after
      BY <2>2, <2>8, <2>11 DEF History, Present
    <3>2. \A j \in Present : rows[j].port = r.port => j \notin r.after
      BY <2>4, <2>17
    <3> QED BY <2>8, <2>11, <3>1, <3>2 DEF PortsDifferUnlessRaced
  <2>20. GoneForGood'
    BY <2>1 DEF GoneForGood
  <2> QED BY <2>10, <2>13, <2>14, <2>15, <2>16, <2>18, <2>19, <2>20
<1> QED BY <1>1, <1>2 DEF Insert

LEMMA SpawnKeeps ==
  ASSUME ProvisioningAssumption, IInv, NEW c \in Creators, Spawn(c)
  PROVE  IInv'
<1> USE DEF IInv
<1>1. UNCHANGED <<env, profile>> /\ create[c] \in Create
  BY DEF Spawn, RowTypes
<1>2. CASE UNCHANGED rows /\ create' = [create EXCEPT ![c].pc = "ready"]
  <2>1. [create[c] EXCEPT !.pc = "ready"] \in Create
    BY <1>1 DEF Create
  <2>2. RowTypes' /\ Present' = Present
    BY <1>1, <1>2, <2>1 DEF RowTypes, Present
  <2>3. RowInv'
    BY <1>2, <2>2, PastInsertKeeps
  <2> QED BY <1>1, <2>2, <2>3 DEF GoneForGood
<1>3. CASE rows' = SetStatus(create[c].ins, "stopped") /\ CreateEnds(c)
  <2>1. CASE create[c].ins \in Instances
    <3>1. RowTypes'
      BY <1>1, <1>3, <2>1, CreateEndsTypes, SetStatusKeeps DEF RowTypes
    <3>2. RowInv' /\ Present' = Present
      BY <1>3, <2>1, <3>1, SetStatusKeeps, PastInsertKeeps
    <3> QED BY <1>1, <3>1, <3>2 DEF GoneForGood
  <2>2. CASE create[c].ins \notin Instances
    <3>1. UNCHANGED rows
      BY <1>3, <2>2 DEF SetStatus, Present
    <3>2. RowTypes' /\ Present' = Present
      BY <1>1, <1>3, <3>1, CreateEndsTypes DEF RowTypes, Present
    <3>3. RowInv'
      BY <1>3, <3>1, <3>2, PastInsertKeeps
    <3> QED BY <1>1, <3>2, <3>3 DEF GoneForGood
  <2> QED BY <2>1, <2>2
<1> QED BY <1>2, <1>3 DEF Spawn

LEMMA ReadyKeeps ==
  ASSUME ProvisioningAssumption, IInv, NEW c \in Creators, Ready(c)
  PROVE  IInv'
<1> USE DEF IInv
<1>1. UNCHANGED <<env, profile>> /\ CreateEnds(c) /\ rows' = SetStatus(create[c].ins, "running")
  BY DEF Ready
<1>2. CASE create[c].ins \in Instances
  <2>1. RowTypes'
    BY <1>1, <1>2, CreateEndsTypes, SetStatusKeeps DEF RowTypes
  <2>2. RowInv' /\ Present' = Present
    BY <1>1, <1>2, <2>1, SetStatusKeeps, PastInsertKeeps
  <2> QED BY <1>1, <2>1, <2>2 DEF GoneForGood
<1>3. CASE create[c].ins \notin Instances
  <2>1. UNCHANGED rows
    BY <1>1, <1>3 DEF SetStatus, Present
  <2>2. RowTypes' /\ Present' = Present
    BY <1>1, <2>1, CreateEndsTypes DEF RowTypes, Present
  <2>3. RowInv'
    BY <1>1, <2>1, <2>2, PastInsertKeeps
  <2> QED BY <1>1, <2>2, <2>3 DEF GoneForGood
<1> QED BY <1>2, <1>3

-----------------------------------------------------------------------------
(* The life of an instance, and the deletion.                               *)

LEMMA LifeKeeps ==
  ASSUME ProvisioningAssumption, IInv, NEW i \in Instances, Stop(i) \/ Start(i)
  PROVE  IInv'
<1> USE DEF IInv
<1>1. /\ UNCHANGED <<env, profile, create>>
      /\ rows' = SetStatus(i, "stopped") \/ rows' = SetStatus(i, "running")
  BY DEF Stop, Start
<1>2. RowTypes' /\ Present' = Present
  BY <1>1, SetStatusKeeps DEF RowTypes
<1>3. RowInv'
  <2>1. /\ \A j \in Instances : rows'[j] = None <=> rows[j] = None
        /\ \A j \in Present : rows'[j].port = rows[j].port /\ rows'[j].after = rows[j].after
    BY <1>1, SetStatusKeeps
  <2> QED BY <1>1, <1>2, <2>1, NoInsertKeeps
<1> QED BY <1>1, <1>2, <1>3 DEF GoneForGood

\* Rows that go leave no row where none was.
LEMMA RowsGoKeeps ==
  ASSUME ProvisioningAssumption, IInv, NEW S \in SUBSET Present,
         rows' = [i \in Instances |-> IF i \in S THEN Gone ELSE rows[i]],
         UNCHANGED <<env, profile, create>>
  PROVE  IInv'
<1> USE DEF IInv
<1>1. RowTypes'
  BY DEF RowTypes
<1>2. Present' = Present \ S
  BY DEF Present
<1>3. \A i \in Instances : rows'[i] = None <=> rows[i] = None
  BY DEF Present, ProvisioningAssumption
<1>4. \A i \in Present' : i \in Present /\ rows'[i] = rows[i]
  BY <1>2 DEF Present
<1>5. RowInv'
  BY <1>1, <1>3, <1>4, NoInsertKeeps
<1> QED BY <1>1, <1>2, <1>5 DEF GoneForGood

LEMMA DeleteInstanceKeeps ==
  ASSUME ProvisioningAssumption, IInv, NEW i \in Instances, DeleteInstance(i)
  PROVE  IInv'
<1>1. i \in Present /\ UNCHANGED <<env, profile, create>>
  BY DEF DeleteInstance
<1>2. rows' = [j \in Instances |-> IF j \in {i} THEN Gone ELSE rows[j]]
  BY DEF DeleteInstance, IInv, RowTypes
<1>3. {i} \in SUBSET Present
  BY <1>1
<1> QED BY <1>1, <1>2, <1>3, RowsGoKeeps

LEMMA DeleteRowsKeeps ==
  ASSUME ProvisioningAssumption, IInv, DeleteRows
  PROVE  IInv'
  BY RowsGoKeeps DEF DeleteRows

\* The rows of the environment and of its profile: the profile needs the
\* environment, which goes only when nothing refers to it.
LEMMA EnvKeeps ==
  ASSUME IInv, ViewProfile \/ DeleteProfile \/ DeleteEnv
  PROVE  IInv'
<1> USE DEF IInv
<1>1. UNCHANGED <<rows, create>> /\ env' \in BOOLEAN /\ profile' \in BOOLEAN
  BY DEF ViewProfile, DeleteProfile, DeleteEnv, RowTypes
<1>2. RowTypes' /\ Present' = Present
  BY <1>1 DEF RowTypes, Present
<1>3. RowInv'
  BY <1>1, <1>2, NoInsertKeeps
<1>4. GoneForGood'
  <2>1. CASE ViewProfile
    BY <2>1 DEF ViewProfile, GoneForGood
  <2>2. CASE DeleteProfile
    BY <1>2, <2>2 DEF DeleteProfile, GoneForGood
  <2>3. CASE DeleteEnv
    BY <1>2, <2>3 DEF DeleteEnv, GoneForGood, Referenced
  <2> QED BY <2>1, <2>2, <2>3
<1> QED BY <1>2, <1>3, <1>4

LEMMA NextKeeps == ProvisioningAssumption /\ IInv /\ [Next]_vars => IInv'
<1> SUFFICES ASSUME ProvisioningAssumption, IInv, [Next]_vars PROVE IInv'
  OBVIOUS
<1>1. CASE UNCHANGED vars
  BY <1>1, QuietKeeps DEF vars
<1>2. CASE \E c \in Creators : CreateStep(c)
  <2> PICK c \in Creators : CreateStep(c)
    BY <1>2
  <2> QED BY BeginCreateKeeps, ReadPortsKeeps, ProbeKeeps, CloneProfileKeeps, InsertKeeps,
             SpawnKeeps, ReadyKeeps DEF CreateStep
<1>3. CASE \E i \in Instances : Stop(i) \/ Start(i) \/ DeleteInstance(i)
  BY <1>3, LifeKeeps, DeleteInstanceKeeps
<1>4. CASE ViewProfile
  BY <1>4, EnvKeeps
<1>5. CASE DeleteStep
  <2>1. CASE BeginDelete \/ ListRows \/ RemoveDir \/ RemoveRoot \/ \E i \in Instances : Recheck(i)
    BY <2>1, QuietKeeps DEF BeginDelete, ListRows, RemoveDir, RemoveRoot, Recheck
  <2>2. CASE DeleteRows
    BY <2>2, DeleteRowsKeeps
  <2>3. CASE DeleteProfile \/ DeleteEnv
    BY <2>3, EnvKeeps
  <2> QED BY <1>5, <2>1, <2>2, <2>3 DEF DeleteStep
<1> QED BY <1>1, <1>2, <1>3, <1>4, <1>5 DEF Next

LEMMA Inductive == ProvisioningAssumption => (Spec => []IInv)
<1> SUFFICES ASSUME ProvisioningAssumption PROVE Spec => []IInv
  OBVIOUS
<1>1. Init => IInv
  BY InitIInv
<1>2. IInv /\ [Next]_vars => IInv'
  BY NextKeeps
<1> QED BY <1>1, <1>2, PTL DEF Spec

\* An environment that is deleted has no instance and no profile row again,
\* however many creations, starts and deletions of instances run beside
\* environment_service.rs, delete.
THEOREM DeletedStaysDeleted == ProvisioningAssumption => (Spec => []GoneForGood)
<1> SUFFICES ASSUME ProvisioningAssumption PROVE Spec => []GoneForGood
  OBVIOUS
<1>1. IInv => GoneForGood
  BY DEF IInv
<1> QED BY <1>1, Inductive, PTL

\* Two instances share a CDP port only if neither creation saw the row of the
\* other when it read the used ports (instance_service.rs, create).
THEOREM PortsCollideOnlyInARace == ProvisioningAssumption => (Spec => []PortsDifferUnlessRaced)
<1> SUFFICES ASSUME ProvisioningAssumption PROVE Spec => []PortsDifferUnlessRaced
  OBVIOUS
<1>1. IInv => PortsDifferUnlessRaced
  BY DEF IInv, RowInv
<1> QED BY <1>1, Inductive, PTL
=============================================================================
