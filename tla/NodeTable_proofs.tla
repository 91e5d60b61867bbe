-------------------------- MODULE NodeTable_proofs --------------------------
(***************************************************************************)
(* Proofs about NodeTable, for any number of addresses, nodes, devices,    *)
(* goroutines and endpoints.  First for any environment: nodes may leave   *)
(* while they are enumerated, and be enumerated while they are loaded.     *)
(*                                                                         *)
(* The invariant of that part says which pointers are good.  Every step    *)
(* but a crash keeps an allocated node allocated and a known device known, *)
(* so most of the argument is about what a step stores, not about what it  *)
(* leaves.                                                                 *)
(*                                                                         *)
(* Then for the quiet environment, in which what is stored is what is in   *)
(* memory.  The invariant of that part keeps the books: the sections of    *)
(* persistence beside the table and what is still to be loaded, and the    *)
(* devices announced beside the devices listed.                            *)
(***************************************************************************)
EXTENDS NodeTable, WellFoundedInduction, FiniteSetTheorems, TLAPS

\* A node object in use, and a device object created on such a node.
Allocated(n) == n \in NodeObj /\ nodeAddr[n] \in Addr
Known(d)     == d \in DevObj /\ Allocated(dev[d].node)

\* The table holds allocated nodes, each under its own address.
TableOwns == \A a \in Addr : table[a] # NoNode => nodeAddr[table[a]] = a

Pointers ==
  /\ \A n \in NodeObj, s \in SubId : device[n][s] # NoDev => Known(device[n][s])
  /\ \A n \in shown : Allocated(n)

LoopGood(l) ==
  /\ l.pc \in {"loadDevice", "loadUid", "joinDevice", "joinAdvertise", "leaving"}
       => Allocated(l.node)
  /\ l.pc = "loadUid" => Known(l.dev)

\* An enumeration: what its local variables hold at each program point.
EnumGood(t) ==
  /\ (t.pc = "idle") <=> (t.node = NoNode)
  /\ t.pc # "idle" => Allocated(t.node)
  /\ \A d \in t.unset : Known(d)
  /\ \A e \in Endpoint : t.map[e] # NoDev => Known(t.map[e])
  /\ t.todo \subseteq t.inv
  /\ t.pc \in {"assign", "create", "identify", "remove", "removing", "caps"} =>
       \A e \in t.inv \ t.todo : t.map[e] # NoDev
  /\ t.pc \in {"idle", "interrogate", "collect", "match", "remove", "removing"} =>
       t.todo = {}
  /\ t.pc = "caps" => \A e \in t.inv : t.map[e] # NoDev
  /\ t.pc \in {"create", "identify"} => t.todo # {}
  /\ t.pc = "identify" => t.map[Least(t.todo)] # NoDev
  /\ t.pc = "removing" => Allocated(t.target)

References ==
  /\ TableOwns
  /\ Pointers
  /\ LoopGood(loop)
  /\ \A p \in Proc : EnumGood(enum[p])

IInv == TypeOK /\ References

-----------------------------------------------------------------------------
(* The operators of the model.                                             *)

LEMMA LeastElement ==
  ASSUME NEW S \in SUBSET Nat, S # {}
  PROVE  \E n \in S : \A m \in S : n <= m
<1>1. PICK n \in S : \A m \in S : ~(<<m, n>> \in OpToRel(<, Nat))
  BY WFMin, NatLessThanWellFounded
<1>2. ASSUME NEW m \in S PROVE ~(m < n)
  <2>1. <<m, n>> \in Nat \X Nat /\ <<m, n>>[1] = m /\ <<m, n>>[2] = n
    OBVIOUS
  <2> QED BY <1>1, <2>1, Zenon DEF OpToRel
<1> QED BY <1>2

\* The least of a set of endpoints is one of them.
LEMMA LeastIn ==
  ASSUME NEW S \in SUBSET Nat, S # {}
  PROVE  Least(S) \in S
BY LeastElement DEF Least

\* _nextDeviceSubIdentifier returns a sub-identifier, also when none is free.
LEMMA NextSubIn ==
  ASSUME NEW n \in NodeObj
  PROVE  NextSub(n) \in SubId
<1>1. MaxSub \in Nat
  BY NodeTableAssumption
<1>2. FreeSubs(n) \in SUBSET Nat
  BY <1>1 DEF FreeSubs
<1>3. CASE FreeSubs(n) = {}
  BY <1>1, <1>3 DEF NextSub, SubId
<1>4. CASE FreeSubs(n) # {}
  <2>1. NextSub(n) \in FreeSubs(n)
    BY <1>2, <1>4, LeastElement DEF NextSub
  <2> QED BY <1>1, <2>1 DEF FreeSubs, SubId
<1> QED BY <1>3, <1>4

-----------------------------------------------------------------------------
(* What a step keeps.                                                      *)

\* No step but a crash makes an allocated node or a known device bad.
Keeps ==
  /\ \A n \in NodeObj : Allocated(n) => Allocated(n)' /\ nodeAddr'[n] = nodeAddr[n]
  /\ \A d \in DevObj : Known(d) => Known(d)'

\* A step that leaves the objects alone keeps them good.
LEMMA UnchangedKeeps ==
  ASSUME UNCHANGED <<nodeAddr, dev>>
  PROVE  Keeps
BY DEF Keeps, Known, Allocated

\* createNode makes its node good and disturbs no other.
LEMMA NewNodeKeeps ==
  ASSUME TypeOK, NEW a \in Addr, NEW n \in NodeObj, NewNode(a, n), UNCHANGED dev
  PROVE  Keeps /\ Allocated(n)' /\ (TableOwns => TableOwns')
<1>1. Keeps /\ Allocated(n)'
  BY NodeTableAssumption DEF Keeps, Known, Allocated, NewNode, TypeOK
<1>2. ASSUME TableOwns, NEW b \in Addr, table'[b] # NoNode
      PROVE  nodeAddr'[table'[b]] = b
  BY <1>2, NodeTableAssumption DEF TableOwns, NewNode, TypeOK
<1> QED BY <1>1, <1>2 DEF TableOwns

\* createSpecificDevice makes its device good and disturbs no other.
LEMMA CreateDeviceKeeps ==
  ASSUME TypeOK, NEW n \in NodeObj, NEW s \in SubId, NEW d \in DevObj,
         Allocated(n), CreateDevice(n, s, d), UNCHANGED nodeAddr
  PROVE  Keeps /\ Known(d)'
BY DEF Keeps, Known, Allocated, CreateDevice, TypeOK, DevRecord

\* A unique id does not move a device.
LEMMA SetUniqueIdKeeps ==
  ASSUME TypeOK, NEW d \in DevObj, NEW id \in Nat,
         SetUniqueId(d, id), UNCHANGED nodeAddr
  PROVE  Keeps
BY DEF Keeps, Known, Allocated, SetUniqueId, TypeOK, DevRecord

\* Nothing becomes bad by staying as it is.
LEMMA EnumGoodKept ==
  ASSUME Keeps, NEW t \in EnumRecord, EnumGood(t)
  PROVE  EnumGood(t)'
BY DEF Keeps, EnumGood, EnumRecord, Known, Allocated

\* Nor do the local variables of the provider loop.
LEMMA LoopGoodKept ==
  ASSUME Keeps, NEW l \in LoopRecord, LoopGood(l)
  PROVE  LoopGood(l)'
BY DEF Keeps, LoopGood, LoopRecord, Known, Allocated

\* Nor does the table, when the step leaves it alone.
LEMMA TableKept ==
  ASSUME TypeOK, Keeps, TableOwns, UNCHANGED table
  PROVE  TableOwns'
BY DEF TypeOK, Keeps, TableOwns, Allocated

\* Nor do the devices of the nodes, when the step leaves them alone.
LEMMA PointersKept ==
  ASSUME TypeOK, Keeps, Pointers, UNCHANGED <<device, shown>>
  PROVE  Pointers'
<1>1. ASSUME NEW n \in NodeObj, NEW s \in SubId, (device[n][s] # NoDev)'
      PROVE  Known(device[n][s])'
  <2>1. Known(device[n][s]) /\ device[n][s] \in DevObj
    BY <1>1 DEF Pointers, Known
  <2> QED BY <2>1 DEF Keeps, Known, Allocated
<1>2. ASSUME NEW n \in shown'
      PROVE  Allocated(n)'
  BY <1>2 DEF Keeps, Pointers, Allocated
<1> QED BY <1>1, <1>2 DEF Pointers

\* The pointers stay good when a device is created.
LEMMA CreateDevicePointers ==
  ASSUME TypeOK, Pointers, Keeps, NEW n \in NodeObj, NEW s \in SubId,
         NEW d \in DevObj, Allocated(n), CreateDevice(n, s, d), Known(d)'
  PROVE  Pointers'
<1>1. ASSUME NEW m \in NodeObj, NEW r \in SubId, (device[m][r] # NoDev)'
      PROVE  Known(device[m][r])'
  <2>1. device'[m][r] = d \/ device'[m][r] = device[m][r]
    BY DEF CreateDevice, TypeOK
  <2>2. CASE device'[m][r] = d
    BY <2>2 DEF Known, Allocated
  <2>3. CASE device'[m][r] = device[m][r]
    <3>1. Known(device[m][r]) /\ device[m][r] \in DevObj
      BY <1>1, <2>3 DEF Pointers, Known
    <3> QED BY <2>3, <3>1 DEF Keeps, Known, Allocated
  <2> QED BY <2>1, <2>2, <2>3
<1>2. ASSUME NEW m \in shown'
      PROVE  Allocated(m)'
  <2>1. Allocated(m)
    BY <1>2 DEF CreateDevice, Pointers
  <2> QED BY <2>1 DEF Keeps, Allocated
<1> QED BY <1>1, <1>2 DEF Pointers

\* A step of one enumeration: the others stay good.
LEMMA OneEnumKept ==
  ASSUME IInv, Keeps, NEW p \in Proc, EnumGood(enum[p])',
         \A q \in Proc \ {p} : enum'[q] = enum[q]
  PROVE  (\A q \in Proc : EnumGood(enum[q]))'
<1> SUFFICES ASSUME NEW q \in Proc PROVE EnumGood(enum[q])'
  OBVIOUS
<1>1. CASE q = p
  BY <1>1
<1>2. CASE q # p
  BY <1>2, EnumGoodKept DEF IInv, TypeOK, References
<1> QED BY <1>1, <1>2

\* ... and if it changes neither the tables nor persistence, so does the rest.
LEMMA LocalStep ==
  ASSUME IInv, UNCHANGED enumOnly, enum' \in [Proc -> EnumRecord],
         NEW p \in Proc, EnumGood(enum[p])',
         \A q \in Proc \ {p} : enum'[q] = enum[q]
  PROVE  IInv'
<1>1. TypeOK'
  BY DEF IInv, TypeOK, enumOnly, diskVars
<1>2. Keeps
  BY UnchangedKeeps DEF enumOnly
<1>3. TableOwns' /\ Pointers' /\ LoopGood(loop)'
  BY <1>2, TableKept, PointersKept, LoopGoodKept DEF IInv, TypeOK, References, enumOnly
<1> QED BY <1>1, <1>2, <1>3, OneEnumKept DEF IInv, References

-----------------------------------------------------------------------------
(* What the operations on the tables store is of the right type.           *)

LEMMA SectionTyped ==
  ASSUME TypeOK, NEW a \in Addr, NEW s \in SubId
  PROVE  /\ TouchDeviceSection(a, s) =>
               /\ storedNode' \subseteq Addr
               /\ store' \in [Addr -> [SubId -> Nat \cup {NoSection, NoUniqueId}]]
         /\ DeleteDeviceSection(a, s) =>
               /\ storedNode' \subseteq Addr
               /\ store' \in [Addr -> [SubId -> Nat \cup {NoSection, NoUniqueId}]]
<1> DEFINE Stored == [Addr -> [SubId -> Nat \cup {NoSection, NoUniqueId}]]
<1>1. ASSUME NEW v \in Nat \cup {NoSection, NoUniqueId}
      PROVE  [store EXCEPT ![a][s] = v] \in Stored
  BY DEF TypeOK
<1>2. store[a][s] \in Nat \cup {NoSection, NoUniqueId}
  BY DEF TypeOK
<1>3. ASSUME TouchDeviceSection(a, s)
      PROVE  storedNode' \subseteq Addr /\ store' \in Stored
  <2>1. CASE store[a][s] = NoSection
    BY <1>1, <1>3, <2>1 DEF TouchDeviceSection, TypeOK
  <2>2. CASE store[a][s] # NoSection
    BY <1>1, <1>2, <1>3, <2>2 DEF TouchDeviceSection, TypeOK
  <2> QED BY <2>1, <2>2
<1>4. ASSUME DeleteDeviceSection(a, s)
      PROVE  storedNode' \subseteq Addr /\ store' \in Stored
  BY <1>1, <1>4 DEF DeleteDeviceSection, TypeOK
<1> QED BY <1>3, <1>4

\* createSpecificDevice keeps the types of what it changes.
LEMMA CreateDeviceTyped ==
  ASSUME TypeOK, NEW n \in NodeObj, NEW s \in SubId, NEW d \in DevObj,
         Allocated(n), CreateDevice(n, s, d)
  PROVE  /\ device' \in [NodeObj -> [SubId -> DevObj \cup {NoDev}]]
         /\ dev' \in [DevObj -> DevRecord]
         /\ shown' \subseteq NodeObj
         /\ storedNode' \subseteq Addr
         /\ store' \in [Addr -> [SubId -> Nat \cup {NoSection, NoUniqueId}]]
         /\ feed' \in [Addr -> [SubId -> Int]]
<1>1. storedNode' \subseteq Addr
      /\ store' \in [Addr -> [SubId -> Nat \cup {NoSection, NoUniqueId}]]
  BY SectionTyped DEF CreateDevice, Allocated
<1>2. device' \in [NodeObj -> [SubId -> DevObj \cup {NoDev}]] /\ shown' \subseteq NodeObj
  BY DEF CreateDevice, TypeOK
<1>3. dev' \in [DevObj -> DevRecord]
  BY DEF CreateDevice, TypeOK, DevRecord
<1>4. feed' \in [Addr -> [SubId -> Int]]
  BY DEF CreateDevice, TypeOK, Allocated
<1> QED BY <1>1, <1>2, <1>3, <1>4

\* setDeviceUniqueId keeps the types of what it changes.
LEMMA SetUniqueIdTyped ==
  ASSUME TypeOK, NEW d, Known(d), NEW id \in Nat, SetUniqueId(d, id)
  PROVE  /\ dev' \in [DevObj -> DevRecord]
         /\ storedNode' \subseteq Addr
         /\ store' \in [Addr -> [SubId -> Nat \cup {NoSection, NoUniqueId}]]
<1> DEFINE a == nodeAddr[dev[d].node]
<1>1. d \in DevObj /\ dev[d].node \in NodeObj /\ a \in Addr
  BY DEF TypeOK, DevRecord, Known, Allocated
<1>2. dev[d].sub \in SubId /\ dev \in [DevObj -> DevRecord]
  BY <1>1 DEF TypeOK, DevRecord
<1>3. dev' \in [DevObj -> DevRecord]
  BY <1>1, <1>2 DEF SetUniqueId, DevRecord
<1>4. storedNode' \subseteq Addr
  BY <1>1 DEF SetUniqueId, TypeOK
<1>5. store' \in [Addr -> [SubId -> Nat \cup {NoSection, NoUniqueId}]]
  <2>1. store \in [Addr -> [SubId -> Nat \cup {NoSection, NoUniqueId}]]
    BY DEF TypeOK
  <2>2. store' = [store EXCEPT ![a][dev[d].sub] = id]
    BY DEF SetUniqueId
  <2> QED BY <1>1, <1>2, <2>1, <2>2
<1> QED BY <1>3, <1>4, <1>5

\* removeDevice keeps the types of what it changes.
LEMMA DropDeviceTyped ==
  ASSUME TypeOK, NEW n \in NodeObj, Allocated(n), NEW s \in SubId, DropDevice(n, s)
  PROVE  /\ device' \in [NodeObj -> [SubId -> DevObj \cup {NoDev}]]
         /\ storedNode' \subseteq Addr
         /\ store' \in [Addr -> [SubId -> Nat \cup {NoSection, NoUniqueId}]]
         /\ feed' \in [Addr -> [SubId -> Int]]
<1>1. CASE device[n][s] = NoDev
  BY <1>1 DEF DropDevice, diskVars, TypeOK
<1>2. CASE device[n][s] # NoDev
  <2>1. DeleteDeviceSection(nodeAddr[n], s) /\ nodeAddr[n] \in Addr
    BY <1>2 DEF DropDevice, Allocated
  <2>2. device' \in [NodeObj -> [SubId -> DevObj \cup {NoDev}]]
    <3>1. device' = [device EXCEPT ![n][s] = NoDev]
      BY <1>2 DEF DropDevice
    <3>2. device \in [NodeObj -> [SubId -> DevObj \cup {NoDev}]]
      BY DEF TypeOK
    <3> QED BY <3>1, <3>2
  <2>3. feed' \in [Addr -> [SubId -> Int]]
    <3>1. feed[nodeAddr[n]][s] - 1 \in Int
      BY <2>1 DEF TypeOK
    <3>2. feed' = [feed EXCEPT ![nodeAddr[n]][s] = @ - 1]
      BY <1>2 DEF DropDevice
    <3>3. feed \in [Addr -> [SubId -> Int]]
      BY DEF TypeOK
    <3> QED BY <2>1, <3>1, <3>2, <3>3
  <2> QED BY <2>1, <2>2, <2>3, SectionTyped
<1> QED BY <1>1, <1>2

\* Removing a device only forgets a pointer.
LEMMA DropDevicePointers ==
  ASSUME TypeOK, Pointers, Keeps, NEW n \in NodeObj, Allocated(n), NEW s \in SubId,
         DropDevice(n, s), UNCHANGED shown
  PROVE  Pointers'
<1>1. ASSUME NEW m \in NodeObj, NEW r \in SubId, (device[m][r] # NoDev)'
      PROVE  Known(device[m][r])'
  <2>1. device'[m][r] = device[m][r]
    BY <1>1 DEF DropDevice, TypeOK, diskVars, Allocated
  <2>2. Known(device[m][r]) /\ device[m][r] \in DevObj
    BY <1>1, <2>1 DEF Pointers, Known
  <2> QED BY <2>1, <2>2 DEF Keeps, Known, Allocated
<1>2. ASSUME NEW m \in shown'
      PROVE  Allocated(m)'
  BY <1>2 DEF Pointers, Keeps, Allocated
<1> QED BY <1>1, <1>2 DEF Pointers

-----------------------------------------------------------------------------
(* The invariant is inductive: one step per action.                        *)

LEMMA InitOK == Init => IInv
<1> SUFFICES ASSUME Init PROVE IInv
  OBVIOUS
<1>1. TypeOK
  BY NodeTableAssumption DEF Init, TypeOK, SubId, DevRecord, NoDevice, LoopRecord,
     LoopAt, LoopPc, LoadPc, EnumRecord, EnumPc, Idle
<1>2. References
  BY NodeTableAssumption DEF Init, References, TableOwns, Pointers, LoopGood, LoopAt,
     EnumGood, Idle
<1> QED BY <1>1, <1>2 DEF IInv

\* A goroutine that has not started, and one that just has.
LEMMA IdleGood == EnumGood(Idle) /\ Idle \in EnumRecord
BY NodeTableAssumption DEF EnumGood, Idle, EnumRecord, EnumPc, SubId

\* startEnumeration leaves the new goroutine with good variables.
LEMMA StartGood ==
  ASSUME TypeOK, Keeps, NEW n \in NodeObj, NEW p \in Proc, Allocated(n),
         EnumGood(enum[p]), StartEnumeration(n, p)
  PROVE  /\ held' \subseteq NodeObj /\ enum' \in [Proc -> EnumRecord]
         /\ EnumGood(enum[p])' /\ \A q \in Proc \ {p} : enum'[q] = enum[q]
<1> DEFINE t == [enum[p] EXCEPT !.pc = "interrogate", !.node = n]
<1>1. enum[p] \in EnumRecord /\ enum[p].pc = "idle"
  BY DEF TypeOK, StartEnumeration
<1>2. t \in EnumRecord
  BY <1>1 DEF EnumRecord, EnumPc
<1>3. EnumGood(t)
  BY <1>1, NodeTableAssumption DEF EnumGood, EnumRecord
<1>4. enum' \in [Proc -> EnumRecord] /\ enum'[p] = t
      /\ \A q \in Proc \ {p} : enum'[q] = enum[q]
  BY <1>1, <1>2 DEF StartEnumeration, TypeOK
<1>5. EnumGood(enum[p])'
  BY <1>2, <1>3, <1>4, EnumGoodKept
<1> QED BY <1>4, <1>5 DEF StartEnumeration, TypeOK

\* A step that leaves the enumerations alone and keeps what they refer to.
LEMMA OthersKept ==
  ASSUME IInv, Keeps, UNCHANGED enum
  PROVE  (\A p \in Proc : EnumGood(enum[p]))'
BY EnumGoodKept DEF IInv, TypeOK, References

\* The steps of the load keep the invariant.
LEMMA LoadSteps ==
  ASSUME IInv, Load
  PROVE  IInv'
<1> USE DEF IInv
<1>1. CASE Boot
  <2>1. TypeOK'
    <3>1. loop' \in LoopRecord
      BY <1>1 DEF Boot, TypeOK, LoopRecord, LoopAt, LoopPc, LoadPc
    <3> QED BY <1>1, <3>1 DEF Boot, TypeOK, diskVars
  <2>2. LoopGood(loop)'
    BY <1>1 DEF Boot, LoopGood, LoopAt
  <2>3. Keeps
    BY <1>1, UnchangedKeeps DEF Boot
  <2> QED BY <1>1, <2>1, <2>2, <2>3, TableKept, PointersKept, OthersKept DEF Boot, References
<1>2. CASE LoadUniqueId
  <2>1. Known(loop.dev) /\ Allocated(loop.node)
    BY <1>2 DEF LoadUniqueId, References, LoopGood
  <2>2. Keeps
    <3>1. CASE store[nodeAddr[loop.node]][dev[loop.dev].sub] \in Nat
      BY <1>2, <2>1, <3>1, SetUniqueIdKeeps DEF LoadUniqueId, Known
    <3>2. CASE store[nodeAddr[loop.node]][dev[loop.dev].sub] \notin Nat
      BY <1>2, <3>2, UnchangedKeeps DEF LoadUniqueId
    <3> QED BY <3>1, <3>2
  <2>3. TypeOK'
    <3>1. loop' \in LoopRecord
      BY <1>2 DEF LoadUniqueId, TypeOK, LoopRecord, LoopPc, LoadPc
    <3>2. dev[loop.dev].sub \in SubId /\ nodeAddr[loop.node] \in Addr
      BY <2>1 DEF Known, Allocated, TypeOK, DevRecord
    <3>3. CASE store[nodeAddr[loop.node]][dev[loop.dev].sub] \in Nat
      BY <1>2, <2>1, <3>1, <3>3, SetUniqueIdTyped DEF LoadUniqueId, TypeOK
    <3>4. CASE store[nodeAddr[loop.node]][dev[loop.dev].sub] \notin Nat
      BY <1>2, <3>1, <3>2, <3>4, SectionTyped DEF LoadUniqueId, TypeOK
    <3> QED BY <3>3, <3>4
  <2>4. LoopGood(loop)'
    BY <1>2, <2>1, <2>2 DEF LoadUniqueId, LoopGood, TypeOK, LoopRecord, Keeps, Allocated
  <2> QED BY <1>2, <2>2, <2>3, <2>4, TableKept, PointersKept, OthersKept
          DEF LoadUniqueId, References
<1>3. CASE LoadNext
  <2>1. loop' \in LoopRecord /\ loop'.pc \in {"loadNode", "read"}
    <3>1. CASE loop' = LoopAt("read")
      BY <3>1 DEF LoopRecord, LoopAt, LoopPc
    <3>2. CASE loop' = [loop EXCEPT !.pc = "loadNode", !.node = NoNode]
      BY <3>2 DEF TypeOK, LoopRecord, LoopPc, LoadPc
    <3> QED BY <1>3, <3>1, <3>2 DEF LoadNext
  <2>2. TypeOK' /\ LoopGood(loop)'
    BY <1>3, <2>1 DEF LoadNext, TypeOK, diskVars, LoopGood
  <2>3. Keeps
    BY <1>3, UnchangedKeeps DEF LoadNext
  <2> QED BY <1>3, <2>2, <2>3, TableKept, PointersKept, OthersKept DEF LoadNext, References
<1>4. ASSUME NEW a \in Addr, NEW n \in NodeObj, LoadNode(a, n)
      PROVE  IInv'
  <2>1. Keeps /\ Allocated(n)' /\ TableOwns'
    BY <1>4, NewNodeKeeps DEF LoadNode, References
  <2>2. TypeOK'
    BY <1>4 DEF LoadNode, NewNode, TypeOK, LoopRecord, LoopPc, LoadPc
  <2>3. LoopGood(loop)'
    BY <1>4, <2>1 DEF LoadNode, LoopGood, TypeOK, LoopRecord
  <2> QED BY <1>4, <2>1, <2>2, <2>3, PointersKept, OthersKept DEF LoadNode, References
<1>5. ASSUME NEW s \in SubId, NEW d \in DevObj, LoadDevice(s, d)
      PROVE  IInv'
  <2>1. Allocated(loop.node)
    BY <1>5 DEF LoadDevice, References, LoopGood
  <2>2. Keeps /\ Known(d)'
    BY <1>5, <2>1, CreateDeviceKeeps DEF LoadDevice, Allocated
  <2>3. TypeOK'
    BY <1>5, <2>1, CreateDeviceTyped DEF LoadDevice, Allocated, TypeOK, LoopRecord, LoopPc, LoadPc
  <2>4. LoopGood(loop)'
    BY <1>5, <2>1, <2>2 DEF LoadDevice, LoopGood, TypeOK, LoopRecord, Keeps, Allocated
  <2>5. Pointers'
    BY <1>5, <2>1, <2>2, CreateDevicePointers DEF LoadDevice, References, Allocated
  <2> QED BY <1>5, <2>2, <2>3, <2>4, <2>5, TableKept, OthersKept DEF LoadDevice, References
<1> QED BY <1>1, <1>2, <1>3, <1>4, <1>5 DEF Load

\* getDevicesOnNode returns known devices.
LEMMA DevicesKnown ==
  ASSUME References, NEW n \in NodeObj
  PROVE  \A d \in DevicesOn(n) : d \in DevObj /\ Known(d)
BY DEF References, Pointers, DevicesOn, SubsOn, Known

\* The steps of an enumeration that change only its own variables keep the
\* invariant.
LEMMA LocalEnumSteps ==
  ASSUME IInv, NEW p \in Proc,
         \/ CollectUnset(p) \/ MatchExisting(p) \/ AssignPick(p)
         \/ CollectStale(p) \/ TableUpdated(p) \/ \E s \in SubId : RemoveLookup(p, s)
  PROVE  IInv'
<1> USE DEF IInv
<1>1. enum[p] \in EnumRecord /\ EnumGood(enum[p])
  BY DEF TypeOK, References
<1>2. CASE CollectUnset(p)
  <2>1. DevicesOn(enum[p].node) \subseteq DevObj
        /\ \A d \in DevicesOn(enum[p].node) : Known(d)
    BY <1>1, <1>2, DevicesKnown DEF CollectUnset, EnumGood, Allocated
  <2>2. enum' \in [Proc -> EnumRecord]
    BY <1>1, <1>2, <2>1 DEF CollectUnset, TypeOK, EnumRecord, EnumPc
  <2>3. EnumGood(enum[p])'
    BY <1>1, <1>2, <2>1 DEF CollectUnset, TypeOK, EnumRecord, EnumGood, Known, Allocated,
       enumOnly
  <2> QED BY <1>2, <2>2, <2>3, LocalStep DEF CollectUnset, TypeOK
<1>3. CASE MatchExisting(p)
  <2>1. PICK map \in [Endpoint -> DevObj \cup {NoDev}] :
          /\ \A e \in Endpoint :
               IF e \in enum[p].inv /\ Matches(p, e) # {}
               THEN map[e] \in Matches(p, e) ELSE map[e] = NoDev
          /\ enum' = [enum EXCEPT ![p].pc = "assign", ![p].map = map,
                          ![p].todo = {e \in enum[p].inv : map[e] = NoDev}]
    BY <1>3 DEF MatchExisting
  <2>2. \A e \in Endpoint : map[e] # NoDev => Known(map[e])
    <3>1. \A e \in Endpoint : \A d \in Matches(p, e) : Known(d)
      BY <1>1, <1>3, DevicesKnown DEF MatchExisting, EnumGood, Allocated, Matches
    <3> QED BY <2>1, <3>1
  <2>3. enum' \in [Proc -> EnumRecord]
    BY <1>1, <2>1 DEF TypeOK, EnumRecord, EnumPc
  <2>4. EnumGood(enum[p])'
    BY <1>1, <1>3, <2>1, <2>2 DEF MatchExisting, TypeOK, EnumRecord, EnumGood, Known,
       Allocated, enumOnly
  <2> QED BY <1>3, <2>1, <2>3, <2>4, LocalStep DEF MatchExisting, TypeOK
<1>4. CASE AssignPick(p)
  <2>1. NextSub(enum[p].node) \in SubId
    BY <1>1, <1>4, NextSubIn DEF AssignPick, EnumGood, Allocated
  <2>2. enum' \in [Proc -> EnumRecord]
    BY <1>1, <1>4, <2>1 DEF AssignPick, TypeOK, EnumRecord, EnumPc
  <2>3. EnumGood(enum[p])'
    BY <1>1, <1>4 DEF AssignPick, TypeOK, EnumRecord, EnumGood, Known, Allocated, enumOnly
  <2> QED BY <1>4, <2>2, <2>3, LocalStep DEF AssignPick, TypeOK
<1>5. CASE CollectStale(p)
  <2>1. enum' \in [Proc -> EnumRecord]
    BY <1>1, <1>5 DEF CollectStale, TypeOK, EnumRecord, EnumPc, SubsOn
  <2>2. EnumGood(enum[p])'
    BY <1>1, <1>5 DEF CollectStale, TypeOK, EnumRecord, EnumGood, Known, Allocated,
       enumOnly
  <2> QED BY <1>5, <2>1, <2>2, LocalStep DEF CollectStale, TypeOK
<1>6. CASE TableUpdated(p)
  <2>1. enum' \in [Proc -> EnumRecord]
    BY <1>1, <1>6 DEF TableUpdated, TypeOK, EnumRecord, EnumPc
  <2>2. EnumGood(enum[p])'
    BY <1>1, <1>6 DEF TableUpdated, TypeOK, EnumRecord, EnumGood, Known, Allocated,
       enumOnly
  <2> QED BY <1>6, <2>1, <2>2, LocalStep DEF TableUpdated, TypeOK
<1>7. ASSUME NEW s \in SubId, RemoveLookup(p, s)
      PROVE  IInv'
  <2>1. Allocated(enum[p].node)
    BY <1>1, <1>7 DEF RemoveLookup, EnumGood
  <2> DEFINE n == table[nodeAddr[enum[p].node]]
  <2>2. n \in NodeObj \cup {NoNode}
    BY <2>1 DEF Allocated, TypeOK
  <2>3. n # NoNode => Allocated(n)
    BY <2>1, <2>2 DEF Allocated, References, TableOwns
  <2>4. enum' \in [Proc -> EnumRecord]
    BY <1>1, <1>7, <2>2 DEF RemoveLookup, TypeOK, EnumRecord, EnumPc
  <2>5. EnumGood(enum[p])'
    BY <1>1, <1>7, <2>2, <2>3 DEF RemoveLookup, TypeOK, EnumRecord, EnumGood, Known,
       Allocated, enumOnly
  <2> QED BY <1>7, <2>4, <2>5, LocalStep DEF RemoveLookup, TypeOK
<1> QED BY <1>2, <1>3, <1>4, <1>5, <1>6, <1>7

\* The steps of an enumeration that change the tables, persistence or the
\* semaphores.
LEMMA TableEnumSteps ==
  ASSUME IInv, NEW p \in Proc,
         \/ Interrogate(p) \/ AssignReuse(p) \/ AssignIdentify(p)
         \/ \E d \in DevObj : AssignCreate(p, d)
         \/ RemoveStale(p) \/ UpdateCapabilities(p) \/ Release(p)
  PROVE  IInv'
<1> USE DEF IInv
<1>1. enum[p] \in EnumRecord /\ EnumGood(enum[p])
  BY DEF TypeOK, References
<1>2. ASSUME UNCHANGED <<table, nodeAddr, device, dev, shown, diskVars, feed, loop, crashes>>,
             held' \subseteq NodeObj,
             enum' \in [Proc -> EnumRecord], EnumGood(enum[p])',
             \A q \in Proc \ {p} : enum'[q] = enum[q]
      PROVE  IInv'
  <2>1. TypeOK'
    BY <1>2 DEF TypeOK, diskVars
  <2>2. Keeps
    BY <1>2, UnchangedKeeps
  <2> QED BY <1>2, <2>1, <2>2, TableKept, PointersKept, LoopGoodKept, OneEnumKept
          DEF References, TypeOK
<1>3. CASE Interrogate(p)
  <2>1. CASE enum' = [enum EXCEPT ![p] = Idle] /\ held' = held \ {enum[p].node}
    <3>1. EnumGood(enum[p])'
      BY <1>3, <2>1, NodeTableAssumption DEF TypeOK, EnumGood, Idle
    <3> QED BY <1>2, <1>3, <2>1, <3>1, IdleGood DEF Interrogate, TypeOK
  <2>2. ASSUME NEW inv \in SUBSET Endpoint, UNCHANGED held,
               enum' = [enum EXCEPT ![p].pc = "collect", ![p].inv = inv]
        PROVE  IInv'
    <3>1. enum' \in [Proc -> EnumRecord]
      BY <1>1, <2>2 DEF TypeOK, EnumRecord, EnumPc
    <3>2. EnumGood(enum[p])'
      BY <1>1, <1>3, <2>2 DEF Interrogate, TypeOK, EnumRecord, EnumGood, Known, Allocated
    <3> QED BY <1>2, <1>3, <2>2, <3>1, <3>2 DEF Interrogate, TypeOK
  <2> QED BY <1>3, <2>1, <2>2 DEF Interrogate
<1>4. CASE Release(p)
  <2>1. EnumGood(enum[p])'
    BY <1>4, NodeTableAssumption DEF Release, TypeOK, EnumGood, Idle
  <2> QED BY <1>2, <1>4, <2>1, IdleGood DEF Release, TypeOK
<1>5. CASE AssignReuse(p)
  <2> DEFINE e == Least(enum[p].todo)
  <2>1. e \in enum[p].todo /\ e \in Endpoint /\ e \in Nat
    BY <1>1, <1>5, LeastIn, NodeTableAssumption DEF AssignReuse, EnumRecord
  <2>2. PICK d \in enum[p].unset :
          /\ SetUniqueId(d, e)
          /\ enum' = [enum EXCEPT ![p].map[e] = d, ![p].unset = @ \ {d},
                                  ![p].todo = @ \ {e}]
    BY <1>5 DEF AssignReuse
  <2>3. Known(d) /\ d \in DevObj
    BY <1>1, <2>2 DEF EnumGood, EnumRecord
  <2>4. Keeps
    BY <1>5, <2>1, <2>2, <2>3, SetUniqueIdKeeps DEF AssignReuse
  <2>5. enum' \in [Proc -> EnumRecord]
    BY <1>1, <2>2, <2>3 DEF TypeOK, EnumRecord
  <2>6. TypeOK'
    BY <1>5, <2>1, <2>2, <2>3, <2>5, SetUniqueIdTyped DEF AssignReuse, TypeOK
  <2>7. EnumGood(enum[p])'
    <3>1. EnumGood([enum[p] EXCEPT !.map[e] = d, !.unset = @ \ {d}, !.todo = @ \ {e}])
      BY <1>1, <1>5, <2>1, <2>3, NodeTableAssumption DEF AssignReuse, EnumGood, EnumRecord
    <3>2. enum'[p] = [enum[p] EXCEPT !.map[e] = d, !.unset = @ \ {d}, !.todo = @ \ {e}]
      BY <2>2 DEF TypeOK
    <3>3. enum'[p] \in EnumRecord /\ EnumGood(enum'[p])
      BY <2>5, <3>1, <3>2
    <3> QED BY <2>4, <3>3, EnumGoodKept
  <2>8. \A q \in Proc \ {p} : enum'[q] = enum[q]
    BY <2>2 DEF TypeOK
  <2> QED BY <1>5, <2>4, <2>6, <2>7, <2>8, TableKept, PointersKept, LoopGoodKept,
             OneEnumKept DEF AssignReuse, References, TypeOK
<1>6. CASE AssignIdentify(p)
  <2> DEFINE e == Least(enum[p].todo)
  <2>1. e \in enum[p].todo /\ e \in Endpoint /\ e \in Nat
    BY <1>1, <1>6, LeastIn, NodeTableAssumption DEF AssignIdentify, EnumRecord, EnumGood
  <2>2. Known(enum[p].map[e]) /\ enum[p].map[e] \in DevObj
    BY <1>1, <1>6, <2>1 DEF AssignIdentify, EnumGood, Known
  <2>3. SetUniqueId(enum[p].map[e], e)
    BY <1>6 DEF AssignIdentify
  <2>4. Keeps
    BY <1>6, <2>1, <2>2, <2>3, SetUniqueIdKeeps DEF AssignIdentify
  <2>5. enum' \in [Proc -> EnumRecord]
    BY <1>1, <1>6 DEF AssignIdentify, TypeOK, EnumRecord, EnumPc
  <2>6. TypeOK'
    BY <1>6, <2>1, <2>2, <2>3, <2>5, SetUniqueIdTyped DEF AssignIdentify, TypeOK
  <2>7. EnumGood(enum[p])'
    <3>1. enum'[p] = [enum[p] EXCEPT !.pc = "assign", !.todo = @ \ {e}]
      BY <1>6 DEF AssignIdentify, TypeOK
    <3>2. EnumGood([enum[p] EXCEPT !.pc = "assign", !.todo = @ \ {e}])
      BY <1>1, <1>6, <2>1, <2>2, NodeTableAssumption
         DEF AssignIdentify, EnumGood, EnumRecord
    <3>3. enum'[p] \in EnumRecord /\ EnumGood(enum'[p])
      BY <2>5, <3>1, <3>2
    <3> QED BY <2>4, <3>3, EnumGoodKept
  <2>8. \A q \in Proc \ {p} : enum'[q] = enum[q]
    BY <1>6 DEF AssignIdentify, TypeOK
  <2> QED BY <1>6, <2>4, <2>6, <2>7, <2>8, TableKept, PointersKept, LoopGoodKept,
             OneEnumKept DEF AssignIdentify, References, TypeOK
<1>7. ASSUME NEW d \in DevObj, AssignCreate(p, d)
      PROVE  IInv'
  <2> DEFINE e == Least(enum[p].todo)
             n == enum[p].node
             s == enum[p].sub
  <2>1. Allocated(n) /\ n \in NodeObj /\ s \in SubId
    BY <1>1, <1>7 DEF AssignCreate, EnumGood, EnumRecord, Allocated
  <2>2. e \in enum[p].todo /\ e \in Endpoint
    BY <1>1, <1>7, LeastIn, NodeTableAssumption DEF AssignCreate, EnumRecord, EnumGood
  <2>3. CreateDevice(n, s, d)
    BY <1>7 DEF AssignCreate
  <2>4. Keeps /\ Known(d)'
    BY <1>7, <2>1, <2>3, CreateDeviceKeeps DEF AssignCreate
  <2>5. enum' \in [Proc -> EnumRecord]
    BY <1>1, <1>7, <2>2 DEF AssignCreate, TypeOK, EnumRecord, EnumPc
  <2>6. TypeOK'
    BY <1>7, <2>1, <2>3, <2>5, CreateDeviceTyped DEF AssignCreate, TypeOK
  <2>7. EnumGood(enum[p])'
    <3>1. enum'[p] = [enum[p] EXCEPT !.pc = "identify", !.map[e] = d]
      BY <1>7 DEF AssignCreate, TypeOK
    <3>2. \A x \in enum[p].unset : Known(x)'
      BY <1>1, <2>4 DEF EnumGood, EnumRecord, Keeps
    <3>3. ASSUME NEW f \in Endpoint, (enum[p].map[f] # NoDev)'
          PROVE  Known(enum[p].map[f])'
      <4>1. CASE f = e
        <5>1. enum'[p].map[f] = d
          BY <1>1, <3>1, <4>1 DEF EnumRecord
        <5> QED BY <2>4, <5>1
      <4>2. CASE f # e
        <5>1. enum'[p].map[f] = enum[p].map[f]
          BY <1>1, <3>1, <4>2 DEF EnumRecord
        <5>2. Known(enum[p].map[f]) /\ enum[p].map[f] \in DevObj
          BY <1>1, <3>3, <5>1 DEF EnumGood, Known
        <5> QED BY <2>4, <5>1, <5>2 DEF Keeps
      <4> QED BY <4>1, <4>2
    <3>4. /\ enum'[p].pc = "identify" /\ enum'[p].node = n
          /\ enum'[p].unset = enum[p].unset
          /\ enum'[p].todo = enum[p].todo /\ enum'[p].inv = enum[p].inv
          /\ enum'[p].map = [enum[p].map EXCEPT ![e] = d]
          /\ enum'[p].target = enum[p].target
      BY <1>1, <3>1 DEF EnumRecord
    <3>5. \A f \in enum[p].inv \ enum[p].todo : enum[p].map[f] # NoDev
      BY <1>1, <1>7 DEF AssignCreate, EnumGood
    <3>6. enum[p].inv \subseteq Endpoint /\ enum[p].map \in [Endpoint -> DevObj \cup {NoDev}]
          /\ enum[p].todo \subseteq enum[p].inv
      BY <1>1 DEF EnumRecord, EnumGood
    <3>7. n # NoNode /\ d # NoDev /\ Allocated(n)'
      BY <2>1, <2>4, <3>4, NodeTableAssumption DEF Keeps
    <3>8. enum'[p].map[e] = d /\ \A f \in Endpoint \ {e} : enum'[p].map[f] = enum[p].map[f]
      BY <2>2, <3>4, <3>6
    <3> QED BY <2>2, <3>2, <3>3, <3>4, <3>5, <3>6, <3>7, <3>8 DEF EnumGood
  <2>8. Pointers'
    BY <1>7, <2>1, <2>3, <2>4, CreateDevicePointers DEF AssignCreate, References
  <2>9. \A q \in Proc \ {p} : enum'[q] = enum[q]
    BY <1>7 DEF AssignCreate, TypeOK
  <2> QED BY <1>7, <2>4, <2>6, <2>7, <2>8, <2>9, TableKept, LoopGoodKept,
             OneEnumKept DEF AssignCreate, References, TypeOK
<1>8. CASE RemoveStale(p)
  <2> DEFINE n == enum[p].target
             s == enum[p].sub
  <2>1. Allocated(n) /\ n \in NodeObj /\ s \in SubId
    BY <1>1, <1>8 DEF RemoveStale, EnumGood, EnumRecord, Allocated
  <2>2. DropDevice(n, s)
    BY <1>8 DEF RemoveStale
  <2>3. Keeps
    BY <1>8, UnchangedKeeps DEF RemoveStale
  <2>4. enum' \in [Proc -> EnumRecord]
    BY <1>1, <1>8 DEF RemoveStale, TypeOK, EnumRecord, EnumPc
  <2>5. TypeOK'
    BY <1>8, <2>1, <2>2, <2>4, DropDeviceTyped DEF RemoveStale, TypeOK
  <2>6. EnumGood(enum[p])'
    BY <1>1, <1>8 DEF RemoveStale, TypeOK, EnumRecord, EnumGood, Known, Allocated
  <2>7. \A q \in Proc \ {p} : enum'[q] = enum[q]
    BY <1>8 DEF RemoveStale, TypeOK
  <2> QED BY <1>8, <2>1, <2>2, <2>3, <2>5, <2>6, <2>7, DropDevicePointers, TableKept,
             LoopGoodKept, OneEnumKept DEF RemoveStale, References, TypeOK
<1>9. CASE UpdateCapabilities(p)
  <2> DEFINE e == Least(enum[p].todo)
             d == enum[p].map[e]
  <2>1. e \in enum[p].todo /\ e \in enum[p].inv /\ e \in Endpoint
    BY <1>1, <1>9, LeastIn, NodeTableAssumption
       DEF UpdateCapabilities, EnumRecord, EnumGood
  <2>2. Known(d) /\ nodeAddr[dev[d].node] \in Addr /\ dev[d].sub \in SubId
    BY <1>1, <1>9, <2>1 DEF UpdateCapabilities, EnumGood, Known, Allocated, TypeOK,
       DevRecord
  <2>3. enum' \in [Proc -> EnumRecord]
    BY <1>1, <1>9 DEF UpdateCapabilities, TypeOK, EnumRecord
  <2>4. TypeOK'
    <3>1. CASE TouchDeviceSection(nodeAddr[dev[d].node], dev[d].sub)
      BY <1>9, <2>2, <2>3, <3>1, SectionTyped DEF UpdateCapabilities, TypeOK
    <3>2. CASE UNCHANGED diskVars
      BY <1>9, <2>3, <3>2 DEF UpdateCapabilities, TypeOK, diskVars
    <3> QED BY <1>9, <3>1, <3>2 DEF UpdateCapabilities
  <2>5. Keeps
    BY <1>9, UnchangedKeeps DEF UpdateCapabilities
  <2>6. EnumGood(enum[p])'
    BY <1>1, <1>9 DEF UpdateCapabilities, TypeOK, EnumRecord, EnumGood, Known, Allocated
  <2>7. \A q \in Proc \ {p} : enum'[q] = enum[q]
    BY <1>9 DEF UpdateCapabilities, TypeOK
  <2> QED BY <1>9, <2>4, <2>5, <2>6, <2>7, TableKept, PointersKept, LoopGoodKept,
             OneEnumKept DEF UpdateCapabilities, References, TypeOK
<1> QED BY <1>3, <1>4, <1>5, <1>6, <1>7, <1>8, <1>9

\* The steps that handle an event keep the invariant.
LEMMA HandleSteps ==
  ASSUME IInv, Handle
  PROVE  IInv'
<1> USE DEF IInv
<1>1. ASSUME NEW d \in DevObj, JoinDevice(d)
      PROVE  IInv'
  <2> DEFINE n == loop.node
             s == NextSub(n)
  <2>1. Allocated(n) /\ n \in NodeObj
    BY <1>1 DEF JoinDevice, References, LoopGood, Allocated
  <2>2. s \in SubId
    BY <2>1, NextSubIn
  <2>3. CreateDevice(n, s, d)
    BY <1>1 DEF JoinDevice
  <2>4. Keeps /\ Known(d)'
    BY <1>1, <2>1, <2>2, <2>3, CreateDeviceKeeps DEF JoinDevice
  <2>5. loop' \in LoopRecord /\ loop'.pc = "joinAdvertise" /\ loop'.node = n
    BY <1>1 DEF JoinDevice, TypeOK, LoopRecord, LoopPc
  <2>6. TypeOK'
    BY <1>1, <2>1, <2>2, <2>3, <2>5, CreateDeviceTyped DEF JoinDevice, TypeOK
  <2>7. LoopGood(loop)'
    BY <2>1, <2>4, <2>5 DEF LoopGood, Keeps
  <2>8. Pointers'
    BY <1>1, <2>1, <2>2, <2>3, <2>4, CreateDevicePointers DEF JoinDevice, References
  <2> QED BY <1>1, <2>4, <2>6, <2>7, <2>8, TableKept, OthersKept
          DEF JoinDevice, References
<1>2. CASE JoinAdvertise
  <2>1. Keeps
    BY <1>2, UnchangedKeeps DEF JoinAdvertise
  <2>2. loop' \in LoopRecord /\ LoopGood(loop)'
    BY <1>2 DEF JoinAdvertise, LoopAt, LoopGood, LoopRecord, LoopPc
  <2>3. CASE UNCHANGED <<held, enum>>
    <3>1. TypeOK'
      BY <1>2, <2>2, <2>3 DEF JoinAdvertise, TypeOK, diskVars
    <3> QED BY <1>2, <2>1, <2>2, <2>3, <3>1, TableKept, PointersKept, OthersKept
            DEF JoinAdvertise, References
  <2>4. ASSUME NEW p \in Proc, StartEnumeration(loop.node, p)
        PROVE  IInv'
    <3>1. Allocated(loop.node) /\ loop.node \in NodeObj
      BY <1>2 DEF JoinAdvertise, References, LoopGood, Allocated
    <3>2. /\ held' \subseteq NodeObj /\ enum' \in [Proc -> EnumRecord]
          /\ EnumGood(enum[p])' /\ \A q \in Proc \ {p} : enum'[q] = enum[q]
      BY <2>1, <2>4, <3>1, StartGood DEF References
    <3>3. TypeOK'
      BY <1>2, <2>2, <3>2 DEF JoinAdvertise, TypeOK, diskVars
    <3> QED BY <1>2, <2>1, <2>2, <3>2, <3>3, TableKept, PointersKept, OneEnumKept
            DEF JoinAdvertise, References
  <2> QED BY <1>2, <2>3, <2>4 DEF JoinAdvertise
<1>3. ASSUME NEW s \in SubId, LeaveDevice(s)
      PROVE  IInv'
  <2>1. Allocated(loop.node) /\ loop.node \in NodeObj
    BY <1>3 DEF LeaveDevice, References, LoopGood, Allocated
  <2>2. Keeps
    BY <1>3, UnchangedKeeps DEF LeaveDevice
  <2>3. loop' \in LoopRecord /\ loop'.pc = "leaving" /\ loop'.node = loop.node
    BY <1>3 DEF LeaveDevice, TypeOK, LoopRecord
  <2>4. TypeOK'
    BY <1>3, <2>1, <2>3, DropDeviceTyped DEF LeaveDevice, TypeOK
  <2>5. LoopGood(loop)'
    BY <2>1, <2>2, <2>3 DEF LoopGood, Keeps
  <2>6. Pointers'
    BY <1>3, <2>1, <2>2, DropDevicePointers DEF LeaveDevice, References
  <2> QED BY <1>3, <2>2, <2>4, <2>5, <2>6, TableKept, OthersKept
          DEF LeaveDevice, References
<1>4. CASE LeaveNode
  <2>1. nodeAddr[loop.node] \in Addr
    BY <1>4 DEF LeaveNode, References, LoopGood, Allocated
  <2>2. Keeps
    BY <1>4, UnchangedKeeps DEF LeaveNode
  <2>3. TypeOK' /\ LoopGood(loop)'
    BY <1>4, <2>1 DEF LeaveNode, TypeOK, LoopAt, LoopGood, LoopRecord, LoopPc
  <2>4. TableOwns'
    BY <1>4, <2>1 DEF LeaveNode, References, TableOwns, TypeOK
  <2> QED BY <1>4, <2>2, <2>3, <2>4, PointersKept, OthersKept DEF LeaveNode, References
<1> QED BY <1>1, <1>2, <1>3, <1>4 DEF Handle

\* The steps that start something keep the invariant.
LEMMA EventSteps ==
  ASSUME IInv,
         \/ Stop
         \/ \E a \in Addr : Leave(a) \/ \E n \in NodeObj : JoinNode(a, n)
         \/ \E n \in NodeObj, p \in Proc : Enumerate(n, p)
  PROVE  IInv'
<1> USE DEF IInv
<1>1. CASE Stop
  <2>1. Keeps
    BY <1>1, UnchangedKeeps DEF Stop
  <2>2. TypeOK' /\ LoopGood(loop)'
    BY <1>1 DEF Stop, TypeOK, diskVars, LoopAt, LoopGood, LoopRecord, LoopPc
  <2> QED BY <1>1, <2>1, <2>2, TableKept, PointersKept, OthersKept DEF Stop, References
<1>2. ASSUME NEW a \in Addr, Leave(a)
      PROVE  IInv'
  <2>1. Keeps
    BY <1>2, UnchangedKeeps DEF Leave
  <2>2. Allocated(table[a])
    BY <1>2 DEF Leave, References, TableOwns, TypeOK, Allocated
  <2>3. loop' \in LoopRecord /\ loop'.pc = "leaving" /\ loop'.node = table[a]
    BY <1>2, <2>2 DEF Leave, TypeOK, LoopRecord, LoopPc, SubsOn, Allocated
  <2>4. TypeOK' /\ LoopGood(loop)'
    BY <1>2, <2>2, <2>3 DEF Leave, TypeOK, diskVars, LoopGood, Allocated
  <2> QED BY <1>2, <2>1, <2>4, TableKept, PointersKept, OthersKept DEF Leave, References
<1>3. ASSUME NEW a \in Addr, NEW n \in NodeObj, JoinNode(a, n)
      PROVE  IInv'
  <2>1. Keeps /\ Allocated(n)' /\ TableOwns'
    BY <1>3, NewNodeKeeps DEF JoinNode, References
  <2>2. loop' \in LoopRecord /\ loop'.pc = "joinDevice" /\ loop'.node = n
    BY <1>3 DEF JoinNode, TypeOK, LoopRecord, LoopPc
  <2>3. TypeOK' /\ LoopGood(loop)'
    BY <1>3, <2>1, <2>2 DEF JoinNode, NewNode, TypeOK, LoopGood
  <2> QED BY <1>3, <2>1, <2>3, PointersKept, OthersKept DEF JoinNode, References
<1>4. ASSUME NEW n \in NodeObj, NEW p \in Proc, Enumerate(n, p)
      PROVE  IInv'
  <2>1. Keeps
    BY <1>4, UnchangedKeeps DEF Enumerate
  <2>2. Allocated(n)
    BY <1>4 DEF Enumerate, References, Pointers
  <2>3. /\ held' \subseteq NodeObj /\ enum' \in [Proc -> EnumRecord]
        /\ EnumGood(enum[p])' /\ \A q \in Proc \ {p} : enum'[q] = enum[q]
    BY <1>4, <2>1, <2>2, StartGood DEF Enumerate, References
  <2>4. TypeOK'
    BY <1>4, <2>3 DEF Enumerate, TypeOK, diskVars
  <2> QED BY <1>4, <2>1, <2>3, <2>4, TableKept, PointersKept, LoopGoodKept, OneEnumKept
          DEF Enumerate, References, TypeOK
<1> QED BY <1>1, <1>2, <1>3, <1>4

\* A restart forgets every object and with it every pointer.
LEMMA CrashStep ==
  ASSUME IInv, Crash
  PROVE  IInv'
<1>1. TypeOK'
  BY NodeTableAssumption, IdleGood DEF IInv, Crash, TypeOK, SubId, DevRecord, NoDevice,
     LoopRecord, LoopAt, LoopPc, LoadPc, diskVars
<1>2. References'
  BY NodeTableAssumption DEF Crash, References, TableOwns, Pointers, LoopGood, LoopAt,
     EnumGood, Idle
<1> QED BY <1>1, <1>2 DEF IInv

\* A stuttering step keeps the invariant.
LEMMA StutterStep ==
  ASSUME IInv, UNCHANGED vars
  PROVE  IInv'
<1>1. Keeps
  BY UnchangedKeeps DEF vars
<1>2. TypeOK'
  BY DEF IInv, TypeOK, vars
<1> QED BY <1>1, <1>2, TableKept, PointersKept, LoopGoodKept, OthersKept
        DEF IInv, References, TypeOK, vars

\* No goroutine ever holds a pointer to a node or a device that was not created,
\* nor do the tables (table.go, node.go).
THEOREM IInvInductive == Spec => []IInv
<1>1. Init => IInv
  BY InitOK
<1>2. IInv /\ [Next]_vars => IInv'
  <2> SUFFICES ASSUME IInv, [Next]_vars PROVE IInv'
    OBVIOUS
  <2>1. CASE Load
    BY <2>1, LoadSteps
  <2>2. CASE Handle
    BY <2>2, HandleSteps
  <2>3. ASSUME NEW p \in Proc, EnumStep(p)
        PROVE  IInv'
    BY <2>3, LocalEnumSteps, TableEnumSteps DEF EnumStep
  <2> QED BY <2>1, <2>2, <2>3, EventSteps, CrashStep, StutterStep DEF Next
<1> QED BY <1>1, <1>2, PTL DEF Spec

(***************************************************************************)
(* Every variable keeps its type, whatever the environment does.           *)
(***************************************************************************)
THEOREM TypeCorrect == Spec => []TypeOK
BY IInvInductive, PTL DEF IInv

-----------------------------------------------------------------------------
(***************************************************************************)
(* Exclusive enumeration.  Only startEnumeration takes the semaphore and   *)
(* only the goroutine's end gives it back; every other step keeps both the *)
(* semaphores and the node each goroutine works on.                        *)
(***************************************************************************)
LEMMA SameOwners ==
  ASSUME ExclusiveEnumeration, UNCHANGED held,
         \A p \in Proc : enum'[p].node = enum[p].node
  PROVE  ExclusiveEnumeration'
<1>1. {enum'[p].node : p \in Proc} = {enum[p].node : p \in Proc}
  OBVIOUS
<1> QED BY <1>1 DEF ExclusiveEnumeration

\* TryAcquire succeeds only for a node nobody enumerates.
LEMMA StartExclusive ==
  ASSUME IInv, ExclusiveEnumeration, NEW n \in NodeObj, NEW p \in Proc,
         StartEnumeration(n, p)
  PROVE  ExclusiveEnumeration'
<1>1. enum[p].node = NoNode /\ n # NoNode /\ n \notin held
  BY NodeTableAssumption DEF IInv, References, EnumGood, StartEnumeration
<1>2. \A q \in Proc : enum'[q].node = IF q = p THEN n ELSE enum[q].node
  BY DEF StartEnumeration, IInv, TypeOK, EnumRecord
<1>3. \A q \in Proc : enum[q].node # n
  BY <1>1 DEF ExclusiveEnumeration
<1>4. \A q, r \in Proc : enum'[q].node # NoNode /\ enum'[q].node = enum'[r].node => q = r
  BY <1>1, <1>2, <1>3 DEF ExclusiveEnumeration
<1>5. {enum'[q].node : q \in Proc} \ {NoNode}
        = ({enum[q].node : q \in Proc} \ {NoNode}) \cup {n}
  BY <1>1, <1>2
<1> QED BY <1>4, <1>5 DEF ExclusiveEnumeration, StartEnumeration

\* A goroutine that ends gives back its own semaphore and no other.
LEMMA EndExclusive ==
  ASSUME IInv, ExclusiveEnumeration, NEW p \in Proc, enum[p].pc # "idle",
         enum' = [enum EXCEPT ![p] = Idle], held' = held \ {enum[p].node}
  PROVE  ExclusiveEnumeration'
<1>1. enum[p].node # NoNode
  BY DEF IInv, References, EnumGood
<1>2. \A q \in Proc : enum'[q].node = IF q = p THEN NoNode ELSE enum[q].node
  BY DEF IInv, TypeOK, Idle
<1>3. \A q \in Proc \ {p} : enum[q].node # enum[p].node
  BY <1>1 DEF ExclusiveEnumeration
<1>4. {enum'[q].node : q \in Proc} \ {NoNode}
        = ({enum[q].node : q \in Proc} \ {NoNode}) \ {enum[p].node}
  BY <1>2, <1>3
<1> QED BY <1>2, <1>4 DEF ExclusiveEnumeration

\* No step of an enumeration lets a second one in.
LEMMA EnumStepExclusive ==
  ASSUME IInv, ExclusiveEnumeration, NEW p \in Proc, EnumStep(p)
  PROVE  ExclusiveEnumeration'
<1>1. CASE Interrogate(p)
  <2>1. CASE enum' = [enum EXCEPT ![p] = Idle] /\ held' = held \ {enum[p].node}
    BY <1>1, <2>1, EndExclusive DEF Interrogate
  <2>2. ASSUME NEW inv \in SUBSET Endpoint, UNCHANGED held,
               enum' = [enum EXCEPT ![p].pc = "collect", ![p].inv = inv]
        PROVE  ExclusiveEnumeration'
    BY <2>2, SameOwners DEF IInv, TypeOK, EnumRecord
  <2> QED BY <1>1, <2>1, <2>2 DEF Interrogate
<1>2. CASE Release(p)
  BY <1>2, EndExclusive DEF Release
<1>3. CASE CollectUnset(p) \/ AssignPick(p) \/ CollectStale(p) \/ TableUpdated(p)
  BY <1>3, SameOwners DEF CollectUnset, AssignPick, CollectStale, TableUpdated,
     enumOnly, IInv, TypeOK, EnumRecord
<1>4. CASE MatchExisting(p)
  BY <1>4, SameOwners DEF MatchExisting, enumOnly, IInv, TypeOK, EnumRecord
<1>5. CASE AssignReuse(p)
  BY <1>5, SameOwners DEF AssignReuse, IInv, TypeOK, EnumRecord
<1>6. CASE AssignIdentify(p)
  BY <1>6, SameOwners DEF AssignIdentify, IInv, TypeOK, EnumRecord
<1>7. CASE \E d \in DevObj : AssignCreate(p, d)
  BY <1>7, SameOwners DEF AssignCreate, IInv, TypeOK, EnumRecord
<1>8. CASE RemoveStale(p)
  BY <1>8, SameOwners DEF RemoveStale, IInv, TypeOK, EnumRecord
<1>9. CASE UpdateCapabilities(p)
  BY <1>9, SameOwners DEF UpdateCapabilities, IInv, TypeOK, EnumRecord
<1>10. CASE \E s \in SubId : RemoveLookup(p, s)
  BY <1>10, SameOwners DEF RemoveLookup, enumOnly, IInv, TypeOK, EnumRecord
<1> QED BY <1>1, <1>2, <1>3, <1>4, <1>5, <1>6, <1>7, <1>8, <1>9, <1>10 DEF EnumStep

(***************************************************************************)
(* A node is never enumerated by two goroutines, and its semaphore is held *)
(* exactly while one enumerates it.                                        *)
(***************************************************************************)
THEOREM EnumerationIsExclusive == Spec => []ExclusiveEnumeration
<1>1. Init => ExclusiveEnumeration
  BY DEF Init, ExclusiveEnumeration, Idle
<1>2. IInv /\ ExclusiveEnumeration /\ [Next]_vars => ExclusiveEnumeration'
  <2> SUFFICES ASSUME IInv, ExclusiveEnumeration, [Next]_vars
               PROVE  ExclusiveEnumeration'
    OBVIOUS
  <2>1. CASE UNCHANGED <<held, enum>>
    BY <2>1, SameOwners
  <2>2. CASE Load \/ Stop \/ \E a \in Addr : Leave(a) \/ \E n \in NodeObj : JoinNode(a, n)
    BY <2>1, <2>2 DEF Load, Boot, LoadUniqueId, LoadNext, LoadNode, LoadDevice, Stop,
       Leave, JoinNode
  <2>3. CASE Handle
    <3>1. CASE JoinAdvertise
      <4>1. loop.node \in NodeObj
        BY <3>1 DEF JoinAdvertise, IInv, References, LoopGood, Allocated
      <4> QED BY <2>1, <3>1, <4>1, StartExclusive DEF JoinAdvertise
    <3>2. CASE ~JoinAdvertise
      BY <2>1, <2>3, <3>2 DEF Handle, JoinDevice, LeaveDevice, LeaveNode
    <3> QED BY <3>1, <3>2
  <2>4. ASSUME NEW p \in Proc, NEW n \in NodeObj, Enumerate(n, p)
        PROVE  ExclusiveEnumeration'
    BY <2>4, StartExclusive DEF Enumerate
  <2>5. CASE Crash
    BY <2>5 DEF Crash, ExclusiveEnumeration, Idle
  <2> QED BY <2>1, <2>2, <2>3, <2>4, <2>5, EnumStepExclusive DEF Next, vars
<1> QED BY <1>1, <1>2, IInvInductive, PTL DEF Spec

-----------------------------------------------------------------------------
(***************************************************************************)
(* The tables agree with the objects.  Of the steps that change them only  *)
(* createSpecificDevice writes a pointer, to an object nobody refers to.   *)
(***************************************************************************)
DeviceAddresses ==
  \A n \in NodeObj, s \in SubId :
    device[n][s] # NoDev => dev[device[n][s]].node = n /\ dev[device[n][s]].sub = s

\* How the tables change in one step.
TableEffect ==
  \/ UNCHANGED <<device, dev, feed>>
  \/ \E n \in NodeObj, s \in SubId, d \in DevObj :
       Allocated(n) /\ CreateDevice(n, s, d)
  \/ \E d \in DevObj, id \in Nat : SetUniqueId(d, id) /\ UNCHANGED <<device, feed>>
  \/ \E n \in NodeObj, s \in SubId :
       Allocated(n) /\ DropDevice(n, s) /\ UNCHANGED dev

\* What a step of an enumeration does to the tables.
LEMMA EnumTableEffect ==
  ASSUME IInv, NEW p \in Proc, EnumStep(p)
  PROVE  TableEffect /\ UNCHANGED nodeAddr
<1> USE DEF IInv
<1>1. enum[p] \in EnumRecord /\ EnumGood(enum[p])
  BY DEF TypeOK, References
<1>2. CASE Interrogate(p) \/ CollectUnset(p) \/ MatchExisting(p) \/ AssignPick(p)
           \/ CollectStale(p) \/ TableUpdated(p) \/ UpdateCapabilities(p) \/ Release(p)
           \/ \E s \in SubId : RemoveLookup(p, s)
  BY <1>2 DEF TableEffect, Interrogate, CollectUnset, MatchExisting, AssignPick,
     CollectStale, TableUpdated, UpdateCapabilities, Release, RemoveLookup, enumOnly
<1>3. CASE AssignReuse(p)
  <2>1. Least(enum[p].todo) \in Nat
    BY <1>1, <1>3, LeastIn, NodeTableAssumption DEF AssignReuse, EnumRecord
  <2> QED BY <1>1, <1>3, <2>1 DEF AssignReuse, TableEffect, EnumRecord
<1>4. CASE AssignIdentify(p)
  <2>1. Least(enum[p].todo) \in enum[p].todo
    BY <1>1, <1>4, LeastIn, NodeTableAssumption DEF AssignIdentify, EnumRecord, EnumGood
  <2>2. Least(enum[p].todo) \in Nat /\ Least(enum[p].todo) \in Endpoint
    BY <1>1, <2>1, NodeTableAssumption DEF EnumRecord
  <2>3. enum[p].map[Least(enum[p].todo)] \in DevObj
    BY <1>1, <1>4, <2>2 DEF AssignIdentify, EnumRecord, EnumGood, Known
  <2> QED BY <1>4, <2>2, <2>3 DEF AssignIdentify, TableEffect
<1>5. CASE \E d \in DevObj : AssignCreate(p, d)
  <2>1. Allocated(enum[p].node) /\ enum[p].sub \in SubId
    BY <1>1, <1>5 DEF AssignCreate, EnumGood, EnumRecord
  <2> QED BY <1>5, <2>1 DEF AssignCreate, TableEffect, Allocated
<1>6. CASE RemoveStale(p)
  <2>1. Allocated(enum[p].target) /\ enum[p].sub \in SubId
    BY <1>1, <1>6 DEF RemoveStale, EnumGood, EnumRecord
  <2> QED BY <1>6, <2>1 DEF RemoveStale, TableEffect, Allocated
<1> QED BY <1>2, <1>3, <1>4, <1>5, <1>6 DEF EnumStep

\* What a step of the provider loop does to the tables.
LEMMA LoopTableEffect ==
  ASSUME IInv, Load \/ Handle
  PROVE  TableEffect
<1> USE DEF IInv
<1>1. CASE Boot \/ LoadNext \/ JoinAdvertise \/ LeaveNode
           \/ \E a \in Addr, n \in NodeObj : LoadNode(a, n)
  BY <1>1 DEF TableEffect, Boot, LoadNext, JoinAdvertise, LeaveNode, LoadNode
<1>2. CASE LoadUniqueId
  <2>1. loop.dev \in DevObj
    BY <1>2 DEF LoadUniqueId, References, LoopGood, Known
  <2> QED BY <1>2, <2>1 DEF LoadUniqueId, TableEffect
<1>3. CASE \E s \in SubId, d \in DevObj : LoadDevice(s, d)
  BY <1>3 DEF LoadDevice, TableEffect, References, LoopGood, Allocated
<1>4. CASE \E d \in DevObj : JoinDevice(d)
  <2>1. Allocated(loop.node) /\ loop.node \in NodeObj
    BY <1>4 DEF JoinDevice, References, LoopGood, Allocated
  <2> QED BY <1>4, <2>1, NextSubIn DEF JoinDevice, TableEffect
<1>5. CASE \E s \in SubId : LeaveDevice(s)
  BY <1>5 DEF LeaveDevice, TableEffect, References, LoopGood, Allocated
<1> QED BY <1>1, <1>2, <1>3, <1>4, <1>5 DEF Load, Handle

\* What any step but a crash does to the tables.
LEMMA NextTableEffect ==
  ASSUME IInv, [Next]_vars, ~Crash
  PROVE  TableEffect
<1>1. CASE Load \/ Handle
  BY <1>1, LoopTableEffect
<1>2. CASE \E p \in Proc : EnumStep(p)
  BY <1>2, EnumTableEffect
<1>3. CASE Stop \/ (\E a \in Addr : Leave(a) \/ \E n \in NodeObj : JoinNode(a, n))
           \/ (\E p \in Proc, n \in NodeObj : Enumerate(n, p)) \/ UNCHANGED vars
  BY <1>3 DEF TableEffect, Stop, Leave, JoinNode, Enumerate, vars
<1> QED BY <1>1, <1>2, <1>3 DEF Next

\* A device stays under the node and the number it carries.
LEMMA EffectKeepsAddresses ==
  ASSUME TypeOK, DeviceAddresses, TableEffect
  PROVE  DeviceAddresses'
<1>1. CASE UNCHANGED <<device, dev, feed>>
  BY <1>1 DEF DeviceAddresses
<1>2. ASSUME NEW n \in NodeObj, NEW s \in SubId, NEW d \in DevObj, CreateDevice(n, s, d)
      PROVE  DeviceAddresses'
  <2> SUFFICES ASSUME NEW m \in NodeObj, NEW r \in SubId, device'[m][r] # NoDev
               PROVE  dev'[device'[m][r]].node = m /\ dev'[device'[m][r]].sub = r
    BY DEF DeviceAddresses
  <2>1. device[m][r] # d
    BY <1>2 DEF CreateDevice, Referenced
  <2>2. CASE m = n /\ r = s
    BY <1>2, <2>2 DEF CreateDevice, TypeOK
  <2>3. CASE ~(m = n /\ r = s)
    <3>1. device'[m][r] = device[m][r]
      BY <1>2, <2>3 DEF CreateDevice, TypeOK
    <3>2. dev'[device[m][r]] = dev[device[m][r]]
      BY <1>2, <2>1, <3>1 DEF CreateDevice, TypeOK
    <3> QED BY <3>1, <3>2 DEF DeviceAddresses
  <2> QED BY <2>2, <2>3
<1>3. ASSUME NEW d \in DevObj, NEW id \in Nat, SetUniqueId(d, id), UNCHANGED device
      PROVE  DeviceAddresses'
  <2>1. \A x \in DevObj : dev'[x].node = dev[x].node /\ dev'[x].sub = dev[x].sub
    BY <1>3 DEF SetUniqueId, TypeOK, DevRecord
  <2> QED BY <1>3, <2>1 DEF DeviceAddresses, TypeOK
<1>4. ASSUME NEW n \in NodeObj, NEW s \in SubId, DropDevice(n, s), UNCHANGED dev
      PROVE  DeviceAddresses'
  <2>1. \A m \in NodeObj, r \in SubId :
          device'[m][r] = device[m][r] \/ device'[m][r] = NoDev
    BY <1>4 DEF DropDevice, TypeOK
  <2> QED BY <1>4, <2>1 DEF DeviceAddresses
<1> QED BY <1>1, <1>2, <1>3, <1>4 DEF TableEffect

\* A device is always under the node and the number it carries.
LEMMA AddressesHold == Spec => []DeviceAddresses
<1>1. Init => DeviceAddresses
  BY DEF Init, DeviceAddresses
<1>2. IInv /\ DeviceAddresses /\ [Next]_vars => DeviceAddresses'
  <2> SUFFICES ASSUME IInv, DeviceAddresses, [Next]_vars PROVE DeviceAddresses'
    OBVIOUS
  <2>1. CASE Crash
    BY <2>1 DEF Crash, DeviceAddresses
  <2>2. CASE ~Crash
    BY <2>2, NextTableEffect, EffectKeepsAddresses DEF IInv
  <2> QED BY <2>1, <2>2
<1> QED BY <1>1, <1>2, IInvInductive, PTL DEF Spec

(***************************************************************************)
(* The node table, the device tables and the objects they point to agree   *)
(* on addresses and sub-identifiers.                                       *)
(***************************************************************************)
THEOREM TablesAgree == Spec => []TableAgreesWithNodes
<1>1. IInv /\ DeviceAddresses => TableAgreesWithNodes
  BY DEF IInv, References, TableOwns, DeviceAddresses, TableAgreesWithNodes
<1> QED BY <1>1, AddressesHold, IInvInductive, PTL

-----------------------------------------------------------------------------
(***************************************************************************)
(* Listed devices are announced.  An enumeration of a node that has left   *)
(* may still announce and withdraw devices of its address, so the balance  *)
(* of an identifier is compared with the number of node objects, in the    *)
(* table or not, that hold a device under it.                              *)
(***************************************************************************)
Holders(a, s) == {n \in NodeObj : nodeAddr[n] = a /\ device[n][s] # NoDev}

Balanced ==
  \A a \in Addr, s \in SubId : Cardinality(Holders(a, s)) <= feed[a][s]

\* The holders of an identifier can be counted.
LEMMA HoldersFinite ==
  ASSUME NEW a, NEW s
  PROVE  IsFiniteSet(Holders(a, s)) /\ Cardinality(Holders(a, s)) \in Nat
<1>1. Holders(a, s) \in SUBSET NodeObj
  BY DEF Holders
<1>2. IsFiniteSet(Holders(a, s))
  BY <1>1, FS_Subset, NodeTableAssumption
<1> QED BY <1>2, FS_CardinalityType

\* A node keeps its address for life.
LEMMA AddressKept ==
  ASSUME IInv, [Next]_vars, ~Crash, NEW n \in NodeObj, Allocated(n)
  PROVE  nodeAddr'[n] = nodeAddr[n]
<1> USE DEF IInv
<1>1. ASSUME NEW a \in Addr, NEW m \in NodeObj, NewNode(a, m)
      PROVE  nodeAddr'[n] = nodeAddr[n]
  BY <1>1, NodeTableAssumption DEF NewNode, Allocated, TypeOK
<1>2. CASE UNCHANGED nodeAddr
  BY <1>2
<1>3. CASE Load
  BY <1>1, <1>2, <1>3 DEF Load, Boot, LoadUniqueId, LoadNext, LoadNode, LoadDevice
<1>4. CASE Handle
  BY <1>2, <1>4 DEF Handle, JoinDevice, JoinAdvertise, LeaveDevice, LeaveNode
<1>5. CASE \E p \in Proc : EnumStep(p)
  BY <1>2, <1>5, EnumTableEffect
<1>6. CASE Stop \/ (\E a \in Addr : Leave(a) \/ \E m \in NodeObj : JoinNode(a, m))
           \/ (\E p \in Proc, m \in NodeObj : Enumerate(m, p)) \/ UNCHANGED vars
  BY <1>1, <1>2, <1>6 DEF Stop, Leave, JoinNode, Enumerate, vars
<1> QED BY <1>3, <1>4, <1>5, <1>6 DEF Next

\* Announcements keep up with the devices that are held.
LEMMA EffectKeepsBalance ==
  ASSUME IInv, DeviceAddresses, Balanced, TableEffect,
         \A n \in NodeObj : Allocated(n) => nodeAddr'[n] = nodeAddr[n]
  PROVE  Balanced'
<1> USE DEF IInv
<1>1. \A n \in NodeObj, s \in SubId : device[n][s] # NoDev => Allocated(n)
  BY DEF References, Pointers, DeviceAddresses, Known
<1> DEFINE Now(a, s) == {n \in NodeObj : nodeAddr[n] = a /\ device'[n][s] # NoDev}
<1>2. ASSUME \A n \in NodeObj, s \in SubId : device'[n][s] # NoDev => Allocated(n),
             NEW a \in Addr, NEW s \in SubId
      PROVE  Holders(a, s)' = Now(a, s)
  BY <1>2 DEF Holders, Allocated, TypeOK
<1>3. CASE UNCHANGED <<device, dev, feed>> \/
           \E d \in DevObj, id \in Nat : SetUniqueId(d, id) /\ UNCHANGED <<device, feed>>
  <2>1. UNCHANGED <<device, feed>>
    BY <1>3
  <2>2. \A a \in Addr, s \in SubId : Holders(a, s)' = Holders(a, s)
    BY <1>1, <2>1 DEF Holders, Allocated, TypeOK
  <2> QED BY <2>1, <2>2 DEF Balanced
<1>4. ASSUME NEW n \in NodeObj, NEW s \in SubId, NEW d \in DevObj,
             Allocated(n), CreateDevice(n, s, d)
      PROVE  Balanced'
  <2> SUFFICES ASSUME NEW b \in Addr, NEW r \in SubId
               PROVE  (Cardinality(Holders(b, r)) <= feed[b][r])'
    BY DEF Balanced
  <2>1. \A m \in NodeObj, t \in SubId :
          device'[m][t] = IF m = n /\ t = s THEN d ELSE device[m][t]
    BY <1>4 DEF CreateDevice, TypeOK
  <2>2. Holders(b, r)' = Now(b, r)
    BY <1>1, <1>2, <1>4, <2>1
  <2>3. feed[b][r] \in Int /\ Cardinality(Holders(b, r)) <= feed[b][r]
    BY DEF Balanced, TypeOK
  <2>4. CASE b = nodeAddr[n] /\ r = s
    <3>1. Now(b, r) = Holders(b, r) \cup {n}
      BY <2>1, <2>4, NodeTableAssumption DEF Holders
    <3>2. /\ IsFiniteSet(Holders(b, r)) /\ Cardinality(Holders(b, r)) \in Nat
          /\ IsFiniteSet(Holders(b, r) \cup {n})
          /\ Cardinality(Holders(b, r) \cup {n}) =
               IF n \in Holders(b, r) THEN Cardinality(Holders(b, r))
               ELSE Cardinality(Holders(b, r)) + 1
      BY HoldersFinite, FS_AddElement
    <3>3. feed'[b][r] = feed[b][r] + 1
      BY <1>4, <2>4 DEF CreateDevice, TypeOK
    <3>4. Cardinality(Holders(b, r)') = Cardinality(Holders(b, r) \cup {n})
      BY <2>2, <3>1, Zenon
    <3> QED BY <2>3, <3>2, <3>3, <3>4
  <2>5. CASE ~(b = nodeAddr[n] /\ r = s)
    <3>1. Now(b, r) = Holders(b, r)
      BY <2>1, <2>5 DEF Holders
    <3>2. feed'[b][r] = feed[b][r]
      BY <1>4, <2>5 DEF CreateDevice, TypeOK, Allocated
    <3> QED BY <2>2, <2>3, <3>1, <3>2
  <2> QED BY <2>4, <2>5
<1>5. ASSUME NEW n \in NodeObj, NEW s \in SubId, Allocated(n), DropDevice(n, s),
             device[n][s] # NoDev
      PROVE  Balanced'
  <2> SUFFICES ASSUME NEW b \in Addr, NEW r \in SubId
               PROVE  (Cardinality(Holders(b, r)) <= feed[b][r])'
    BY DEF Balanced
  <2>1. \A m \in NodeObj, t \in SubId :
          device'[m][t] = IF m = n /\ t = s THEN NoDev ELSE device[m][t]
    BY <1>5 DEF DropDevice, TypeOK
  <2>2. Holders(b, r)' = Now(b, r)
    BY <1>1, <1>2, <2>1
  <2>3. feed[b][r] \in Int /\ Cardinality(Holders(b, r)) <= feed[b][r]
    BY DEF Balanced, TypeOK
  <2>4. CASE b = nodeAddr[n] /\ r = s
    <3>1. Now(b, r) = Holders(b, r) \ {n} /\ n \in Holders(b, r)
      BY <1>5, <2>1, <2>4 DEF Holders
    <3>2. Cardinality(Now(b, r)) = Cardinality(Holders(b, r)) - 1
      BY <3>1, HoldersFinite, FS_RemoveElement
    <3>3. feed'[b][r] = feed[b][r] - 1
      BY <1>5, <2>4 DEF DropDevice, TypeOK
    <3> QED BY <2>2, <2>3, <3>2, <3>3, HoldersFinite
  <2>5. CASE ~(b = nodeAddr[n] /\ r = s)
    <3>1. Now(b, r) = Holders(b, r)
      BY <2>1, <2>5 DEF Holders
    <3>2. feed'[b][r] = feed[b][r]
      BY <1>5, <2>5 DEF DropDevice, TypeOK, Allocated
    <3> QED BY <2>2, <2>3, <3>1, <3>2
  <2> QED BY <2>4, <2>5
<1>6. ASSUME NEW n \in NodeObj, NEW s \in SubId, DropDevice(n, s), device[n][s] = NoDev
      PROVE  UNCHANGED <<device, feed>>
  BY <1>6 DEF DropDevice
<1>7. CASE UNCHANGED <<device, feed>>
  <2>1. \A a \in Addr, s \in SubId : Holders(a, s)' = Holders(a, s)
    BY <1>1, <1>7 DEF Holders, Allocated, TypeOK
  <2> QED BY <1>7, <2>1 DEF Balanced
<1> QED BY <1>3, <1>4, <1>5, <1>6, <1>7 DEF TableEffect

(***************************************************************************)
(* Every device Devices() lists has been announced more often than it has  *)
(* been withdrawn.                                                         *)
(***************************************************************************)
THEOREM ListedAnnounced == Spec => []ListedDevicesAnnounced
<1>1. Init => Balanced
  <2> SUFFICES ASSUME Init PROVE Balanced
    OBVIOUS
  <2>1. \A a \in Addr, s \in SubId : Holders(a, s) = {}
    BY DEF Init, Holders
  <2>2. \A a \in Addr, s \in SubId : Cardinality(Holders(a, s)) = 0
    BY <2>1, HoldersFinite, FS_EmptySet
  <2>3. \A a \in Addr, s \in SubId : feed[a][s] = 0
    BY DEF Init
  <2> QED BY <2>2, <2>3 DEF Balanced
<1>2. IInv /\ DeviceAddresses /\ Balanced /\ [Next]_vars => Balanced'
  <2> SUFFICES ASSUME IInv, DeviceAddresses, Balanced, [Next]_vars PROVE Balanced'
    OBVIOUS
  <2>1. CASE Crash
    <3>1. \A a \in Addr, s \in SubId : Holders(a, s)' = {} /\ feed'[a][s] = 0
      BY <2>1 DEF Crash, Holders
    <3>2. \A a \in Addr, s \in SubId : Cardinality(Holders(a, s)') = 0
      BY <3>1, FS_EmptySet, Zenon
    <3> QED BY <3>1, <3>2 DEF Balanced
  <2>2. CASE ~Crash
    BY <2>2, NextTableEffect, AddressKept, EffectKeepsBalance
  <2> QED BY <2>1, <2>2
<1>3. IInv /\ Balanced => ListedDevicesAnnounced
  <2> SUFFICES ASSUME IInv, Balanced, NEW a \in Addr, NEW s \in SubId,
                      table[a] # NoNode, device[table[a]][s] # NoDev
               PROVE  feed[a][s] >= 1
    BY DEF ListedDevicesAnnounced
  <2>1. table[a] \in Holders(a, s)
    BY DEF IInv, TypeOK, References, TableOwns, Holders
  <2>2. Cardinality(Holders(a, s)) # 0
    BY <2>1, HoldersFinite, FS_EmptySet
  <2>3. Cardinality(Holders(a, s)) <= feed[a][s] /\ feed[a][s] \in Int
    BY DEF Balanced, IInv, TypeOK
  <2> QED BY <2>2, <2>3, HoldersFinite
<1> QED BY <1>1, <1>2, <1>3, AddressesHold, IInvInductive, PTL DEF Spec

-----------------------------------------------------------------------------
(***************************************************************************)
(* The quiet environment: nobody enumerates before the load is over and no *)
(* node leaves while it is enumerated.  Endpoint and sub-identifier are    *)
(* both uint8 in the code, and endpoint 0 is that of the device object.    *)
(***************************************************************************)
Quiet ==
  /\ ~LeaveOverlapsEnumeration /\ ~EnumerateDuringLoad
  /\ Endpoint \subseteq 1 .. MaxSub

\* A node the table has, under its own address.
InTable(n) == Allocated(n) /\ table[nodeAddr[n]] = n

\* What the section of a device is to hold.
Copy(n, s) ==
  IF device[n][s] = NoDev THEN NoSection
  ELSE IF dev[device[n][s]].set THEN dev[device[n][s]].id ELSE NoUniqueId

\* The addresses the load has yet to come to, and the devices it is at.
Unread == IF loop.pc = "boot" THEN storedNode ELSE loop.nodes

Loading(n, s) ==
  /\ loop.node = n
  /\ \/ loop.pc \in {"loadDevice", "loadUid"} /\ s \in loop.subs
     \/ loop.pc = "loadUid" /\ s = dev[loop.dev].sub

\* Persistence holds the table and what is still to be loaded.
Sections ==
  /\ storedNode = {a \in Addr : table[a] # NoNode} \cup Unread
  /\ \A a \in Unread : table[a] = NoNode
  /\ \A a \in Addr, s \in SubId :
       table[a] = NoNode /\ a \notin Unread => store[a][s] = NoSection
  /\ \A a \in Addr, s \in SubId : table[a] # NoNode =>
       IF Loading(table[a], s) THEN store[a][s] # NoSection
       ELSE store[a][s] = Copy(table[a], s)

\* No two devices of a node are stored for one endpoint.
Identities ==
  /\ \A a \in Addr, s \in SubId : store[a][s] \in Endpoint \cup {NoSection, NoUniqueId}
  /\ \A a \in Addr, s, t \in SubId :
       s # t /\ store[a][s] \in Endpoint => store[a][s] # store[a][t]

Objects ==
  /\ \A d \in DevObj : ~dev[d].set => dev[d].id = 0
  /\ \A n \in NodeObj, s \in SubId : device[n][s] # NoDev => InTable(n)

\* A device is announced once while it is listed.
Listed(a, s) == table[a] # NoNode /\ device[table[a]][s] # NoDev
Told ==
  \A a \in Addr, s \in SubId : feed[a][s] = IF Listed(a, s) THEN 1 ELSE 0

Books == Sections /\ Identities /\ Objects /\ Told

LoopQuiet ==
  /\ loop.pc \in LoadPc => \A p \in Proc : enum[p].pc = "idle"
  /\ loop.pc \notin LoadPc => loop.nodes = {}
  /\ loop.pc \in {"loadDevice", "loadUid", "joinDevice", "joinAdvertise", "leaving"}
       => InTable(loop.node)
  /\ loop.pc \in {"loadDevice", "loadUid"} =>
       \A s \in loop.subs : device[loop.node][s] = NoDev
  /\ loop.pc = "loadUid" =>
       device[loop.node][dev[loop.dev].sub] = loop.dev /\ ~dev[loop.dev].set
  /\ loop.pc = "joinDevice" => SubsOn(loop.node) = {} /\ loop.node \notin shown
  /\ loop.pc = "leaving" => loop.subs = SubsOn(loop.node)

\* An enumerated node stays in the table, and the provider loop keeps off it.
EnumPlace(t) ==
  t.pc # "idle" =>
    /\ InTable(t.node)
    /\ loop.pc \in {"leaving", "joinDevice"} => loop.node # t.node

\* What an enumeration knows of the devices of its node at each program point.
Found(t, e) ==
  /\ e \in t.inv /\ t.map[e] \in DevicesOn(t.node)
  /\ dev[t.map[e]].set /\ dev[t.map[e]].id = e

EnumWork(t) ==
  LET n == t.node IN
  /\ t.pc \in {"match", "assign", "create"} =>
       t.unset = {d \in DevicesOn(n) : ~dev[d].set}
  /\ t.pc = "create" => t.unset = {} /\ device[n][t.sub] = NoDev
  /\ t.pc = "identify" =>
       /\ t.unset = {} /\ t.map[Least(t.todo)] \in DevicesOn(n)
       /\ \A d \in DevicesOn(n) : dev[d].set <=> d # t.map[Least(t.todo)]
  /\ t.pc \in {"assign", "create", "identify", "remove", "removing", "caps"} =>
       \A e \in Endpoint :
         t.map[e] # NoDev /\ ~(t.pc = "identify" /\ e = Least(t.todo)) => Found(t, e)
  /\ t.pc \in {"assign", "create", "identify"} =>
       \A e \in t.todo, d \in DevicesOn(n) : dev[d].id # e
  /\ t.pc \in {"remove", "removing"} =>
       t.stale = {s \in SubsOn(n) : dev[device[n][s]].id \notin t.inv}
  /\ t.pc = "removing" => t.target = n /\ t.sub \in t.stale
  /\ t.pc = "caps" => \A d \in DevicesOn(n) : dev[d].set /\ dev[d].id \in t.inv

EnumQuiet == \A p \in Proc : EnumPlace(enum[p]) /\ EnumWork(enum[p])

QuietIInv == Books /\ LoopQuiet /\ EnumQuiet

-----------------------------------------------------------------------------
(* What the operations do to the tables, entry by entry.                   *)

\* A device is under one place of one node.
LEMMA OnePlace ==
  ASSUME DeviceAddresses, NEW n \in NodeObj, NEW s \in SubId, NEW m \in NodeObj,
         NEW r \in SubId, device[n][s] # NoDev, device[m][r] = device[n][s]
  PROVE  m = n /\ r = s
BY DEF DeviceAddresses

LEMMA CreateDeviceEffect ==
  ASSUME IInv, Sections, NEW n \in NodeObj, NEW s \in SubId, NEW d \in DevObj,
         InTable(n), CreateDevice(n, s, d)
  PROVE  /\ \A m \in NodeObj, r \in SubId :
              device'[m][r] = IF m = n /\ r = s THEN d ELSE device[m][r]
         /\ \A x \in DevObj \ {d} : dev'[x] = dev[x]
         /\ dev'[d] = [node |-> n, sub |-> s, set |-> FALSE, id |-> 0]
         /\ \A b \in Addr, r \in SubId :
              feed'[b][r] = IF b = nodeAddr[n] /\ r = s THEN feed[b][r] + 1 ELSE feed[b][r]
         /\ \A b \in Addr, r \in SubId :
              store'[b][r] = IF b = nodeAddr[n] /\ r = s /\ store[b][r] = NoSection
                             THEN NoUniqueId ELSE store[b][r]
         /\ storedNode' = storedNode /\ shown' = shown \cup {n}
         /\ \A m \in NodeObj, r \in SubId : device[m][r] # d
         /\ \A p \in Proc : d \notin enum[p].unset /\ \A e \in Endpoint : enum[p].map[e] # d
<1> DEFINE a == nodeAddr[n]
<1>1. a \in Addr /\ a \in storedNode
  BY NodeTableAssumption DEF InTable, Allocated, Sections
<1>2. \A m \in NodeObj, r \in SubId :
         device'[m][r] = IF m = n /\ r = s THEN d ELSE device[m][r]
  BY DEF CreateDevice, IInv, TypeOK
<1>3. \A x \in DevObj \ {d} : dev'[x] = dev[x]
  BY DEF CreateDevice, IInv, TypeOK
<1>4. dev'[d] = [node |-> n, sub |-> s, set |-> FALSE, id |-> 0]
  BY DEF CreateDevice, IInv, TypeOK
<1>5. \A b \in Addr, r \in SubId :
         feed'[b][r] = IF b = a /\ r = s THEN feed[b][r] + 1 ELSE feed[b][r]
  BY <1>1 DEF CreateDevice, IInv, TypeOK
<1>6. \A b \in Addr, r \in SubId :
         store'[b][r] = IF b = a /\ r = s /\ store[b][r] = NoSection
                        THEN NoUniqueId ELSE store[b][r]
  BY <1>1 DEF CreateDevice, TouchDeviceSection, IInv, TypeOK
<1>7. storedNode' = storedNode /\ shown' = shown \cup {n}
  BY <1>1 DEF CreateDevice, TouchDeviceSection
<1>8. ~Referenced(d)
  BY DEF CreateDevice
<1> HIDE DEF a
<1>9. \A m \in NodeObj, r \in SubId : device[m][r] # d
  BY <1>8 DEF Referenced
<1>10. \A p \in Proc : d \notin enum[p].unset /\ \A e \in Endpoint : enum[p].map[e] # d
  BY <1>8 DEF Referenced
<1> QED BY <1>2, <1>3, <1>4, <1>5, <1>6, <1>7, <1>9, <1>10 DEF a

LEMMA SetUniqueIdEffect ==
  ASSUME IInv, Sections, DeviceAddresses, NEW n \in NodeObj, NEW s \in SubId,
         NEW d \in DevObj, device[n][s] = d, InTable(n), NEW id \in Nat, SetUniqueId(d, id)
  PROVE  /\ \A x \in DevObj \ {d} : dev'[x] = dev[x]
         /\ dev'[d].node = n /\ dev'[d].sub = s
         /\ dev'[d].set /\ dev'[d].id = id
         /\ \A b \in Addr, r \in SubId :
              store'[b][r] = IF b = nodeAddr[n] /\ r = s THEN id ELSE store[b][r]
         /\ storedNode' = storedNode
<1> DEFINE a == nodeAddr[n]
<1>1. a \in Addr /\ a \in storedNode
  BY NodeTableAssumption DEF InTable, Allocated, Sections
<1>2. dev[d].node = n /\ dev[d].sub = s
  BY NodeTableAssumption DEF DeviceAddresses
<1>3. \A x \in DevObj \ {d} : dev'[x] = dev[x]
  BY DEF SetUniqueId, IInv, TypeOK
<1>4. dev'[d] = [dev[d] EXCEPT !.set = TRUE, !.id = id]
  BY DEF SetUniqueId, IInv, TypeOK, DevRecord
<1>5. dev'[d].set /\ dev'[d].id = id /\ dev'[d].node = n /\ dev'[d].sub = s
  BY <1>2, <1>4 DEF IInv, TypeOK, DevRecord
<1>6. \A b \in Addr, r \in SubId :
         store'[b][r] = IF b = a /\ r = s THEN id ELSE store[b][r]
  BY <1>1, <1>2 DEF SetUniqueId, IInv, TypeOK
<1>7. storedNode' = storedNode
  BY <1>1, <1>2 DEF SetUniqueId
<1> QED BY <1>3, <1>5, <1>6, <1>7

LEMMA DropDeviceEffect ==
  ASSUME IInv, Sections, NEW n \in NodeObj, NEW s \in SubId,
         InTable(n), device[n][s] # NoDev, DropDevice(n, s)
  PROVE  /\ \A m \in NodeObj, r \in SubId :
              device'[m][r] = IF m = n /\ r = s THEN NoDev ELSE device[m][r]
         /\ \A b \in Addr, r \in SubId :
              feed'[b][r] = IF b = nodeAddr[n] /\ r = s THEN feed[b][r] - 1 ELSE feed[b][r]
         /\ \A b \in Addr, r \in SubId :
              store'[b][r] = IF b = nodeAddr[n] /\ r = s THEN NoSection ELSE store[b][r]
         /\ storedNode' = storedNode
<1> DEFINE a == nodeAddr[n]
<1>1. a \in Addr /\ a \in storedNode
  BY NodeTableAssumption DEF InTable, Allocated, Sections
<1>2. /\ device' = [device EXCEPT ![n][s] = NoDev]
      /\ feed' = [feed EXCEPT ![a][s] = @ - 1]
      /\ storedNode' = storedNode \cup {a}
      /\ store' = [store EXCEPT ![a][s] = NoSection]
  BY DEF DropDevice, DeleteDeviceSection
<1>3. \A m \in NodeObj, r \in SubId :
         device'[m][r] = IF m = n /\ r = s THEN NoDev ELSE device[m][r]
  BY <1>2 DEF IInv, TypeOK
<1>4. \A b \in Addr, r \in SubId :
         feed'[b][r] = IF b = a /\ r = s THEN feed[b][r] - 1 ELSE feed[b][r]
  BY <1>1, <1>2 DEF IInv, TypeOK
<1>5. \A b \in Addr, r \in SubId :
         store'[b][r] = IF b = a /\ r = s THEN NoSection ELSE store[b][r]
  BY <1>1, <1>2 DEF IInv, TypeOK
<1> QED BY <1>1, <1>2, <1>3, <1>4, <1>5

-----------------------------------------------------------------------------
(* The books are kept by each operation.                                   *)

LEMMA Sentinels ==
  ASSUME Quiet
  PROVE  /\ Endpoint \subseteq Nat /\ 0 \notin Endpoint
         /\ NoSection \notin Endpoint /\ NoUniqueId \notin Endpoint
         /\ NoSection \notin Nat /\ NoUniqueId \notin Nat /\ NoSection # NoUniqueId
BY NodeTableAssumption DEF Quiet, NoSection, NoUniqueId

\* The node the table has for an address is one of its nodes.
LEMMA TableNode ==
  ASSUME IInv, NEW a \in Addr, table[a] # NoNode
  PROVE  table[a] \in NodeObj /\ nodeAddr[table[a]] = a /\ InTable(table[a])
BY DEF IInv, TypeOK, References, TableOwns, InTable, Allocated

LEMMA CreateDeviceBooks ==
  ASSUME Quiet, IInv, Books, NEW n \in NodeObj, NEW s \in SubId, NEW d \in DevObj,
         InTable(n), device[n][s] = NoDev, CreateDevice(n, s, d),
         UNCHANGED <<table, nodeAddr>>, Unread' = Unread,
         \A m \in NodeObj, r \in SubId : Loading(m, r)' <=> Loading(m, r)
  PROVE  Books'
<1> USE DEF Books
<1>1. /\ \A m \in NodeObj, r \in SubId :
           device'[m][r] = IF m = n /\ r = s THEN d ELSE device[m][r]
      /\ \A x \in DevObj \ {d} : dev'[x] = dev[x]
      /\ dev'[d] = [node |-> n, sub |-> s, set |-> FALSE, id |-> 0]
      /\ \A b \in Addr, r \in SubId :
           feed'[b][r] = IF b = nodeAddr[n] /\ r = s THEN feed[b][r] + 1 ELSE feed[b][r]
      /\ \A b \in Addr, r \in SubId :
           store'[b][r] = IF b = nodeAddr[n] /\ r = s /\ store[b][r] = NoSection
                          THEN NoUniqueId ELSE store[b][r]
      /\ storedNode' = storedNode /\ shown' = shown \cup {n}
      /\ \A m \in NodeObj, r \in SubId : device[m][r] # d
  BY CreateDeviceEffect
<1>2. d # NoDev
  BY NodeTableAssumption
<1>3. \A m \in NodeObj, r \in SubId : device[m][r] # NoDev => device[m][r] \in DevObj \ {d}
  BY <1>1 DEF IInv, TypeOK
<1>4. \A m \in NodeObj, r \in SubId :
        Copy(m, r)' = IF m = n /\ r = s THEN NoUniqueId ELSE Copy(m, r)
  BY <1>1, <1>2, <1>3 DEF Copy
<1>5. table[nodeAddr[n]] = n /\ nodeAddr[n] \in Addr /\ n # NoNode
  BY NodeTableAssumption DEF InTable, Allocated
<1>6. Sections'
  <2>1. storedNode' = {a \in Addr : table'[a] # NoNode} \cup Unread'
        /\ \A a \in Unread' : table'[a] = NoNode
    BY <1>1 DEF Sections
  <2>2. ASSUME NEW a \in Addr, NEW r \in SubId, table'[a] = NoNode, a \notin Unread'
        PROVE  store'[a][r] = NoSection
    BY <1>1, <1>5, <2>2 DEF Sections
  <2>3. ASSUME NEW a \in Addr, NEW r \in SubId, table'[a] # NoNode
        PROVE  IF Loading(table[a], r)' THEN store'[a][r] # NoSection
               ELSE store'[a][r] = Copy(table[a], r)'
    <3>1. table[a] \in NodeObj /\ nodeAddr[table[a]] = a
      BY <2>3, TableNode
    <3>2. Loading(table[a], r)' <=> Loading(table[a], r)
      BY <3>1
    <3>3. IF Loading(table[a], r) THEN store[a][r] # NoSection
          ELSE store[a][r] = Copy(table[a], r)
      BY <2>3 DEF Sections
    <3>4. Copy(table[a], r)' = IF table[a] = n /\ r = s THEN NoUniqueId ELSE Copy(table[a], r)
      BY <1>4, <3>1
    <3>5. CASE Loading(table[a], r)
      BY <1>1, <3>2, <3>3, <3>5, Sentinels
    <3>6. CASE ~Loading(table[a], r) /\ table[a] = n /\ r = s
      <4>1. store[a][r] = NoSection
        BY <3>3, <3>6 DEF Copy
      <4> QED BY <1>1, <3>1, <3>2, <3>4, <3>6, <4>1
    <3>7. CASE ~Loading(table[a], r) /\ ~(table[a] = n /\ r = s)
      <4>1. store'[a][r] = store[a][r]
        BY <1>1, <1>5, <3>7
      <4> QED BY <3>2, <3>3, <3>4, <3>7, <4>1
    <3> QED BY <3>5, <3>6, <3>7
  <2> QED BY <2>1, <2>2, <2>3 DEF Sections
<1>7. Identities'
  BY <1>1, Sentinels DEF Identities
<1>8. Objects'
  <2>1. ASSUME NEW x \in DevObj, ~dev'[x].set PROVE dev'[x].id = 0
    BY <1>1, <2>1 DEF Objects
  <2>2. ASSUME NEW m \in NodeObj, NEW r \in SubId, device'[m][r] # NoDev PROVE InTable(m)'
    BY <1>1, <2>2 DEF Objects, InTable, Allocated
  <2> QED BY <2>1, <2>2 DEF Objects
<1>9. Told'
  <2> SUFFICES ASSUME NEW a \in Addr, NEW r \in SubId
               PROVE  feed'[a][r] = IF Listed(a, r)' THEN 1 ELSE 0
    BY DEF Told
  <2>1. feed[a][r] = IF Listed(a, r) THEN 1 ELSE 0
    BY DEF Told
  <2>2. CASE a = nodeAddr[n] /\ r = s
    <3>1. ~Listed(a, r) /\ Listed(a, r)'
      BY <1>1, <1>2, <1>5, <2>2 DEF Listed
    <3> QED BY <1>1, <2>1, <2>2, <3>1
  <2>3. CASE ~(a = nodeAddr[n] /\ r = s)
    <3>1. Listed(a, r)' <=> Listed(a, r)
      BY <1>1, <1>5, <2>3, TableNode DEF Listed
    <3> QED BY <1>1, <2>1, <2>3, <3>1
  <2> QED BY <2>2, <2>3
<1> QED BY <1>6, <1>7, <1>8, <1>9

LEMMA SetUniqueIdBooks ==
  ASSUME Quiet, IInv, Books, DeviceAddresses, NEW n \in NodeObj, NEW s \in SubId,
         NEW d \in DevObj, device[n][s] = d, InTable(n), NEW id \in Endpoint,
         SetUniqueId(d, id),
         \A r \in SubId \ {s} : store[nodeAddr[n]][r] # id,
         UNCHANGED <<table, nodeAddr, device, feed>>, Unread' = Unread,
         \A m \in NodeObj, r \in SubId :
           Loading(m, r)' <=> Loading(m, r) /\ ~(m = n /\ r = s)
  PROVE  Books'
<1> USE DEF Books
<1>0. id \in Nat /\ Sections
  BY Sentinels
<1>1. /\ \A x \in DevObj \ {d} : dev'[x] = dev[x]
      /\ dev'[d].set /\ dev'[d].id = id
      /\ \A b \in Addr, r \in SubId :
           store'[b][r] = IF b = nodeAddr[n] /\ r = s THEN id ELSE store[b][r]
      /\ storedNode' = storedNode
  BY <1>0, SetUniqueIdEffect
<1>2. \A m \in NodeObj, r \in SubId :
        Copy(m, r)' = IF m = n /\ r = s THEN id ELSE Copy(m, r)
  <2> SUFFICES ASSUME NEW m \in NodeObj, NEW r \in SubId
               PROVE  Copy(m, r)' = IF m = n /\ r = s THEN id ELSE Copy(m, r)
    OBVIOUS
  <2>1. CASE m = n /\ r = s
    BY <1>1, <2>1, NodeTableAssumption DEF Copy
  <2>2. CASE ~(m = n /\ r = s) /\ device[m][r] # NoDev
    <3>1. device[m][r] # d /\ device[m][r] \in DevObj
      BY <2>2, OnePlace DEF IInv, TypeOK
    <3> QED BY <1>1, <2>2, <3>1 DEF Copy
  <2>3. CASE ~(m = n /\ r = s) /\ device[m][r] = NoDev
    BY <1>1, <2>3 DEF Copy
  <2> QED BY <2>1, <2>2, <2>3
<1>3. table[nodeAddr[n]] = n /\ nodeAddr[n] \in Addr /\ n # NoNode
  BY NodeTableAssumption DEF InTable, Allocated
<1>4. Sections'
  <2>1. storedNode' = {a \in Addr : table'[a] # NoNode} \cup Unread'
        /\ \A a \in Unread' : table'[a] = NoNode
    BY <1>1 DEF Sections
  <2>2. ASSUME NEW a \in Addr, NEW r \in SubId, table'[a] = NoNode, a \notin Unread'
        PROVE  store'[a][r] = NoSection
    BY <1>1, <1>3, <2>2 DEF Sections
  <2>3. ASSUME NEW a \in Addr, NEW r \in SubId, table'[a] # NoNode
        PROVE  IF Loading(table[a], r)' THEN store'[a][r] # NoSection
               ELSE store'[a][r] = Copy(table[a], r)'
    <3>1. table[a] \in NodeObj /\ nodeAddr[table[a]] = a
      BY <2>3, TableNode
    <3>2. Loading(table[a], r)' <=> Loading(table[a], r) /\ ~(table[a] = n /\ r = s)
      BY <3>1
    <3>3. IF Loading(table[a], r) THEN store[a][r] # NoSection
          ELSE store[a][r] = Copy(table[a], r)
      BY <2>3 DEF Sections
    <3>4. Copy(table[a], r)' = IF table[a] = n /\ r = s THEN id ELSE Copy(table[a], r)
      BY <1>2, <3>1
    <3>5. store'[a][r] = IF table[a] = n /\ r = s THEN id ELSE store[a][r]
      BY <1>1, <1>3, <3>1
    <3> QED BY <3>2, <3>3, <3>4, <3>5
  <2> QED BY <2>1, <2>2, <2>3 DEF Sections
<1>5. Identities'
  <2>1. ASSUME NEW a \in Addr, NEW r \in SubId
        PROVE  store'[a][r] \in Endpoint \cup {NoSection, NoUniqueId}
    BY <1>1 DEF Identities
  <2>2. ASSUME NEW a \in Addr, NEW r \in SubId, NEW t \in SubId, r # t,
               store'[a][r] \in Endpoint
        PROVE  store'[a][r] # store'[a][t]
    BY <1>1, <1>3, <2>2 DEF Identities
  <2> QED BY <2>1, <2>2 DEF Identities
<1>6. Objects'
  <2>1. ASSUME NEW x \in DevObj, ~dev'[x].set PROVE dev'[x].id = 0
    BY <1>1, <2>1 DEF Objects
  <2>2. ASSUME NEW m \in NodeObj, NEW r \in SubId, device'[m][r] # NoDev PROVE InTable(m)'
    BY <2>2 DEF Objects, InTable, Allocated
  <2> QED BY <2>1, <2>2 DEF Objects
<1>7. Told'
  BY DEF Told, Listed
<1> QED BY <1>4, <1>5, <1>6, <1>7

LEMMA DropDeviceBooks ==
  ASSUME Quiet, IInv, Books, DeviceAddresses, NEW n \in NodeObj, NEW s \in SubId,
         InTable(n), device[n][s] # NoDev, DropDevice(n, s),
         UNCHANGED <<table, nodeAddr, dev>>, Unread' = Unread,
         \A m \in NodeObj, r \in SubId : ~Loading(m, r) /\ ~Loading(m, r)'
  PROVE  Books'
<1> USE DEF Books
<1>1. /\ \A m \in NodeObj, r \in SubId :
           device'[m][r] = IF m = n /\ r = s THEN NoDev ELSE device[m][r]
      /\ \A b \in Addr, r \in SubId :
           feed'[b][r] = IF b = nodeAddr[n] /\ r = s THEN feed[b][r] - 1 ELSE feed[b][r]
      /\ \A b \in Addr, r \in SubId :
           store'[b][r] = IF b = nodeAddr[n] /\ r = s THEN NoSection ELSE store[b][r]
      /\ storedNode' = storedNode
  BY DropDeviceEffect
<1>2. \A m \in NodeObj, r \in SubId :
        Copy(m, r)' = IF m = n /\ r = s THEN NoSection ELSE Copy(m, r)
  BY <1>1 DEF Copy
<1>3. table[nodeAddr[n]] = n /\ nodeAddr[n] \in Addr /\ n # NoNode
  BY NodeTableAssumption DEF InTable, Allocated
<1>4. Sections'
  <2>1. storedNode' = {a \in Addr : table'[a] # NoNode} \cup Unread'
        /\ \A a \in Unread' : table'[a] = NoNode
    BY <1>1 DEF Sections
  <2>2. ASSUME NEW a \in Addr, NEW r \in SubId, table'[a] = NoNode, a \notin Unread'
        PROVE  store'[a][r] = NoSection
    BY <1>1, <2>2 DEF Sections
  <2>3. ASSUME NEW a \in Addr, NEW r \in SubId, table'[a] # NoNode
        PROVE  /\ ~Loading(table[a], r)'
               /\ store'[a][r] = Copy(table[a], r)'
    <3>1. table[a] \in NodeObj /\ nodeAddr[table[a]] = a
      BY <2>3, TableNode
    <3>2. store[a][r] = Copy(table[a], r)
      BY <2>3, <3>1 DEF Sections
    <3> QED BY <1>1, <1>2, <1>3, <3>1, <3>2
  <2> QED BY <2>1, <2>2, <2>3 DEF Sections
<1>5. Identities'
  BY <1>1, Sentinels DEF Identities
<1>6. Objects'
  BY <1>1 DEF Objects, InTable, Allocated
<1>7. Told'
  <2> SUFFICES ASSUME NEW a \in Addr, NEW r \in SubId
               PROVE  feed'[a][r] = IF Listed(a, r)' THEN 1 ELSE 0
    BY DEF Told
  <2>1. feed[a][r] = IF Listed(a, r) THEN 1 ELSE 0
    BY DEF Told
  <2>2. CASE a = nodeAddr[n] /\ r = s
    <3>1. Listed(a, r) /\ ~Listed(a, r)'
      BY <1>1, <1>3, <2>2 DEF Listed
    <3> QED BY <1>1, <2>1, <2>2, <3>1
  <2>3. CASE ~(a = nodeAddr[n] /\ r = s)
    <3>1. Listed(a, r)' <=> Listed(a, r)
      BY <1>1, <1>3, <2>3, TableNode DEF Listed
    <3> QED BY <1>1, <2>1, <2>3, <3>1
  <2> QED BY <2>2, <2>3
<1> QED BY <1>4, <1>5, <1>6, <1>7

\* ... and by a step that leaves the tables and what is being loaded alone.
LEMMA SameBooks ==
  ASSUME Books, UNCHANGED <<table, nodeAddr, device, dev, storedNode, store, feed>>,
         IInv, Unread' = Unread,
         \A m \in NodeObj, r \in SubId : Loading(m, r)' <=> Loading(m, r)
  PROVE  Books'
<1> USE DEF Books
<1>1. \A m, r : Copy(m, r)' = Copy(m, r)
  BY DEF Copy
<1>2. Sections'
  BY <1>1, TableNode DEF Sections
<1>3. Identities' /\ Objects' /\ Told'
  BY DEF Identities, Objects, Told, Listed, InTable, Allocated
<1> QED BY <1>2, <1>3

-----------------------------------------------------------------------------
(* What an enumeration leaves to the others.                               *)

\* The devices of every node but one are left alone.
Elsewhere(n) ==
  \A m \in NodeObj \ {n}, s \in SubId :
    /\ device'[m][s] = device[m][s]
    /\ device[m][s] # NoDev => dev'[device[m][s]] = dev[device[m][s]]

\* The devices of a node, and what an enumeration of it knows of them, depend
\* on nothing else.
LEMMA WorkKept ==
  ASSUME NEW n, NEW m \in NodeObj \ {n}, Elsewhere(n)
  PROVE  /\ SubsOn(m)' = SubsOn(m) /\ DevicesOn(m)' = DevicesOn(m)
         /\ \A d \in DevicesOn(m) : dev'[d] = dev[d]
         /\ \A t \in EnumRecord : t.node = m /\ EnumWork(t) => EnumWork(t)'
<1>1. \A s \in SubId : device'[m][s] = device[m][s]
  BY DEF Elsewhere
<1>2. SubsOn(m)' = SubsOn(m)
  BY <1>1 DEF SubsOn
<1>3. DevicesOn(m)' = DevicesOn(m)
  BY <1>1, <1>2 DEF DevicesOn, SubsOn
<1>4. \A d \in DevicesOn(m) : dev'[d] = dev[d]
  BY DEF Elsewhere, DevicesOn, SubsOn
<1>5. \A s \in SubsOn(m) : device[m][s] \in DevicesOn(m)
  BY DEF DevicesOn
<1>6. ASSUME NEW t \in EnumRecord, t.node = m, EnumWork(t) PROVE EnumWork(t)'
  <2>1. {d \in DevicesOn(m) : ~dev'[d].set} = {d \in DevicesOn(m) : ~dev[d].set}
    BY <1>4
  <2>2. {s \in SubsOn(m) : dev'[device'[m][s]].id \notin t.inv}
          = {s \in SubsOn(m) : dev[device[m][s]].id \notin t.inv}
    BY <1>1, <1>4, <1>5 DEF SubsOn
  <2>3. \A e \in Endpoint : Found(t, e) => Found(t, e)'
    BY <1>3, <1>4, <1>6 DEF Found
  <2>4. t.pc = "create" => device'[m][t.sub] = NoDev
    BY <1>1, <1>6 DEF EnumWork, EnumRecord
  <2> QED BY <1>2, <1>3, <1>4, <1>6, <2>1, <2>2, <2>3, <2>4 DEF EnumWork
<1> QED BY <1>2, <1>3, <1>4, <1>6

\* A step of one enumeration, as the others and the provider loop see it.
LEMMA EnumStepQuiet ==
  ASSUME IInv, ExclusiveEnumeration, LoopQuiet, EnumQuiet, NEW p \in Proc,
         enum[p].pc # "idle", NEW t \in EnumRecord, enum' = [enum EXCEPT ![p] = t],
         t.pc # "idle" => t.node = enum[p].node, EnumWork(t)',
         UNCHANGED <<table, nodeAddr, loop>>, Elsewhere(enum[p].node),
         shown' \subseteq shown \cup {enum[p].node}
  PROVE  LoopQuiet' /\ EnumQuiet'
<1> DEFINE n == enum[p].node
<1>1. enum'[p] = t /\ \A q \in Proc \ {p} : enum'[q] = enum[q]
  BY DEF IInv, TypeOK
<1>2. n \in NodeObj /\ n # NoNode /\ enum[p] \in EnumRecord
  BY NodeTableAssumption DEF IInv, TypeOK, References, EnumGood, Allocated
<1>3. EnumPlace(enum[p])
  BY DEF EnumQuiet
<1>4. \A m \in NodeObj : InTable(m)' <=> InTable(m)
  BY DEF InTable, Allocated
<1>5. EnumQuiet'
  <2> SUFFICES ASSUME NEW q \in Proc PROVE EnumPlace(enum[q])' /\ EnumWork(enum[q])'
    BY DEF EnumQuiet
  <2>1. CASE q = p
    <3>1. EnumPlace(t)'
      BY <1>2, <1>3, <1>4 DEF EnumPlace
    <3> QED BY <1>1, <2>1, <3>1 DEF EnumPlace, EnumWork, Found
  <2>2. CASE q # p
    <3>1. enum[q] \in EnumRecord /\ EnumPlace(enum[q]) /\ EnumWork(enum[q]) /\ enum'[q] = enum[q]
      BY <1>1, <2>2 DEF IInv, TypeOK, EnumQuiet
    <3> DEFINE u == enum[q]
    <3>2. PICK r \in EnumRecord : r = enum[q]
      BY <3>1
    <3>3. EnumPlace(r)'
      BY <1>4, <3>1, <3>2 DEF EnumPlace, InTable, Allocated
    <3>4. EnumWork(r)'
      <4>1. CASE r.pc = "idle"
        BY <4>1 DEF EnumWork
      <4>2. CASE r.pc # "idle"
        <5>1. r.node \in NodeObj \ {n}
          BY <1>2, <2>2, <3>1, <3>2, <4>2 DEF ExclusiveEnumeration, EnumPlace, InTable, Allocated
        <5> QED BY <1>2, <3>1, <3>2, <5>1, WorkKept
      <4> QED BY <4>1, <4>2
    <3> QED BY <3>1, <3>2, <3>3, <3>4 DEF EnumPlace, EnumWork, Found
  <2> QED BY <2>1, <2>2
<1>6. LoopQuiet'
  <2>1. loop.pc \notin LoadPc
    BY DEF LoopQuiet
  <2>2. loop.nodes = {}
    BY <2>1 DEF LoopQuiet
  <2>3. loop.pc \in {"joinDevice", "joinAdvertise", "leaving"} => InTable(loop.node)'
    BY <1>4 DEF LoopQuiet, InTable, Allocated
  <2>4. loop.pc \in {"joinDevice", "leaving"} => SubsOn(loop.node)' = SubsOn(loop.node)
    BY <1>2, <1>3, WorkKept DEF EnumPlace, LoopQuiet, InTable, Allocated
  <2>5. loop.pc = "joinDevice" => loop.node \notin shown'
    BY <1>3 DEF EnumPlace, LoopQuiet
  <2> QED BY <2>1, <2>2, <2>3, <2>4, <2>5 DEF LoopQuiet, LoadPc
<1> QED BY <1>5, <1>6

\* While a node is enumerated nothing is loaded.
LEMMA NotLoading ==
  ASSUME LoopQuiet, NEW p \in Proc, enum[p].pc # "idle"
  PROVE  loop.pc \notin LoadPc /\ Unread = {} /\ \A m, s : ~Loading(m, s)
BY DEF LoopQuiet, Unread, Loading, LoadPc

\* What it looks at is listed in the books.
LEMMA EnumeratedNode ==
  ASSUME IInv, Books, LoopQuiet, EnumQuiet, NEW p \in Proc, enum[p].pc # "idle"
  PROVE  /\ enum[p] \in EnumRecord /\ EnumGood(enum[p]) /\ EnumWork(enum[p])
         /\ enum[p].node \in NodeObj /\ InTable(enum[p].node)
         /\ \A s \in SubId :
              store[nodeAddr[enum[p].node]][s] = Copy(enum[p].node, s)
<1>1. enum[p] \in EnumRecord /\ EnumGood(enum[p]) /\ EnumWork(enum[p])
      /\ InTable(enum[p].node)
  BY DEF IInv, TypeOK, References, EnumQuiet, EnumPlace
<1>2. enum[p].node \in NodeObj /\ nodeAddr[enum[p].node] \in Addr
      /\ table[nodeAddr[enum[p].node]] = enum[p].node /\ enum[p].node # NoNode
  BY <1>1, NodeTableAssumption DEF InTable, Allocated
<1>3. \A m, s : ~Loading(m, s)
  BY NotLoading
<1> QED BY <1>1, <1>2, <1>3 DEF Books, Sections

-----------------------------------------------------------------------------
(* The steps of an enumeration.                                            *)

\* A step that leaves the tables alone leaves the devices alone everywhere.
LEMMA NothingElsewhere ==
  ASSUME UNCHANGED <<device, dev>>, NEW n
  PROVE  Elsewhere(n)
BY DEF Elsewhere

\* The steps that change only the enumeration's own variables.
LEMMA LocalQuiet ==
  ASSUME IInv, ExclusiveEnumeration, QuietIInv, NEW p \in Proc, enum[p].pc # "idle",
         NEW t \in EnumRecord, enum' = [enum EXCEPT ![p] = t],
         t.pc # "idle" => t.node = enum[p].node, EnumWork(t),
         UNCHANGED <<table, nodeAddr, device, dev, shown, diskVars, feed, loop>>
  PROVE  QuietIInv'
<1>1. EnumWork(t)'
  BY DEF EnumWork, Found, SubsOn, DevicesOn
<1>2. LoopQuiet' /\ EnumQuiet'
  BY <1>1, EnumStepQuiet, NothingElsewhere DEF QuietIInv
<1>3. Books'
  BY SameBooks DEF QuietIInv, diskVars, Unread, Loading
<1> QED BY <1>2, <1>3 DEF QuietIInv

\* The numbers of the devices of a node that all have an id are those of
\* different endpoints; if one endpoint has no device, a number is left.
LEMMA NumberLeft ==
  ASSUME Quiet, IInv, Books, NEW n \in NodeObj, InTable(n),
         \A s \in SubId : store[nodeAddr[n]][s] = Copy(n, s),
         \A d \in DevicesOn(n) : dev[d].set,
         NEW e \in Endpoint, \A d \in DevicesOn(n) : dev[d].id # e
  PROVE  device[n][NextSub(n)] = NoDev
<1> DEFINE a == nodeAddr[n]
           Low == 0 .. MaxSub - 1
           Ids == (1 .. MaxSub) \ {e}
           f == [s \in Low |-> store[a][s]]
<1>1. MaxSub \in Nat /\ e \in 1 .. MaxSub /\ Endpoint \subseteq 1 .. MaxSub
  BY NodeTableAssumption DEF Quiet
<1>2. a \in Addr
  BY DEF InTable, Allocated
<1>3. ASSUME FreeSubs(n) = {} PROVE FALSE
  <2>1. \A s \in Low : s \in SubId /\ device[n][s] # NoDev
    BY <1>1, <1>3 DEF FreeSubs, SubId
  <2>2. \A s \in Low : device[n][s] \in DevicesOn(n)
    BY <2>1 DEF DevicesOn, SubsOn
  <2>3. \A s \in Low : store[a][s] = dev[device[n][s]].id
    BY <2>1, <2>2 DEF Copy
  <2>4. \A s \in Low : dev[device[n][s]].id \in Nat
    BY <2>1 DEF IInv, TypeOK, DevRecord
  <2>5. \A s \in Low : store[a][s] \in Endpoint /\ store[a][s] # e
    BY <1>2, <2>1, <2>2, <2>3, <2>4, Sentinels DEF Books, Identities
  <2>6. f \in [Low -> Ids]
    BY <1>1, <2>5
  <2>7. \A s, t \in Low : s # t => f[s] # f[t]
    BY <1>2, <2>1, <2>5 DEF Books, Identities
  <2>8. IsFiniteSet(Low) /\ Cardinality(Low) = MaxSub
    BY <1>1, FS_Interval
  <2>9. IsFiniteSet(1 .. MaxSub) /\ Cardinality(1 .. MaxSub) = MaxSub
    BY <1>1, FS_Interval
  <2>10. IsFiniteSet(Ids) /\ Cardinality(Ids) = MaxSub - 1
    BY <1>1, <2>9, FS_RemoveElement
  <2>11. \E x, y \in Low : x # y /\ f[x] = f[y]
    <3> HIDE DEF f, Low, Ids
    <3>1. Cardinality(Low) > Cardinality(Ids)
      BY <1>1, <2>8, <2>10
    <3> QED BY <2>6, <2>8, <2>10, <3>1, FS_PigeonHole
  <2> QED BY <2>7, <2>11
<1>4. FreeSubs(n) \in SUBSET Nat
  BY <1>1 DEF FreeSubs
<1>5. NextSub(n) \in FreeSubs(n)
  BY <1>3, <1>4, LeastElement DEF NextSub
<1> QED BY <1>5 DEF FreeSubs

LEMMA LocalEnumQuiet ==
  ASSUME Quiet, IInv, ExclusiveEnumeration, QuietIInv, NEW p \in Proc,
         \/ CollectUnset(p) \/ MatchExisting(p) \/ AssignPick(p)
         \/ CollectStale(p) \/ TableUpdated(p) \/ \E s \in SubId : RemoveLookup(p, s)
  PROVE  QuietIInv'
<1> DEFINE n == enum[p].node
<1>0. enum[p].pc # "idle"
  BY DEF CollectUnset, MatchExisting, AssignPick, CollectStale, TableUpdated, RemoveLookup
<1>1. /\ enum[p] \in EnumRecord /\ EnumGood(enum[p]) /\ EnumWork(enum[p])
      /\ n \in NodeObj /\ InTable(n)
      /\ \A s \in SubId : store[nodeAddr[n]][s] = Copy(n, s)
  BY <1>0, EnumeratedNode DEF QuietIInv
<1>2. DevicesOn(n) \subseteq DevObj /\ \A d \in DevicesOn(n) : dev[d].id \in Nat
  BY <1>1 DEF DevicesOn, SubsOn, IInv, TypeOK, DevRecord
<1>3. \A d \in DevObj : dev[d].id \in Endpoint => dev[d].set
  BY Sentinels DEF QuietIInv, Books, Objects
<1>4. CASE CollectUnset(p)
  <2> DEFINE t == [enum[p] EXCEPT !.pc = "match", !.unset = {d \in DevicesOn(n) : ~dev[d].set}]
  <2>1. t \in EnumRecord /\ enum' = [enum EXCEPT ![p] = t]
    BY <1>1, <1>2, <1>4 DEF CollectUnset, EnumRecord, EnumPc, IInv, TypeOK
  <2>2. EnumWork(t)
    BY <1>1 DEF EnumWork, EnumRecord
  <2> QED BY <1>0, <1>1, <1>4, <2>1, <2>2, LocalQuiet DEF CollectUnset, enumOnly, EnumRecord
<1>5. CASE MatchExisting(p)
  <2>1. PICK map \in [Endpoint -> DevObj \cup {NoDev}] :
          /\ \A e \in Endpoint :
               IF e \in enum[p].inv /\ Matches(p, e) # {}
               THEN map[e] \in Matches(p, e) ELSE map[e] = NoDev
          /\ enum' = [enum EXCEPT ![p].pc = "assign", ![p].map = map,
                          ![p].todo = {e \in enum[p].inv : map[e] = NoDev}]
    BY <1>5 DEF MatchExisting
  <2> DEFINE t == [enum[p] EXCEPT !.pc = "assign", !.map = map,
                                  !.todo = {e \in enum[p].inv : map[e] = NoDev}]
  <2>2. t \in EnumRecord /\ enum' = [enum EXCEPT ![p] = t]
    BY <1>1, <1>5, <2>1 DEF EnumRecord, EnumPc, IInv, TypeOK
  <2>3. t.unset = {d \in DevicesOn(n) : ~dev[d].set}
    BY <1>1, <1>5 DEF MatchExisting, EnumWork, EnumRecord
  <2>4. ASSUME NEW e \in Endpoint, map[e] # NoDev
        PROVE  Found(t, e)
    <3>1. e \in enum[p].inv /\ map[e] \in DevicesOn(n) /\ dev[map[e]].id = e
      BY <2>1, <2>4 DEF Matches
    <3>2. dev[map[e]].set
      BY <1>2, <1>3, <3>1
    <3> QED BY <1>1, <3>1, <3>2 DEF Found, EnumRecord
  <2>5. \A e \in t.todo, d \in DevicesOn(n) : dev[d].id # e
    <3> SUFFICES ASSUME NEW e \in enum[p].inv, map[e] = NoDev, NEW d \in DevicesOn(n), dev[d].id = e
                 PROVE  FALSE
      BY <1>1 DEF EnumRecord
    <3>1. d \in Matches(p, e) /\ e \in Endpoint
      BY <1>1 DEF Matches, EnumRecord
    <3> QED BY <1>2, <2>1, <3>1, NodeTableAssumption DEF Matches
  <2>6. t.pc = "assign" /\ t.node = n /\ t.map = map
    BY <1>1 DEF EnumRecord
  <2>7. EnumWork(t)
    <3> HIDE DEF t
    <3> QED BY <2>3, <2>4, <2>5, <2>6 DEF EnumWork
  <2> QED BY <1>0, <1>1, <1>5, <2>2, <2>6, <2>7, LocalQuiet DEF MatchExisting, enumOnly
<1>6. CASE AssignPick(p)
  <2> DEFINE t == [enum[p] EXCEPT !.pc = "create", !.sub = NextSub(n)]
  <2>1. NextSub(n) \in SubId
    BY <1>1, NextSubIn
  <2>2. t \in EnumRecord /\ enum' = [enum EXCEPT ![p] = t]
    BY <1>1, <1>6, <2>1 DEF AssignPick, EnumRecord, EnumPc, IInv, TypeOK
  <2>3. device[n][NextSub(n)] = NoDev
    <3>1. PICK e \in Endpoint : e \in enum[p].todo
      BY <1>1, <1>6 DEF AssignPick, EnumRecord
    <3>2. \A d \in DevicesOn(n) : dev[d].id # e
      BY <1>1, <1>6, <3>1 DEF AssignPick, EnumWork
    <3>3. \A d \in DevicesOn(n) : dev[d].set
      BY <1>1, <1>6 DEF AssignPick, EnumWork
    <3> QED BY <1>1, <3>2, <3>3, NumberLeft DEF QuietIInv
  <2>4. /\ t.pc = "create" /\ t.node = n /\ t.sub = NextSub(n) /\ t.map = enum[p].map
        /\ t.unset = enum[p].unset /\ t.todo = enum[p].todo /\ t.inv = enum[p].inv
    BY <1>1 DEF EnumRecord
  <2>5. EnumWork(t)
    <3> HIDE DEF t
    <3> QED BY <1>1, <1>6, <2>3, <2>4 DEF AssignPick, EnumWork, Found
  <2> QED BY <1>0, <1>1, <1>6, <2>2, <2>4, <2>5, LocalQuiet DEF AssignPick, enumOnly
<1>7. CASE CollectStale(p)
  <2> DEFINE S == {s \in SubsOn(n) : dev[device[n][s]].id \notin Mapped(p)}
             t == [enum[p] EXCEPT !.pc = "remove", !.stale = S]
  <2>1. t \in EnumRecord /\ enum' = [enum EXCEPT ![p] = t]
    BY <1>1, <1>7 DEF CollectStale, EnumRecord, EnumPc, IInv, TypeOK, SubsOn
  <2>2. Mapped(p) = enum[p].inv
    BY <1>1, <1>7 DEF CollectStale, EnumWork, Mapped, EnumGood, Found, EnumRecord
  <2>3. /\ t.pc = "remove" /\ t.node = n /\ t.map = enum[p].map
        /\ t.inv = enum[p].inv /\ t.todo = enum[p].todo /\ t.stale = S
    BY <1>1 DEF EnumRecord
  <2>4. EnumWork(t)
    <3> HIDE DEF t
    <3> QED BY <1>1, <1>7, <2>2, <2>3 DEF CollectStale, EnumWork, Found
  <2> QED BY <1>0, <1>1, <1>7, <2>1, <2>3, <2>4, LocalQuiet DEF CollectStale, enumOnly
<1>8. CASE TableUpdated(p)
  <2> DEFINE t == [enum[p] EXCEPT !.pc = "caps", !.todo = enum[p].inv, !.unset = {}]
  <2>1. t \in EnumRecord /\ enum' = [enum EXCEPT ![p] = t]
    BY <1>1, <1>8 DEF TableUpdated, EnumRecord, EnumPc, IInv, TypeOK
  <2>2. /\ t.pc = "caps" /\ t.node = n /\ t.map = enum[p].map /\ t.inv = enum[p].inv
    BY <1>1 DEF EnumRecord
  <2>3. ASSUME NEW d \in DevicesOn(n) PROVE dev[d].set /\ dev[d].id \in enum[p].inv
    <3>1. PICK s \in SubsOn(n) : d = device[n][s]
      BY DEF DevicesOn
    <3>2. dev[d].id \in enum[p].inv
      BY <1>1, <1>8, <3>1 DEF TableUpdated, EnumWork
    <3> QED BY <1>1, <1>2, <1>3, <3>2 DEF EnumRecord
  <2>4. EnumWork(t)
    <3> HIDE DEF t
    <3> QED BY <1>1, <1>8, <2>2, <2>3 DEF TableUpdated, EnumWork, Found
  <2> QED BY <1>0, <1>1, <1>8, <2>1, <2>2, <2>4, LocalQuiet DEF TableUpdated, enumOnly
<1>9. ASSUME NEW s \in SubId, RemoveLookup(p, s)
      PROVE  QuietIInv'
  <2> DEFINE t == [enum[p] EXCEPT !.pc = "removing", !.sub = s, !.target = n]
  <2>1. table[nodeAddr[n]] = n /\ n # NoNode
    BY <1>1, NodeTableAssumption DEF InTable
  <2>2. t \in EnumRecord /\ enum' = [enum EXCEPT ![p] = t]
    BY <1>1, <1>9, <2>1 DEF RemoveLookup, EnumRecord, EnumPc, IInv, TypeOK
  <2>3. /\ t.pc = "removing" /\ t.node = n /\ t.map = enum[p].map /\ t.inv = enum[p].inv
        /\ t.stale = enum[p].stale /\ t.target = n /\ t.sub = s
    BY <1>1 DEF EnumRecord
  <2>4. enum[p].pc = "remove" /\ s \in enum[p].stale
    BY <1>9 DEF RemoveLookup
  <2>5. EnumWork(t)
    <3> HIDE DEF t
    <3> QED BY <1>1, <2>3, <2>4 DEF EnumWork, Found
  <2> QED BY <1>0, <1>1, <1>9, <2>2, <2>3, <2>5, LocalQuiet DEF RemoveLookup, enumOnly
<1> QED BY <1>4, <1>5, <1>6, <1>7, <1>8, <1>9

\* A goroutine ends knowing nothing.
LEMMA EndQuiet ==
  ASSUME IInv, ExclusiveEnumeration, QuietIInv, NEW p \in Proc, enum[p].pc # "idle",
         enum' = [enum EXCEPT ![p] = Idle],
         UNCHANGED <<table, nodeAddr, device, dev, shown, diskVars, feed, loop>>
  PROVE  QuietIInv'
<1>1. Idle \in EnumRecord /\ Idle.pc = "idle" /\ EnumWork(Idle)
  BY IdleGood DEF Idle, EnumWork
<1> QED BY <1>1, LocalQuiet

LEMMA InterrogateQuiet ==
  ASSUME IInv, ExclusiveEnumeration, QuietIInv, NEW p \in Proc, Interrogate(p)
  PROVE  QuietIInv'
<1>0. enum[p].pc # "idle"
  BY DEF Interrogate
<1>1. CASE enum' = [enum EXCEPT ![p] = Idle]
  BY <1>0, <1>1, EndQuiet DEF Interrogate
<1>2. ASSUME NEW inv \in SUBSET Endpoint,
             enum' = [enum EXCEPT ![p].pc = "collect", ![p].inv = inv]
      PROVE  QuietIInv'
  <2> DEFINE t == [enum[p] EXCEPT !.pc = "collect", !.inv = inv]
  <2>1. enum[p] \in EnumRecord
    BY DEF IInv, TypeOK
  <2>2. t \in EnumRecord /\ enum' = [enum EXCEPT ![p] = t]
        /\ t.pc = "collect" /\ t.node = enum[p].node
    BY <1>2, <2>1 DEF EnumRecord, EnumPc, IInv, TypeOK
  <2>3. EnumWork(t)
    BY <2>2 DEF EnumWork
  <2> QED BY <1>0, <2>2, <2>3, LocalQuiet DEF Interrogate
<1> QED BY <1>1, <1>2 DEF Interrogate

\* A device gets an id: only its own node is touched.
LEMMA SetUniqueIdElsewhere ==
  ASSUME IInv, DeviceAddresses, NEW n \in NodeObj, NEW d \in DevicesOn(n),
         NEW id \in Nat, SetUniqueId(d, id), UNCHANGED device
  PROVE  Elsewhere(n)
<1>1. d \in DevObj /\ dev[d].node = n
  BY DEF DevicesOn, SubsOn, IInv, TypeOK, DeviceAddresses
<1>2. \A x \in DevObj \ {d} : dev'[x] = dev[x]
  BY <1>1 DEF SetUniqueId, IInv, TypeOK
<1>3. ASSUME NEW m \in NodeObj \ {n}, NEW s \in SubId, device[m][s] # NoDev
      PROVE  device[m][s] \in DevObj \ {d}
  BY <1>1, <1>3 DEF DeviceAddresses, IInv, TypeOK
<1> QED BY <1>2, <1>3 DEF Elsewhere

\* setDeviceUniqueId by an enumeration: the endpoint's device has its id.
LEMMA IdentifyEffect ==
  ASSUME Quiet, IInv, DeviceAddresses, Books, LoopQuiet, EnumQuiet,
         NEW p \in Proc, enum[p].pc # "idle", NEW n \in NodeObj, n = enum[p].node,
         NEW d \in DevicesOn(n),
         NEW e \in Endpoint, SetUniqueId(d, e),
         \A x \in DevicesOn(n) \ {d} : dev[x].id # e,
         UNCHANGED <<table, nodeAddr, device, feed, loop>>
  PROVE  /\ Books' /\ Elsewhere(n) /\ DevicesOn(n)' = DevicesOn(n)
         /\ \A x \in DevicesOn(n) \ {d} : dev'[x] = dev[x]
         /\ dev'[d].set /\ dev'[d].id = e
<1>1. InTable(n) /\ \A s \in SubId : store[nodeAddr[n]][s] = Copy(n, s)
  BY EnumeratedNode
<1>2. PICK s \in SubId : device[n][s] = d /\ d # NoDev /\ d \in DevObj
  BY <1>1 DEF DevicesOn, SubsOn, IInv, TypeOK
<1>3. e \in Nat /\ Sections
  BY Sentinels DEF Books
<1>4. \A x \in DevObj \ {d} : dev'[x] = dev[x]
  BY <1>1, <1>2, <1>3, SetUniqueIdEffect
<1>5. dev'[d].set /\ dev'[d].id = e
  BY <1>1, <1>2, <1>3, SetUniqueIdEffect
<1>6. Unread' = Unread /\ \A m, r : ~Loading(m, r)
  BY NotLoading DEF Unread, LoadPc
<1>7. \A m, r : ~Loading(m, r)'
  BY NotLoading DEF Loading, LoadPc
<1>8. ASSUME NEW r \in SubId \ {s} PROVE store[nodeAddr[n]][r] # e
  <2>1. store[nodeAddr[n]][r] = Copy(n, r)
    BY <1>1
  <2>2. CASE device[n][r] = NoDev
    BY <2>1, <2>2, Sentinels DEF Copy
  <2>3. CASE device[n][r] # NoDev
    <3>1. device[n][r] # d /\ device[n][r] \in DevicesOn(n)
      BY <1>1, <1>2, <2>3, OnePlace DEF DevicesOn, SubsOn
    <3>2. dev[device[n][r]].id # e
      BY <3>1
    <3> QED BY <2>1, <2>3, <3>2, Sentinels DEF Copy
  <2> QED BY <2>2, <2>3
<1>9. Books'
  BY <1>1, <1>2, <1>6, <1>7, <1>8, SetUniqueIdBooks
<1>10. Elsewhere(n)
  BY <1>1, <1>3, SetUniqueIdElsewhere
<1>11. DevicesOn(n) \subseteq DevObj
  BY <1>1 DEF DevicesOn, SubsOn, IInv, TypeOK
<1> QED BY <1>4, <1>5, <1>9, <1>10, <1>11 DEF SubsOn, DevicesOn

LEMMA AssignReuseQuiet ==
  ASSUME Quiet, IInv, ExclusiveEnumeration, DeviceAddresses, QuietIInv,
         NEW p \in Proc, AssignReuse(p)
  PROVE  QuietIInv'
<1>0. enum[p].pc # "idle" /\ enum[p].pc = "assign"
  BY DEF AssignReuse
<1>1. /\ enum[p] \in EnumRecord /\ EnumGood(enum[p]) /\ EnumWork(enum[p])
      /\ enum[p].node \in NodeObj
  BY <1>0, EnumeratedNode DEF QuietIInv
<1>n. PICK n \in NodeObj : n = enum[p].node
  BY <1>1
<1>2. PICK e \in Endpoint : e = Least(enum[p].todo) /\ e \in enum[p].todo /\ e \in enum[p].inv
  BY <1>1, LeastIn, NodeTableAssumption DEF AssignReuse, EnumRecord, EnumGood
<1>3. PICK d \in enum[p].unset :
        /\ SetUniqueId(d, e)
        /\ enum' = [enum EXCEPT ![p].map[e] = d, ![p].unset = @ \ {d},
                                ![p].todo = @ \ {e}]
  BY <1>2 DEF AssignReuse
<1>t. PICK t \in EnumRecord :
        t = [enum[p] EXCEPT !.map[e] = d, !.unset = @ \ {d}, !.todo = @ \ {e}]
  BY <1>1 DEF EnumRecord
<1>4. /\ t.pc = "assign" /\ t.node = n /\ t.unset = enum[p].unset \ {d}
      /\ t.todo = enum[p].todo \ {e} /\ t.inv = enum[p].inv
      /\ t.map = [enum[p].map EXCEPT ![e] = d]
  BY <1>0, <1>1, <1>n, <1>t DEF EnumRecord
<1>6. enum' = [enum EXCEPT ![p] = t]
  BY <1>1, <1>3, <1>t DEF IInv, TypeOK, EnumRecord
<1>7. /\ d \in DevicesOn(n) /\ ~dev[d].set
      /\ enum[p].unset = {x \in DevicesOn(n) : ~dev[x].set}
      /\ \A x \in DevicesOn(n) : dev[x].id # e
  BY <1>0, <1>1, <1>n, <1>2, <1>3 DEF EnumWork
<1>8. UNCHANGED <<table, nodeAddr, device, feed, loop, shown>>
  BY DEF AssignReuse
<1>9. /\ Books' /\ Elsewhere(n) /\ DevicesOn(n)' = DevicesOn(n)
      /\ \A x \in DevicesOn(n) \ {d} : dev'[x] = dev[x]
      /\ dev'[d].set /\ dev'[d].id = e
  <2>1. d \in DevicesOn(n) /\ \A x \in DevicesOn(n) \ {d} : dev[x].id # e
    BY <1>7
  <2>2. SetUniqueId(d, e)
    BY <1>3
  <2> QED BY <1>0, <1>n, <1>8, <2>1, <2>2, IdentifyEffect DEF QuietIInv
<1>10. EnumWork(t)'
  <2>1. t.unset = {x \in DevicesOn(n) : ~dev'[x].set}
    BY <1>4, <1>7, <1>9
  <2>2. ASSUME NEW f \in Endpoint, t.map[f] # NoDev PROVE Found(t, f)'
    <3>1. CASE f = e
      BY <1>1, <1>2, <1>4, <1>7, <1>9, <3>1 DEF Found, EnumRecord
    <3>2. CASE f # e
      <4>1. t.map[f] = enum[p].map[f]
        BY <1>1, <1>4, <3>2 DEF EnumRecord
      <4>2. Found(enum[p], f)
        BY <1>0, <1>1, <2>2, <4>1 DEF EnumWork
      <4>3. enum[p].map[f] # d
        BY <1>n, <1>7, <4>2 DEF Found
      <4> QED BY <1>n, <1>4, <1>9, <4>1, <4>2, <4>3 DEF Found
    <3> QED BY <3>1, <3>2
  <2>3. ASSUME NEW f \in t.todo, NEW x \in DevicesOn(n) PROVE dev'[x].id # f
    BY <1>n, <1>0, <1>1, <1>4, <1>9 DEF EnumWork
  <2> QED BY <1>4, <1>9, <2>1, <2>2, <2>3 DEF EnumWork
<1>11. LoopQuiet' /\ EnumQuiet'
  BY <1>0, <1>n, <1>4, <1>6, <1>8, <1>9, <1>10, EnumStepQuiet DEF QuietIInv
<1> QED BY <1>9, <1>11 DEF QuietIInv

LEMMA AssignIdentifyQuiet ==
  ASSUME Quiet, IInv, ExclusiveEnumeration, DeviceAddresses, QuietIInv,
         NEW p \in Proc, AssignIdentify(p)
  PROVE  QuietIInv'
<1>0. enum[p].pc # "idle" /\ enum[p].pc = "identify"
  BY DEF AssignIdentify
<1>1. /\ enum[p] \in EnumRecord /\ EnumGood(enum[p]) /\ EnumWork(enum[p])
      /\ enum[p].node \in NodeObj
  BY <1>0, EnumeratedNode DEF QuietIInv
<1>n. PICK n \in NodeObj : n = enum[p].node
  BY <1>1
<1>2. PICK e \in Endpoint : e = Least(enum[p].todo) /\ e \in enum[p].todo /\ e \in enum[p].inv
  BY <1>0, <1>1, LeastIn, NodeTableAssumption DEF EnumRecord, EnumGood
<1>d. PICK d \in DevicesOn(n) : d = enum[p].map[e]
  BY <1>0, <1>1, <1>n, <1>2 DEF EnumWork
<1>3. SetUniqueId(d, e) /\ enum' = [enum EXCEPT ![p].pc = "assign", ![p].todo = @ \ {e}]
  BY <1>2, <1>d DEF AssignIdentify
<1>t. PICK t \in EnumRecord : t = [enum[p] EXCEPT !.pc = "assign", !.todo = @ \ {e}]
  BY <1>1 DEF EnumRecord, EnumPc
<1>4. /\ t.pc = "assign" /\ t.node = n /\ t.unset = enum[p].unset
      /\ t.todo = enum[p].todo \ {e} /\ t.inv = enum[p].inv /\ t.map = enum[p].map
  BY <1>0, <1>1, <1>n, <1>t DEF EnumRecord
<1>5. enum' = [enum EXCEPT ![p] = t]
  BY <1>1, <1>3, <1>t DEF EnumRecord, IInv, TypeOK
<1>6. /\ enum[p].unset = {}
      /\ \A x \in DevicesOn(n) : dev[x].set <=> x # d
      /\ \A x \in DevicesOn(n) : dev[x].id # e
      /\ \A f \in Endpoint : enum[p].map[f] # NoDev /\ f # e => Found(enum[p], f)
  BY <1>0, <1>1, <1>n, <1>2, <1>d DEF EnumWork
<1>7. UNCHANGED <<table, nodeAddr, device, feed, loop, shown>>
  BY DEF AssignIdentify
<1>8. /\ Books' /\ Elsewhere(n) /\ DevicesOn(n)' = DevicesOn(n)
      /\ \A x \in DevicesOn(n) \ {d} : dev'[x] = dev[x]
      /\ dev'[d].set /\ dev'[d].id = e
  BY <1>0, <1>n, <1>3, <1>6, <1>7, IdentifyEffect DEF QuietIInv
<1>9. EnumWork(t)'
  <2>1. t.unset = {x \in DevicesOn(n) : ~dev'[x].set}
    BY <1>4, <1>6, <1>8
  <2>2. ASSUME NEW f \in Endpoint, t.map[f] # NoDev PROVE Found(t, f)'
    <3>1. CASE f = e
      BY <1>2, <1>d, <1>4, <1>6, <1>8, <3>1 DEF Found
    <3>2. CASE f # e
      <4>1. Found(enum[p], f) /\ enum[p].map[f] \in DevicesOn(n) \ {d}
        BY <1>n, <1>2, <1>d, <1>4, <1>6, <2>2, <3>2 DEF Found
      <4> QED BY <1>4, <1>8, <4>1 DEF Found
    <3> QED BY <3>1, <3>2
  <2>3. ASSUME NEW f \in t.todo, NEW x \in DevicesOn(n) PROVE dev'[x].id # f
    BY <1>n, <1>0, <1>1, <1>4, <1>8 DEF EnumWork
  <2> QED BY <1>4, <1>8, <2>1, <2>2, <2>3 DEF EnumWork
<1>10. LoopQuiet' /\ EnumQuiet'
  BY <1>0, <1>n, <1>4, <1>5, <1>7, <1>8, <1>9, EnumStepQuiet DEF QuietIInv
<1> QED BY <1>8, <1>10 DEF QuietIInv

LEMMA AssignCreateQuiet ==
  ASSUME Quiet, IInv, ExclusiveEnumeration, QuietIInv,
         NEW p \in Proc, NEW d \in DevObj, AssignCreate(p, d)
  PROVE  QuietIInv'
<1>0. enum[p].pc # "idle" /\ enum[p].pc = "create"
  BY DEF AssignCreate
<1>1. /\ enum[p] \in EnumRecord /\ EnumGood(enum[p]) /\ EnumWork(enum[p])
      /\ enum[p].node \in NodeObj /\ InTable(enum[p].node)
  BY <1>0, EnumeratedNode DEF QuietIInv
<1>n. PICK n \in NodeObj : n = enum[p].node
  BY <1>1
<1>s. PICK s \in SubId : s = enum[p].sub
  BY <1>1 DEF EnumRecord
<1>2. PICK e \in Endpoint : e = Least(enum[p].todo) /\ e \in enum[p].todo /\ e \in enum[p].inv
  BY <1>0, <1>1, LeastIn, NodeTableAssumption DEF EnumRecord, EnumGood
<1>3. /\ CreateDevice(n, s, d)
      /\ enum' = [enum EXCEPT ![p].pc = "identify", ![p].map[e] = d]
      /\ UNCHANGED <<table, nodeAddr, held, loop>>
  BY <1>n, <1>s, <1>2 DEF AssignCreate
<1>t. PICK t \in EnumRecord : t = [enum[p] EXCEPT !.pc = "identify", !.map[e] = d]
  BY <1>1 DEF EnumRecord, EnumPc
<1>4. /\ t.pc = "identify" /\ t.node = n /\ t.unset = enum[p].unset
      /\ t.todo = enum[p].todo /\ t.inv = enum[p].inv /\ Least(t.todo) = e
      /\ t.map[e] = d /\ \A f \in Endpoint \ {e} : t.map[f] = enum[p].map[f]
  BY <1>1, <1>n, <1>2, <1>t DEF EnumRecord
<1>5. enum' = [enum EXCEPT ![p] = t]
  BY <1>1, <1>3, <1>t DEF EnumRecord, IInv, TypeOK
<1>6. /\ enum[p].unset = {} /\ device[n][s] = NoDev
      /\ \A x \in DevicesOn(n) : dev[x].set
      /\ \A f \in enum[p].todo, x \in DevicesOn(n) : dev[x].id # f
      /\ \A f \in Endpoint : enum[p].map[f] # NoDev => Found(enum[p], f)
  BY <1>0, <1>1, <1>n, <1>s DEF EnumWork
<1>7. /\ \A m \in NodeObj, r \in SubId :
           device'[m][r] = IF m = n /\ r = s THEN d ELSE device[m][r]
      /\ \A x \in DevObj \ {d} : dev'[x] = dev[x]
      /\ dev'[d] = [node |-> n, sub |-> s, set |-> FALSE, id |-> 0]
      /\ shown' = shown \cup {n}
      /\ \A m \in NodeObj, r \in SubId : device[m][r] # d
  <2>1. Sections
    BY DEF QuietIInv, Books
  <2> QED BY <1>1, <1>n, <1>3, <2>1, CreateDeviceEffect
<1>8. Unread' = Unread /\ \A m, r : ~Loading(m, r) /\ ~Loading(m, r)'
  <2>1. loop.pc \notin LoadPc /\ Unread = {}
    BY <1>0, NotLoading DEF QuietIInv
  <2> QED BY <1>3, <2>1 DEF Unread, Loading, LoadPc
<1>9. Books'
  BY <1>1, <1>n, <1>3, <1>6, <1>8, CreateDeviceBooks DEF QuietIInv
<1>10. \A m \in NodeObj, r \in SubId : device[m][r] # NoDev => device[m][r] \in DevObj \ {d}
  BY <1>7 DEF IInv, TypeOK
<1>11. Elsewhere(n)
  BY <1>7, <1>10 DEF Elsewhere
<1>12. /\ DevicesOn(n)' = DevicesOn(n) \cup {d}
       /\ DevicesOn(n) \subseteq DevObj \ {d}
  <2>1. DevicesOn(n) \subseteq DevObj \ {d}
    BY <1>10 DEF DevicesOn, SubsOn
  <2>2. SubsOn(n)' = SubsOn(n) \cup {s}
    BY <1>7, NodeTableAssumption DEF SubsOn
  <2>3. ASSUME NEW x \in DevicesOn(n)' PROVE x \in DevicesOn(n) \cup {d}
    <3>1. PICK r \in SubsOn(n) \cup {s} : x = device'[n][r]
      BY <2>2, <2>3 DEF DevicesOn
    <3>2. r \in SubId
      BY DEF SubsOn
    <3> QED BY <1>7, <3>1, <3>2 DEF DevicesOn
  <2>4. ASSUME NEW x \in DevicesOn(n) PROVE x \in DevicesOn(n)'
    <3>1. PICK r \in SubsOn(n) : x = device[n][r]
      BY DEF DevicesOn
    <3>2. r # s /\ r \in SubId
      BY <1>6, <3>1 DEF SubsOn
    <3> QED BY <1>7, <2>2, <3>1, <3>2 DEF DevicesOn
  <2>5. d \in DevicesOn(n)'
    BY <1>7, <2>2 DEF DevicesOn
  <2> QED BY <2>1, <2>3, <2>4, <2>5
<1>13. EnumWork(t)'
  <2>1. \A x \in DevicesOn(n)' : dev'[x].set <=> x # d
    BY <1>6, <1>7, <1>12
  <2>2. ASSUME NEW f \in Endpoint, t.map[f] # NoDev, f # e PROVE Found(t, f)'
    <3>1. Found(enum[p], f)
      BY <1>4, <1>6, <2>2
    <3> QED BY <1>n, <1>4, <1>7, <1>12, <2>2, <3>1 DEF Found
  <2>3. ASSUME NEW f \in t.todo, NEW x \in DevicesOn(n)' PROVE dev'[x].id # f
    <3>1. f \in Endpoint /\ f # 0
      BY <1>1, <1>4, Sentinels DEF EnumRecord
    <3> QED BY <1>4, <1>6, <1>7, <1>12, <3>1
  <2> QED BY <1>4, <1>6, <1>12, <2>1, <2>2, <2>3 DEF EnumWork
<1>14. LoopQuiet' /\ EnumQuiet'
  <2>1. shown' \subseteq shown \cup {enum[p].node} /\ Elsewhere(enum[p].node)
    BY <1>n, <1>7, <1>11
  <2> QED BY <1>0, <1>n, <1>3, <1>4, <1>5, <1>13, <2>1, EnumStepQuiet DEF QuietIInv
<1> QED BY <1>9, <1>14 DEF QuietIInv

LEMMA RemoveStaleQuiet ==
  ASSUME Quiet, IInv, ExclusiveEnumeration, DeviceAddresses, QuietIInv,
         NEW p \in Proc, RemoveStale(p)
  PROVE  QuietIInv'
<1>0. enum[p].pc # "idle" /\ enum[p].pc = "removing"
  BY DEF RemoveStale
<1>1. /\ enum[p] \in EnumRecord /\ EnumGood(enum[p]) /\ EnumWork(enum[p])
      /\ enum[p].node \in NodeObj /\ InTable(enum[p].node)
  BY <1>0, EnumeratedNode DEF QuietIInv
<1>n. PICK n \in NodeObj : n = enum[p].node
  BY <1>1
<1>s. PICK s \in SubId : s = enum[p].sub
  BY <1>1 DEF EnumRecord
<1>2. /\ enum[p].target = n /\ s \in enum[p].stale
      /\ enum[p].stale = {r \in SubsOn(n) : dev[device[n][r]].id \notin enum[p].inv}
      /\ \A f \in Endpoint : enum[p].map[f] # NoDev => Found(enum[p], f)
  BY <1>0, <1>1, <1>n, <1>s DEF EnumWork
<1>3. /\ DropDevice(n, s)
      /\ enum' = [enum EXCEPT ![p].pc = "remove", ![p].target = NoNode,
                              ![p].stale = @ \ {s}]
      /\ UNCHANGED <<table, nodeAddr, dev, shown, held, loop>>
  BY <1>s, <1>2 DEF RemoveStale
<1>t. PICK t \in EnumRecord :
        t = [enum[p] EXCEPT !.pc = "remove", !.target = NoNode, !.stale = @ \ {s}]
  BY <1>1 DEF EnumRecord, EnumPc
<1>4. /\ t.pc = "remove" /\ t.node = n /\ t.stale = enum[p].stale \ {s}
      /\ t.todo = enum[p].todo /\ t.inv = enum[p].inv /\ t.map = enum[p].map
  BY <1>1, <1>n, <1>t DEF EnumRecord
<1>5. enum' = [enum EXCEPT ![p] = t]
  BY <1>1, <1>3, <1>t DEF EnumRecord, IInv, TypeOK
<1>6. device[n][s] # NoDev /\ dev[device[n][s]].id \notin enum[p].inv
  BY <1>2 DEF SubsOn
<1>7. \A m \in NodeObj, r \in SubId :
        device'[m][r] = IF m = n /\ r = s THEN NoDev ELSE device[m][r]
  <2>1. Sections
    BY DEF QuietIInv, Books
  <2> QED BY <1>1, <1>n, <1>3, <1>6, <2>1, DropDeviceEffect
<1>8. Unread' = Unread /\ \A m, r : ~Loading(m, r) /\ ~Loading(m, r)'
  <2>1. loop.pc \notin LoadPc /\ Unread = {}
    BY <1>0, NotLoading DEF QuietIInv
  <2> QED BY <1>3, <2>1 DEF Unread, Loading, LoadPc
<1>9. Books'
  BY <1>1, <1>n, <1>3, <1>6, <1>8, DropDeviceBooks DEF QuietIInv
<1>10. Elsewhere(n)
  BY <1>3, <1>7 DEF Elsewhere
<1>11. SubsOn(n)' = SubsOn(n) \ {s}
  BY <1>7 DEF SubsOn
<1>12. EnumWork(t)'
  <2>1. t.stale = {r \in SubsOn(n)' : dev'[device'[n][r]].id \notin t.inv}
    BY <1>2, <1>3, <1>4, <1>7, <1>11 DEF SubsOn
  <2>2. ASSUME NEW f \in Endpoint, t.map[f] # NoDev PROVE Found(t, f)'
    <3>1. Found(enum[p], f)
      BY <1>2, <1>4, <2>2
    <3>2. PICK r \in SubsOn(n) : device[n][r] = t.map[f]
      BY <1>n, <1>4, <3>1 DEF Found, DevicesOn
    <3>3. r # s
      BY <1>4, <1>6, <3>1, <3>2 DEF Found
    <3>4. t.map[f] \in DevicesOn(n)'
      BY <1>7, <1>11, <3>2, <3>3 DEF DevicesOn, SubsOn
    <3> QED BY <1>3, <1>4, <3>1, <3>4 DEF Found
  <2> QED BY <1>4, <2>1, <2>2 DEF EnumWork
<1>13. LoopQuiet' /\ EnumQuiet'
  <2>1. shown' \subseteq shown \cup {enum[p].node} /\ Elsewhere(enum[p].node)
    BY <1>n, <1>3, <1>10
  <2> QED BY <1>0, <1>n, <1>3, <1>4, <1>5, <1>12, <2>1, EnumStepQuiet DEF QuietIInv
<1> QED BY <1>9, <1>13 DEF QuietIInv

\* The sections that updateCapabilitiesOnDevice asks for are all there.
LEMMA UpdateCapabilitiesQuiet ==
  ASSUME Quiet, IInv, ExclusiveEnumeration, DeviceAddresses, QuietIInv,
         NEW p \in Proc, UpdateCapabilities(p)
  PROVE  QuietIInv' /\ UNCHANGED store
<1>0. enum[p].pc # "idle" /\ enum[p].pc = "caps"
  BY DEF UpdateCapabilities
<1>1. /\ enum[p] \in EnumRecord /\ EnumGood(enum[p]) /\ EnumWork(enum[p])
      /\ enum[p].node \in NodeObj /\ InTable(enum[p].node)
      /\ \A s \in SubId : store[nodeAddr[enum[p].node]][s] = Copy(enum[p].node, s)
  BY <1>0, EnumeratedNode DEF QuietIInv
<1>n. PICK n \in NodeObj : n = enum[p].node
  BY <1>1
<1>2. PICK e \in Endpoint : e = Least(enum[p].todo) /\ e \in enum[p].todo /\ e \in enum[p].inv
  BY <1>1, LeastIn, NodeTableAssumption DEF UpdateCapabilities, EnumRecord, EnumGood
<1>3. Found(enum[p], e)
  BY <1>0, <1>1, <1>2 DEF EnumWork, EnumGood
<1>4. PICK s \in SubId : device[n][s] = enum[p].map[e] /\ device[n][s] # NoDev
  BY <1>n, <1>3 DEF Found, DevicesOn, SubsOn
<1>5. dev[device[n][s]].node = n /\ dev[device[n][s]].sub = s
  BY <1>4 DEF DeviceAddresses
<1>a. PICK a \in Addr : a = nodeAddr[n]
  BY <1>1, <1>n DEF InTable, Allocated
<1>6. store[a][s] # NoSection
  BY <1>1, <1>n, <1>a, <1>2, <1>3, <1>4, Sentinels DEF Copy, Found
<1>7. a \in storedNode
  BY <1>1, <1>n, <1>a, NodeTableAssumption DEF QuietIInv, Books, Sections, InTable, Allocated
<1>8. TouchDeviceSection(a, s) => UNCHANGED diskVars
  BY <1>6, <1>7 DEF TouchDeviceSection, diskVars, IInv, TypeOK
<1>9. TouchDeviceSection(a, s) \/ UNCHANGED diskVars
  BY <1>2, <1>4, <1>5, <1>a DEF UpdateCapabilities, TouchDeviceSection
<1>10. UNCHANGED <<table, nodeAddr, device, dev, shown, diskVars, feed, loop>>
       /\ enum' = [enum EXCEPT ![p].todo = @ \ {e}]
  BY <1>2, <1>8, <1>9 DEF UpdateCapabilities
<1> DEFINE t == [enum[p] EXCEPT !.todo = @ \ {e}]
<1>11. t \in EnumRecord /\ enum' = [enum EXCEPT ![p] = t]
  BY <1>1, <1>10 DEF EnumRecord, IInv, TypeOK
<1>12. /\ t.pc = "caps" /\ t.node = n /\ t.map = enum[p].map /\ t.inv = enum[p].inv
  BY <1>0, <1>1, <1>n DEF EnumRecord
<1>13. EnumWork(t)
  <2> HIDE DEF t
  <2> QED BY <1>0, <1>1, <1>n, <1>12 DEF EnumWork, Found
<1>14. QuietIInv'
  BY <1>0, <1>n, <1>10, <1>11, <1>12, <1>13, LocalQuiet
<1> QED BY <1>10, <1>14 DEF diskVars

LEMMA EnumStepKeepsQuiet ==
  ASSUME Quiet, IInv, ExclusiveEnumeration, DeviceAddresses, QuietIInv,
         NEW p \in Proc, EnumStep(p)
  PROVE  QuietIInv'
<1>1. CASE Release(p)
  BY <1>1, EndQuiet DEF Release
<1> QED BY <1>1, InterrogateQuiet, LocalEnumQuiet, AssignReuseQuiet, AssignIdentifyQuiet,
           AssignCreateQuiet, RemoveStaleQuiet, UpdateCapabilitiesQuiet DEF EnumStep

-----------------------------------------------------------------------------
(* The steps of the provider loop.                                         *)

\* A node nobody enumerates may change: the enumerations of the others go on.
LEMMA LoopStepQuiet ==
  ASSUME IInv, EnumQuiet, NEW n, Elsewhere(n), UNCHANGED enum,
         \A m \in NodeObj \ {n} : InTable(m) => InTable(m)',
         \A p \in Proc : enum[p].pc # "idle" =>
           /\ enum[p].node # n
           /\ loop'.pc \in {"leaving", "joinDevice"} => loop'.node # enum[p].node
  PROVE  EnumQuiet'
<1> SUFFICES ASSUME NEW p \in Proc PROVE EnumPlace(enum[p])' /\ EnumWork(enum[p])'
  BY DEF EnumQuiet
<1>1. PICK t \in EnumRecord : t = enum[p]
  BY DEF IInv, TypeOK
<1>2. EnumPlace(t) /\ EnumWork(t) /\ enum'[p] = t
  BY <1>1 DEF EnumQuiet, EnumPlace, EnumWork, Found
<1>3. CASE t.pc = "idle"
  BY <1>2, <1>3 DEF EnumPlace, EnumWork
<1>4. CASE t.pc # "idle"
  <2>1. t.node \in NodeObj \ {n} /\ InTable(t.node)
    BY <1>1, <1>2, <1>4 DEF EnumPlace, InTable, Allocated
  <2>2. EnumWork(t)'
    BY <1>2, <2>1, WorkKept
  <2>3. EnumPlace(t)'
    BY <1>1, <1>4, <2>1 DEF EnumPlace
  <2> QED BY <1>2, <2>2, <2>3 DEF EnumPlace, EnumWork, Found
<1> QED BY <1>3, <1>4

\* During the load there is no enumeration to disturb.
LEMMA LoadStepQuiet ==
  ASSUME LoopQuiet, loop.pc \in LoadPc, UNCHANGED enum
  PROVE  EnumQuiet'
BY DEF LoopQuiet, EnumQuiet, EnumPlace, EnumWork

\* An enumerated node is one of the node objects.
LEMMA NoNodeIdle ==
  ASSUME IInv, EnumQuiet, NEW p \in Proc, enum[p].pc # "idle"
  PROVE  enum[p].node # NoNode /\ Allocated(enum[p].node) /\ InTable(enum[p].node)
BY NodeTableAssumption DEF EnumQuiet, EnumPlace, InTable, Allocated

\* createNode of an address whose sections, if any, are then loaded.
LEMMA NewNodeBooks ==
  ASSUME Quiet, IInv, Books, NEW a \in Addr, NEW n \in NodeObj, NewNode(a, n),
         UNCHANGED <<device, dev, store, feed>>, Unread' = Unread \ {a},
         \A s \in SubId : Loading(n, s)' <=> store[a][s] # NoSection,
         \A m \in NodeObj \ {n}, s \in SubId : Loading(m, s)' <=> Loading(m, s)
  PROVE  Books' /\ SubsOn(n) = {} /\ n \notin shown
         /\ InTable(n)' /\ \A m \in NodeObj \ {n} : InTable(m) => InTable(m)'
<1> USE DEF Books
<1>1. ~Allocated(n) /\ n # NoNode /\ a # NoAddr
  BY NodeTableAssumption DEF NewNode, Allocated
<1>2. \A s \in SubId : device[n][s] = NoDev
  BY <1>1 DEF Objects, InTable
<1>3. \A b \in Addr : table'[b] = IF b = a THEN n ELSE table[b]
  BY DEF NewNode, IInv, TypeOK
<1>4. \A m \in NodeObj : nodeAddr'[m] = IF m = n THEN a ELSE nodeAddr[m]
  BY DEF NewNode, IInv, TypeOK
<1>5. \A b \in Addr : table[b] # n
  BY <1>1, TableNode DEF InTable
<1>6. table[a] = NoNode /\ storedNode' = storedNode \cup {a}
  BY DEF NewNode
<1>7. \A m, s : Copy(m, s)' = Copy(m, s)
  BY DEF Copy
<1>8. \A m \in NodeObj \ {n} : InTable(m) => InTable(m)'
  BY <1>3, <1>4, <1>6, NodeTableAssumption DEF InTable, Allocated
<1>9. InTable(n)'
  BY <1>3, <1>4 DEF InTable, Allocated
<1>10. Sections'
  <2>1. storedNode' = {b \in Addr : table'[b] # NoNode} \cup Unread'
    BY <1>1, <1>3, <1>6 DEF Sections
  <2>2. \A b \in Unread' : table'[b] = NoNode
    <3>1. Unread \subseteq Addr
      BY DEF Unread, IInv, TypeOK, LoopRecord
    <3> QED BY <1>3, <3>1 DEF Sections
  <2>3. ASSUME NEW b \in Addr, NEW s \in SubId, table'[b] = NoNode, b \notin Unread'
        PROVE  store'[b][s] = NoSection
    BY <1>1, <1>3, <2>3 DEF Sections
  <2>4. ASSUME NEW b \in Addr, NEW s \in SubId, table'[b] # NoNode
        PROVE  IF Loading(table[b], s)' THEN store'[b][s] # NoSection
               ELSE store'[b][s] = Copy(table[b], s)'
    <3>1. CASE b = a
      <4>1. Copy(n, s)' = NoSection /\ table'[b] = n
        BY <1>2, <1>3, <1>7, <3>1 DEF Copy
      <4>2. Loading(table[b], s)' <=> Loading(n, s)'
        BY <4>1 DEF Loading
      <4>3. Copy(table[b], s)' = Copy(n, s)'
        BY <4>1 DEF Copy
      <4> QED BY <3>1, <4>1, <4>2, <4>3
    <3>2. CASE b # a
      <4>1. PICK m \in NodeObj \ {n} : m = table[b] /\ table'[b] = m
        BY <1>3, <1>5, <2>4, <3>2, TableNode
      <4>2. Loading(table[b], s)' <=> Loading(m, s)'
        BY <4>1 DEF Loading
      <4>3. Copy(table[b], s)' = Copy(m, s)
        BY <1>7, <4>1 DEF Copy
      <4>4. Loading(table[b], s) <=> Loading(m, s)'
        BY <4>1
      <4>5. table[b] # NoNode
        BY <4>1, NodeTableAssumption
      <4> QED BY <4>1, <4>2, <4>3, <4>4, <4>5 DEF Sections
    <3> QED BY <3>1, <3>2
  <2> QED BY <2>1, <2>2, <2>3, <2>4 DEF Sections
<1>11. Identities'
  BY DEF Identities
<1>12. Objects'
  BY <1>1, <1>8, <1>9 DEF Objects
<1>13. Told'
  BY <1>2, <1>3, <1>6 DEF Told, Listed
<1>14. n \notin shown
  BY <1>1 DEF IInv, References, Pointers
<1> QED BY <1>2, <1>8, <1>9, <1>10, <1>11, <1>12, <1>13, <1>14 DEF SubsOn

LEMMA LoadNodeQuiet ==
  ASSUME Quiet, IInv, QuietIInv, NEW a \in Addr, NEW n \in NodeObj, LoadNode(a, n)
  PROVE  QuietIInv'
<1>1. loop.pc = "loadNode" /\ loop \in LoopRecord
  BY DEF LoadNode, IInv, TypeOK
<1>2. /\ loop'.pc = "loadDevice" /\ loop'.node = n /\ loop'.nodes = loop.nodes \ {a}
      /\ loop'.subs = {s \in SubId : store[a][s] # NoSection}
  BY <1>1 DEF LoadNode, LoopRecord
<1>3. NewNode(a, n) /\ UNCHANGED <<device, dev, store, feed, shown, enum>>
  BY DEF LoadNode
<1>4. Unread' = Unread \ {a}
  BY <1>1, <1>2 DEF Unread
<1>5. \A s \in SubId : Loading(n, s)' <=> store[a][s] # NoSection
  BY <1>2 DEF Loading
<1>6. \A m \in NodeObj \ {n}, s \in SubId : Loading(m, s)' <=> Loading(m, s)
  BY <1>1, <1>2 DEF Loading
<1>7. Books' /\ SubsOn(n) = {} /\ InTable(n)'
  BY <1>3, <1>4, <1>5, <1>6, NewNodeBooks DEF QuietIInv
<1>8. EnumQuiet'
  BY <1>1, <1>3, LoadStepQuiet DEF QuietIInv, LoadPc
<1>9. LoopQuiet'
  <2>1. \A p \in Proc : enum'[p].pc = "idle"
    BY <1>1, <1>3 DEF QuietIInv, LoopQuiet, LoadPc
  <2>2. \A s \in loop'.subs : device'[loop'.node][s] = NoDev
    BY <1>2, <1>3, <1>7 DEF SubsOn
  <2>3. InTable(loop.node)'
    BY <1>2, <1>7 DEF InTable, Allocated
  <2> QED BY <1>2, <2>1, <2>2, <2>3 DEF LoopQuiet, LoadPc
<1> QED BY <1>7, <1>8, <1>9 DEF QuietIInv

LEMMA LoadDeviceQuiet ==
  ASSUME Quiet, IInv, QuietIInv, NEW s \in SubId, NEW d \in DevObj, LoadDevice(s, d)
  PROVE  QuietIInv'
<1>1. loop.pc = "loadDevice" /\ loop \in LoopRecord /\ s \in loop.subs
  BY DEF LoadDevice, IInv, TypeOK
<1>2. /\ loop'.pc = "loadUid" /\ loop'.node = loop.node /\ loop'.nodes = loop.nodes
      /\ loop'.subs = loop.subs \ {s} /\ loop'.dev = d
  BY <1>1 DEF LoadDevice, LoopRecord
<1>3. InTable(loop.node) /\ \A r \in loop.subs : device[loop.node][r] = NoDev
  BY <1>1 DEF QuietIInv, LoopQuiet
<1>n. PICK n \in NodeObj : n = loop.node
  BY <1>3 DEF InTable, Allocated
<1>4. CreateDevice(n, s, d) /\ UNCHANGED <<table, nodeAddr, enum>>
  BY <1>n DEF LoadDevice
<1>5. device[n][s] = NoDev /\ InTable(n)
  BY <1>1, <1>3, <1>n
<1>6. /\ \A m \in NodeObj, r \in SubId :
           device'[m][r] = IF m = n /\ r = s THEN d ELSE device[m][r]
      /\ dev'[d] = [node |-> n, sub |-> s, set |-> FALSE, id |-> 0]
  <2>1. Sections
    BY DEF QuietIInv, Books
  <2> QED BY <1>4, <1>5, <2>1, CreateDeviceEffect
<1>7. Unread' = Unread
  BY <1>1, <1>2 DEF Unread
<1>8. \A m \in NodeObj, r \in SubId : Loading(m, r)' <=> Loading(m, r)
  BY <1>1, <1>2, <1>6 DEF Loading
<1>9. Books'
  BY <1>4, <1>5, <1>7, <1>8, CreateDeviceBooks DEF QuietIInv
<1>10. EnumQuiet'
  BY <1>1, <1>4, LoadStepQuiet DEF QuietIInv, LoadPc
<1>11. LoopQuiet'
  <2>1. \A p \in Proc : enum'[p].pc = "idle"
    BY <1>1, <1>4 DEF QuietIInv, LoopQuiet, LoadPc
  <2>2. \A r \in loop'.subs : device'[n][r] = NoDev
    BY <1>1, <1>2, <1>3, <1>n, <1>6 DEF LoopRecord
  <2>3. InTable(loop.node)'
    BY <1>2, <1>3, <1>4 DEF InTable, Allocated
  <2>4. device'[n][dev'[d].sub] = d /\ ~dev'[d].set
    BY <1>6
  <2> QED BY <1>2, <1>n, <2>1, <2>2, <2>3, <2>4 DEF LoopQuiet, LoadPc
<1> QED BY <1>9, <1>10, <1>11 DEF QuietIInv

\* The device whose id is read is loaded as it was stored.
LEMMA LoadUniqueIdQuiet ==
  ASSUME Quiet, IInv, DeviceAddresses, QuietIInv, LoadUniqueId
  PROVE  QuietIInv' /\ UNCHANGED store
<1>1. loop.pc = "loadUid" /\ loop \in LoopRecord
  BY DEF LoadUniqueId, IInv, TypeOK
<1>2. /\ loop'.pc = "loadDevice" /\ loop'.node = loop.node /\ loop'.nodes = loop.nodes
      /\ loop'.subs = loop.subs
  BY <1>1 DEF LoadUniqueId, LoopRecord
<1>3. /\ InTable(loop.node) /\ \A r \in loop.subs : device[loop.node][r] = NoDev
      /\ device[loop.node][dev[loop.dev].sub] = loop.dev /\ ~dev[loop.dev].set
  BY <1>1 DEF QuietIInv, LoopQuiet
<1>n. PICK n \in NodeObj : n = loop.node
  BY <1>3 DEF InTable, Allocated
<1>d. PICK d \in DevObj : d = loop.dev
  BY <1>1 DEF IInv, References, LoopGood, Known
<1>s. PICK s \in SubId : s = dev[d].sub
  BY DEF IInv, TypeOK, DevRecord
<1>a. PICK a \in Addr : a = nodeAddr[n]
  BY <1>3, <1>n DEF InTable, Allocated
<1>4. /\ device[n][s] = d /\ d # NoDev /\ ~dev[d].set /\ InTable(n) /\ s \notin loop.subs
      /\ table[a] = n /\ n # NoNode
  BY <1>3, <1>n, <1>d, <1>s, <1>a, NodeTableAssumption DEF InTable
<1>5. store[a][s] \in Endpoint \cup {NoUniqueId}
  <2>1. Loading(n, s)
    BY <1>1, <1>n, <1>d, <1>s DEF Loading
  <2> QED BY <1>4, <2>1 DEF QuietIInv, Books, Sections, Identities
<1>6. UNCHANGED <<table, nodeAddr, device, feed, enum>> /\ Unread' = Unread
  BY <1>1, <1>2 DEF LoadUniqueId, Unread
<1>7. \A m \in NodeObj, r \in SubId : Loading(m, r)' <=> Loading(m, r) /\ ~(m = n /\ r = s)
  BY <1>1, <1>2, <1>n, <1>d, <1>s, <1>4 DEF Loading
<1>8. Books' /\ UNCHANGED store
  <2>1. CASE store[a][s] \in Endpoint
    <3>1. PICK id \in Endpoint : id = store[a][s]
      BY <2>1
    <3>2. SetUniqueId(d, id)
      BY <1>n, <1>d, <1>s, <1>a, <3>1, Sentinels DEF LoadUniqueId
    <3>3. \A r \in SubId \ {s} : store[a][r] # id
      BY <2>1, <3>1 DEF QuietIInv, Books, Identities
    <3>4. Books'
      BY <1>4, <1>a, <1>6, <1>7, <3>2, <3>3, SetUniqueIdBooks DEF QuietIInv
    <3>5. store' = store
      <4>1. dev[d].node = n
        BY <1>4 DEF DeviceAddresses
      <4> QED BY <1>s, <1>a, <3>1, <3>2, <4>1 DEF SetUniqueId, IInv, TypeOK
    <3> QED BY <3>4, <3>5
  <2>2. CASE store[a][s] = NoUniqueId
    <3>1. TouchDeviceSection(a, s) /\ UNCHANGED dev
      BY <1>n, <1>d, <1>s, <1>a, <2>2, Sentinels DEF LoadUniqueId
    <3>2. store' = store /\ storedNode' = storedNode
      BY <1>4, <2>2, <3>1, Sentinels DEF TouchDeviceSection, IInv, TypeOK,
         QuietIInv, Books, Sections
    <3>3. \A m, r : Copy(m, r)' = Copy(m, r)
      BY <1>6, <3>1 DEF Copy
    <3>4. Copy(n, s) = store[a][s]
      BY <1>4, <2>2 DEF Copy
    <3>5. Sections'
      <4>1. storedNode' = {b \in Addr : table'[b] # NoNode} \cup Unread'
            /\ \A b \in Unread' : table'[b] = NoNode
        BY <1>6, <3>2 DEF QuietIInv, Books, Sections
      <4>2. ASSUME NEW b \in Addr, NEW r \in SubId, table'[b] = NoNode, b \notin Unread'
            PROVE  store'[b][r] = NoSection
        BY <1>6, <3>2, <4>2 DEF QuietIInv, Books, Sections
      <4>3. ASSUME NEW b \in Addr, NEW r \in SubId, table'[b] # NoNode
            PROVE  IF Loading(table[b], r)' THEN store'[b][r] # NoSection
                   ELSE store'[b][r] = Copy(table[b], r)'
        <5>1. PICK m \in NodeObj : m = table[b] /\ nodeAddr[m] = b
          BY <1>6, <4>3, TableNode
        <5>2. Loading(table[b], r)' <=> Loading(m, r) /\ ~(m = n /\ r = s)
          BY <1>6, <1>7, <5>1
        <5>3. Copy(table[b], r)' = Copy(m, r)
          BY <1>6, <3>3, <5>1
        <5>4. IF Loading(m, r) THEN store[b][r] # NoSection ELSE store[b][r] = Copy(m, r)
          BY <1>6, <4>3, <5>1 DEF QuietIInv, Books, Sections
        <5> QED BY <1>a, <3>2, <3>4, <5>1, <5>2, <5>3, <5>4
      <4> QED BY <4>1, <4>2, <4>3 DEF Sections
    <3>6. Identities' /\ Objects' /\ Told'
      BY <1>6, <3>1, <3>2 DEF QuietIInv, Books, Identities, Objects, Told, Listed, InTable, Allocated
    <3> QED BY <3>2, <3>5, <3>6 DEF Books
  <2> QED BY <1>5, <2>1, <2>2
<1>9. EnumQuiet'
  BY <1>1, <1>6, LoadStepQuiet DEF QuietIInv, LoadPc
<1>10. LoopQuiet'
  <2>1. \A p \in Proc : enum'[p].pc = "idle"
    BY <1>1, <1>6 DEF QuietIInv, LoopQuiet, LoadPc
  <2>2. InTable(loop.node)'
    BY <1>2, <1>3, <1>6 DEF InTable, Allocated
  <2> QED BY <1>2, <1>3, <1>6, <2>1, <2>2 DEF LoopQuiet, LoadPc
<1> QED BY <1>8, <1>9, <1>10 DEF QuietIInv

\* Boot, the ends of the loops of the load, and Stop.
LEMMA LoopLocalQuiet ==
  ASSUME Quiet, IInv, QuietIInv,
         Boot \/ LoadNext \/ Stop \/ \E a \in Addr : Leave(a)
  PROVE  QuietIInv'
<1>0. loop \in LoopRecord
  BY DEF IInv, TypeOK
<1>1. UNCHANGED <<table, nodeAddr, device, dev, shown, storedNode, store, feed, enum>>
  BY DEF Boot, LoadNext, Stop, Leave, diskVars
<1>2. /\ \A n : Elsewhere(n)
      /\ \A m \in NodeObj : InTable(m) => InTable(m)'
      /\ \A m : SubsOn(m)' = SubsOn(m)
  BY <1>1 DEF Elsewhere, InTable, Allocated, SubsOn
<1>3. CASE Boot
  <2>1. loop.pc = "boot" /\ loop'.pc = "loadNode" /\ loop'.nodes = storedNode
    BY <1>3 DEF Boot, LoopAt
  <2>2. Unread' = Unread /\ \A m, r : Loading(m, r)' <=> Loading(m, r)
    BY <1>1, <2>1 DEF Unread, Loading
  <2>3. EnumQuiet' /\ LoopQuiet'
    BY <1>1, <2>1, LoadStepQuiet DEF QuietIInv, LoadPc, LoopQuiet
  <2> QED BY <1>1, <2>2, <2>3, SameBooks DEF QuietIInv
<1>4. CASE LoadNext
  <2>1. \/ /\ loop.pc = "loadDevice" /\ loop.subs = {}
           /\ loop'.pc = "loadNode" /\ loop'.nodes = loop.nodes
        \/ /\ loop.pc = "loadNode" /\ loop.nodes = {}
           /\ loop'.pc = "read" /\ loop'.nodes = {}
    <3>1. CASE loop.pc = "loadDevice" /\ loop.subs = {}
               /\ loop' = [loop EXCEPT !.pc = "loadNode", !.node = NoNode]
      BY <1>0, <3>1 DEF LoopRecord
    <3>2. CASE loop.pc = "loadNode" /\ loop.nodes = {} /\ loop' = LoopAt("read")
      BY <3>2 DEF LoopAt
    <3> QED BY <1>4, <3>1, <3>2 DEF LoadNext
  <2>2. Unread' = Unread
    BY <2>1 DEF Unread
  <2>3. \A m, r : ~Loading(m, r) /\ ~Loading(m, r)'
    BY <2>1 DEF Loading
  <2>4. EnumQuiet' /\ LoopQuiet'
    BY <1>1, <2>1, LoadStepQuiet DEF QuietIInv, LoadPc, LoopQuiet
  <2> QED BY <1>1, <2>2, <2>3, <2>4, SameBooks DEF QuietIInv
<1>5. CASE Stop
  <2>1. loop.pc = "read" /\ loop'.pc = "stopped" /\ loop'.nodes = {}
    BY <1>5 DEF Stop, LoopAt
  <2>2. Unread' = Unread /\ \A m, r : ~Loading(m, r) /\ ~Loading(m, r)'
    BY <2>1 DEF Unread, Loading, QuietIInv, LoopQuiet, LoadPc
  <2>3. LoopQuiet'
    BY <1>1, <2>1 DEF QuietIInv, LoadPc, LoopQuiet
  <2>4. EnumQuiet'
    BY <1>1, <1>2, <2>1, LoopStepQuiet, NoNodeIdle, NodeTableAssumption DEF QuietIInv
  <2> QED BY <1>1, <2>2, <2>3, <2>4, SameBooks DEF QuietIInv
<1>6. ASSUME NEW a \in Addr, Leave(a) PROVE QuietIInv'
  <2>1. /\ loop.pc = "read" /\ table[a] # NoNode /\ ~Enumerating(table[a])
        /\ loop'.pc = "leaving" /\ loop'.node = table[a] /\ loop'.subs = SubsOn(table[a])
        /\ loop'.nodes = loop.nodes
    BY <1>0, <1>6 DEF Leave, Quiet, LoopRecord
  <2>2. Unread' = Unread /\ \A m, r : ~Loading(m, r) /\ ~Loading(m, r)'
    BY <2>1 DEF Unread, Loading
  <2>3. InTable(loop.node)' /\ loop.nodes = {}
    BY <1>1, <2>1, TableNode DEF InTable, Allocated, QuietIInv, LoopQuiet, LoadPc
  <2>4. LoopQuiet'
    BY <1>1, <1>2, <2>1, <2>3 DEF LoadPc, LoopQuiet
  <2>5. \A p \in Proc : enum[p].node # table[a]
    BY <2>1 DEF Enumerating
  <2>6. EnumQuiet'
    BY <1>1, <1>2, <2>1, <2>5, LoopStepQuiet DEF QuietIInv
  <2> QED BY <1>1, <2>2, <2>4, <2>6, SameBooks DEF QuietIInv
<1> QED BY <1>3, <1>4, <1>5, <1>6

LEMMA JoinNodeQuiet ==
  ASSUME Quiet, IInv, QuietIInv, NEW a \in Addr, NEW n \in NodeObj, JoinNode(a, n)
  PROVE  QuietIInv'
<1>1. loop.pc = "read" /\ loop \in LoopRecord
  BY DEF JoinNode, IInv, TypeOK
<1>2. loop'.pc = "joinDevice" /\ loop'.node = n /\ loop'.nodes = loop.nodes /\ loop.nodes = {}
  BY <1>1 DEF JoinNode, LoopRecord, QuietIInv, LoopQuiet, LoadPc
<1>3. NewNode(a, n) /\ UNCHANGED <<device, dev, store, feed, shown, enum>>
  BY DEF JoinNode
<1>4. Unread' = {} /\ Unread = {} /\ \A m, s : ~Loading(m, s) /\ ~Loading(m, s)'
  BY <1>1, <1>2 DEF Unread, Loading
<1>5. \A s \in SubId : store[a][s] = NoSection
  BY <1>3, <1>4 DEF NewNode, QuietIInv, Books, Sections
<1>6. /\ Books' /\ SubsOn(n) = {} /\ n \notin shown
      /\ InTable(n)' /\ \A m \in NodeObj \ {n} : InTable(m) => InTable(m)'
  BY <1>3, <1>4, <1>5, NewNodeBooks DEF QuietIInv
<1>7. \A p \in Proc : enum[p].pc # "idle" => enum[p].node # n
  <2>1. ~Allocated(n)
    BY <1>3, NodeTableAssumption DEF NewNode, Allocated
  <2> QED BY <2>1, NoNodeIdle DEF QuietIInv
<1>8. EnumQuiet'
  <2>1. Elsewhere(n)
    BY <1>3 DEF Elsewhere
  <2> QED BY <1>2, <1>3, <1>6, <1>7, <2>1, LoopStepQuiet DEF QuietIInv
<1>9. LoopQuiet'
  <2>1. SubsOn(loop.node)' = {} /\ InTable(loop.node)' /\ loop'.node \notin shown'
    BY <1>2, <1>3, <1>6 DEF SubsOn, InTable, Allocated
  <2> QED BY <1>2, <2>1 DEF LoopQuiet, LoadPc
<1> QED BY <1>6, <1>8, <1>9 DEF QuietIInv

LEMMA JoinDeviceQuiet ==
  ASSUME Quiet, IInv, QuietIInv, NEW d \in DevObj, JoinDevice(d)
  PROVE  QuietIInv'
<1>1. loop.pc = "joinDevice" /\ loop \in LoopRecord
  BY DEF JoinDevice, IInv, TypeOK
<1>2. loop'.pc = "joinAdvertise" /\ loop'.node = loop.node /\ loop'.nodes = loop.nodes
  BY <1>1 DEF JoinDevice, LoopRecord
<1>3. InTable(loop.node) /\ SubsOn(loop.node) = {} /\ loop.node \notin shown /\ loop.nodes = {}
  BY <1>1 DEF QuietIInv, LoopQuiet, LoadPc
<1>n. PICK n \in NodeObj : n = loop.node
  BY <1>3 DEF InTable, Allocated
<1>s. PICK s \in SubId : s = NextSub(n)
  BY NextSubIn
<1>4. CreateDevice(n, s, d) /\ UNCHANGED <<table, nodeAddr, enum>>
  BY <1>n, <1>s DEF JoinDevice
<1>5. device[n][s] = NoDev /\ InTable(n)
  BY <1>3, <1>n DEF SubsOn
<1>6. /\ \A m \in NodeObj, r \in SubId :
           device'[m][r] = IF m = n /\ r = s THEN d ELSE device[m][r]
      /\ \A x \in DevObj \ {d} : dev'[x] = dev[x]
      /\ dev'[d] = [node |-> n, sub |-> s, set |-> FALSE, id |-> 0]
      /\ \A m \in NodeObj, r \in SubId : device[m][r] # d
  <2>1. Sections
    BY DEF QuietIInv, Books
  <2>2. CreateDevice(n, s, d)
    BY <1>4
  <2> QED BY <1>5, <2>1, <2>2, CreateDeviceEffect
<1>7. Unread' = Unread /\ \A m, r : ~Loading(m, r) /\ ~Loading(m, r)'
  BY <1>1, <1>2 DEF Unread, Loading
<1>8. Books'
  BY <1>4, <1>5, <1>7, CreateDeviceBooks DEF QuietIInv
<1>9. Elsewhere(n)
  BY <1>6 DEF Elsewhere, IInv, TypeOK
<1>10. \A p \in Proc : enum[p].pc # "idle" => enum[p].node # n
  BY <1>1, <1>n DEF QuietIInv, EnumQuiet, EnumPlace
<1>11. EnumQuiet'
  <2>1. \A m \in NodeObj : InTable(m) => InTable(m)'
    BY <1>4 DEF InTable, Allocated
  <2> QED BY <1>2, <1>4, <1>9, <1>10, <2>1, LoopStepQuiet DEF QuietIInv
<1>12. LoopQuiet'
  BY <1>2, <1>3, <1>4 DEF LoopQuiet, LoadPc, InTable, Allocated
<1> QED BY <1>8, <1>11, <1>12 DEF QuietIInv

\* The goroutine of startEnumeration begins at a node of the table.
LEMMA StartQuiet ==
  ASSUME IInv, QuietIInv, NEW n \in NodeObj, NEW p \in Proc, StartEnumeration(n, p),
         InTable(n), loop'.pc \in {"leaving", "joinDevice"} => loop' = loop /\ loop.node # n,
         UNCHANGED <<table, nodeAddr, device, dev>>
  PROVE  EnumQuiet'
<1>1. enum'[p].pc = "interrogate" /\ enum'[p].node = n
      /\ \A q \in Proc \ {p} : enum'[q] = enum[q]
  BY DEF StartEnumeration, IInv, TypeOK, EnumRecord
<1>2. \A m : InTable(m)' <=> InTable(m)
  BY DEF InTable, Allocated
<1> SUFFICES ASSUME NEW q \in Proc PROVE EnumPlace(enum[q])' /\ EnumWork(enum[q])'
  BY DEF EnumQuiet
<1>3. CASE q = p
  <2>1. EnumPlace(enum[q])'
    BY <1>1, <1>2, <1>3 DEF EnumPlace, InTable, Allocated
  <2>2. EnumWork(enum[q])'
    BY <1>1, <1>3 DEF EnumWork
  <2> QED BY <2>1, <2>2
<1>4. CASE q # p
  <2>1. PICK t \in EnumRecord : t = enum[q] /\ t = enum'[q]
    BY <1>1, <1>4 DEF IInv, TypeOK
  <2>a. EnumPlace(enum[q]) /\ EnumWork(enum[q])
    BY DEF QuietIInv, EnumQuiet
  <2>2. EnumPlace(t) /\ EnumWork(t)
    BY <2>1, <2>a DEF EnumPlace, EnumWork, Found
  <2>3. EnumPlace(t)'
    BY <2>2 DEF EnumPlace, InTable, Allocated
  <2>4. EnumWork(t)'
    BY <2>2 DEF EnumWork, Found, SubsOn, DevicesOn
  <2> QED BY <2>1, <2>3, <2>4 DEF EnumPlace, EnumWork, Found
<1> QED BY <1>3, <1>4

LEMMA JoinAdvertiseQuiet ==
  ASSUME IInv, QuietIInv, JoinAdvertise
  PROVE  QuietIInv'
<1>1. /\ loop.pc = "joinAdvertise" /\ loop'.pc = "read" /\ loop'.nodes = {}
      /\ UNCHANGED <<table, nodeAddr, device, dev, shown, storedNode, store, feed>>
  BY DEF JoinAdvertise, LoopAt, diskVars
<1>2. InTable(loop.node) /\ loop.node \in NodeObj
  BY <1>1 DEF QuietIInv, LoopQuiet, InTable, Allocated
<1>3. Unread' = Unread /\ \A m, r : ~Loading(m, r) /\ ~Loading(m, r)'
  BY <1>1 DEF Unread, Loading, QuietIInv, LoopQuiet, LoadPc
<1>4. Books'
  BY <1>1, <1>3, SameBooks DEF QuietIInv
<1>5. LoopQuiet'
  BY <1>1 DEF LoopQuiet, LoadPc
<1>6. EnumQuiet'
  <2>1. ASSUME NEW p \in Proc, StartEnumeration(loop.node, p) PROVE EnumQuiet'
    BY <1>1, <1>2, <2>1, StartQuiet
  <2>2. CASE UNCHANGED enum
    <3>1. \A m \in NodeObj : InTable(m) => InTable(m)'
      BY <1>1 DEF InTable, Allocated
    <3>2. Elsewhere(NoNode)
      BY <1>1 DEF Elsewhere
    <3> QED BY <1>1, <2>2, <3>1, <3>2, LoopStepQuiet, NoNodeIdle DEF QuietIInv
  <2> QED BY <2>1, <2>2 DEF JoinAdvertise
<1> QED BY <1>4, <1>5, <1>6 DEF QuietIInv

LEMMA EnumerateQuiet ==
  ASSUME Quiet, IInv, QuietIInv, NEW n \in NodeObj, NEW p \in Proc, Enumerate(n, p)
  PROVE  QuietIInv'
<1>1. /\ n \in shown /\ table[nodeAddr[n]] = n /\ ~(loop.pc = "leaving" /\ loop.node = n)
      /\ loop.pc \notin LoadPc /\ StartEnumeration(n, p)
      /\ UNCHANGED <<table, nodeAddr, device, dev, shown, storedNode, store, feed, loop>>
  BY DEF Enumerate, Quiet, diskVars
<1>2. InTable(n)
  BY <1>1 DEF InTable, IInv, References, Pointers
<1>3. Unread' = Unread /\ \A m, r : Loading(m, r)' <=> Loading(m, r)
  BY <1>1 DEF Unread, Loading
<1>4. Books'
  BY <1>1, <1>3, SameBooks DEF QuietIInv
<1>5. LoopQuiet'
  BY <1>1 DEF QuietIInv, LoopQuiet, InTable, Allocated, SubsOn, LoadPc
<1>6. loop.pc = "joinDevice" => loop.node # n
  BY <1>1 DEF QuietIInv, LoopQuiet
<1>7. EnumQuiet'
  BY <1>1, <1>2, <1>6, StartQuiet
<1> QED BY <1>4, <1>5, <1>7 DEF QuietIInv

LEMMA LeaveDeviceQuiet ==
  ASSUME Quiet, IInv, DeviceAddresses, QuietIInv, NEW s \in SubId, LeaveDevice(s)
  PROVE  QuietIInv'
<1>1. loop.pc = "leaving" /\ loop \in LoopRecord /\ s \in loop.subs
  BY DEF LeaveDevice, IInv, TypeOK
<1>2. /\ loop'.pc = "leaving" /\ loop'.node = loop.node /\ loop'.nodes = loop.nodes
      /\ loop'.subs = loop.subs \ {s}
  BY <1>1 DEF LeaveDevice, LoopRecord
<1>3. InTable(loop.node) /\ loop.subs = SubsOn(loop.node) /\ loop.nodes = {}
  BY <1>1 DEF QuietIInv, LoopQuiet, LoadPc
<1>n. PICK n \in NodeObj : n = loop.node
  BY <1>3 DEF InTable, Allocated
<1>4. DropDevice(n, s) /\ UNCHANGED <<table, nodeAddr, dev, shown, enum>>
  BY <1>n DEF LeaveDevice
<1>5. device[n][s] # NoDev /\ InTable(n)
  BY <1>1, <1>3, <1>n DEF SubsOn
<1>6. \A m \in NodeObj, r \in SubId :
        device'[m][r] = IF m = n /\ r = s THEN NoDev ELSE device[m][r]
  <2>1. Sections
    BY DEF QuietIInv, Books
  <2> QED BY <1>4, <1>5, <2>1, DropDeviceEffect
<1>7. Unread' = Unread /\ \A m, r : ~Loading(m, r) /\ ~Loading(m, r)'
  BY <1>1, <1>2 DEF Unread, Loading
<1>8. Books'
  BY <1>4, <1>5, <1>7, DropDeviceBooks DEF QuietIInv
<1>9. Elsewhere(n)
  BY <1>4, <1>6 DEF Elsewhere
<1>10. \A p \in Proc : enum[p].pc # "idle" => enum[p].node # n
  BY <1>1, <1>n DEF QuietIInv, EnumQuiet, EnumPlace
<1>11. \A m \in NodeObj : InTable(m) => InTable(m)'
  BY <1>4 DEF InTable, Allocated
<1>12. EnumQuiet'
  BY <1>2, <1>n, <1>4, <1>9, <1>10, <1>11, LoopStepQuiet DEF QuietIInv
<1>13. LoopQuiet'
  <2>1. SubsOn(n)' = SubsOn(n) \ {s}
    BY <1>6 DEF SubsOn
  <2>2. SubsOn(loop.node)' = loop'.subs
    BY <1>2, <1>3, <1>n, <2>1 DEF SubsOn
  <2>3. InTable(loop.node)'
    BY <1>2, <1>3, <1>4 DEF InTable, Allocated
  <2> QED BY <1>2, <1>3, <2>2, <2>3 DEF LoopQuiet, LoadPc
<1> QED BY <1>8, <1>12, <1>13 DEF QuietIInv

\* removeNode: no device of the node is left when its section goes.
LEMMA LeaveNodeQuiet ==
  ASSUME Quiet, IInv, QuietIInv, LeaveNode
  PROVE  QuietIInv' /\ UNCHANGED store
<1>1. loop.pc = "leaving" /\ loop.subs = {} /\ loop'.pc = "read" /\ loop'.nodes = {}
  BY DEF LeaveNode, LoopAt
<1>2. InTable(loop.node) /\ SubsOn(loop.node) = {} /\ loop.nodes = {}
  BY <1>1 DEF QuietIInv, LoopQuiet, LoadPc
<1>n. PICK n \in NodeObj : n = loop.node
  BY <1>2 DEF InTable, Allocated
<1>a. PICK a \in Addr : a = nodeAddr[n]
  BY <1>2, <1>n DEF InTable, Allocated
<1>3. table[a] = n /\ n # NoNode
  BY <1>2, <1>n, <1>a, NodeTableAssumption DEF InTable
<1>4. \A b \in Addr : table'[b] = IF b = a THEN NoNode ELSE table[b]
  BY <1>n, <1>a DEF LeaveNode, IInv, TypeOK
<1>5. \A s \in SubId : device[n][s] = NoDev
  BY <1>2, <1>n DEF SubsOn
<1>6. Unread' = Unread /\ Unread = {} /\ \A m, r : ~Loading(m, r) /\ ~Loading(m, r)'
  BY <1>1, <1>2 DEF Unread, Loading
<1>7. store' = store /\ storedNode' = storedNode \ {a}
      /\ UNCHANGED <<nodeAddr, device, dev, shown, feed, enum>>
  <2>1. \A s \in SubId : store[a][s] = NoSection
    BY <1>3, <1>5, <1>6 DEF QuietIInv, Books, Sections, Copy
  <2>2. store' = [store EXCEPT ![a] = [s \in SubId |-> NoSection]]
        /\ storedNode' = storedNode \ {a}
    BY <1>n, <1>a DEF LeaveNode
  <2>3. store[a] = [s \in SubId |-> NoSection]
    BY <2>1 DEF IInv, TypeOK
  <2> QED BY <2>2, <2>3 DEF LeaveNode, IInv, TypeOK
<1>8. \A m \in NodeObj \ {n} : InTable(m) => InTable(m)'
  BY <1>a, <1>3, <1>4, <1>7 DEF InTable, Allocated
<1>9. Sections'
  <2>1. storedNode' = {b \in Addr : table'[b] # NoNode} \cup Unread'
    BY <1>4, <1>6, <1>7 DEF QuietIInv, Books, Sections
  <2>2. \A b \in Addr, s \in SubId : table'[b] = NoNode => store'[b][s] = NoSection
    BY <1>3, <1>4, <1>5, <1>6, <1>7 DEF QuietIInv, Books, Sections, Copy
  <2>3. \A b \in Addr, s \in SubId : table'[b] # NoNode => store'[b][s] = Copy(table[b], s)'
    BY <1>4, <1>6, <1>7 DEF QuietIInv, Books, Sections, Copy
  <2> QED BY <1>6, <2>1, <2>2, <2>3 DEF Sections
<1>10. Identities' /\ Objects' /\ Told'
  <2>1. Objects'
    BY <1>5, <1>7, <1>8 DEF QuietIInv, Books, Objects
  <2>2. Told'
    BY <1>3, <1>4, <1>5, <1>7 DEF QuietIInv, Books, Told, Listed
  <2> QED BY <1>7, <2>1, <2>2 DEF QuietIInv, Books, Identities
<1>11. EnumQuiet'
  <2>1. \A p \in Proc : enum[p].pc # "idle" => enum[p].node # n
    BY <1>1, <1>n DEF QuietIInv, EnumQuiet, EnumPlace
  <2>2. Elsewhere(n)
    BY <1>7 DEF Elsewhere
  <2> QED BY <1>1, <1>7, <1>8, <2>1, <2>2, LoopStepQuiet DEF QuietIInv
<1>12. LoopQuiet'
  BY <1>1 DEF LoopQuiet, LoadPc
<1> QED BY <1>7, <1>9, <1>10, <1>11, <1>12 DEF QuietIInv, Books

LEMMA CrashQuiet ==
  ASSUME IInv, QuietIInv, Crash
  PROVE  QuietIInv'
<1>1. /\ \A a \in Addr : table'[a] = NoNode
      /\ \A n \in NodeObj, s \in SubId : device'[n][s] = NoDev
      /\ \A d \in DevObj : dev'[d] = NoDevice
      /\ \A a \in Addr, s \in SubId : feed'[a][s] = 0
      /\ loop'.pc = "boot" /\ \A p \in Proc : enum'[p].pc = "idle"
      /\ UNCHANGED <<storedNode, store>>
  BY DEF Crash, LoopAt, Idle, diskVars
<1>2. Unread' = storedNode
  BY <1>1 DEF Unread
<1>3. Sections'
  BY <1>1, <1>2 DEF QuietIInv, Books, Sections, IInv, TypeOK
<1>4. Identities'
  BY <1>1 DEF QuietIInv, Books, Identities
<1>5. Objects' /\ Told'
  BY <1>1 DEF Objects, Told, Listed, NoDevice
<1>6. LoopQuiet' /\ EnumQuiet'
  BY <1>1 DEF LoopQuiet, LoadPc, EnumQuiet, EnumPlace, EnumWork
<1> QED BY <1>3, <1>4, <1>5, <1>6 DEF QuietIInv, Books

LEMMA InitQuiet == Init => QuietIInv
<1> SUFFICES ASSUME Init PROVE QuietIInv
  OBVIOUS
<1>1. /\ \A a \in Addr : table[a] = NoNode
      /\ \A n \in NodeObj, s \in SubId : device[n][s] = NoDev
      /\ \A d \in DevObj : dev[d] = NoDevice
      /\ \A a \in Addr, s \in SubId : feed[a][s] = 0 /\ store[a][s] = NoSection
      /\ loop.pc = "boot" /\ \A p \in Proc : enum[p].pc = "idle"
      /\ storedNode = {}
  BY DEF Init, LoopAt, Idle
<1>2. Unread = {}
  BY <1>1 DEF Unread
<1>3. Sections /\ Identities
  BY <1>1, <1>2, NodeTableAssumption DEF Sections, Identities, NoSection
<1>4. Objects /\ Told
  BY <1>1 DEF Objects, Told, Listed, NoDevice
<1>5. LoopQuiet /\ EnumQuiet
  BY <1>1 DEF LoopQuiet, LoadPc, EnumQuiet, EnumPlace, EnumWork
<1> QED BY <1>3, <1>4, <1>5 DEF QuietIInv, Books

LEMMA StutterQuiet ==
  ASSUME QuietIInv, UNCHANGED vars
  PROVE  QuietIInv'
BY DEF vars, diskVars, QuietIInv, Books, Sections, Identities, Objects, Told, Listed,
   LoopQuiet, EnumQuiet, EnumPlace, EnumWork, Found, InTable, Allocated, Copy, Unread,
   Loading, SubsOn, DevicesOn

LEMMA QuietStep ==
  ASSUME Quiet, IInv, ExclusiveEnumeration, DeviceAddresses, QuietIInv, [Next]_vars
  PROVE  QuietIInv'
<1>1. CASE Load
  BY <1>1, LoopLocalQuiet, LoadNodeQuiet, LoadDeviceQuiet, LoadUniqueIdQuiet DEF Load
<1>2. CASE Handle
  BY <1>2, JoinDeviceQuiet, JoinAdvertiseQuiet, LeaveDeviceQuiet, LeaveNodeQuiet DEF Handle
<1>3. CASE Stop \/ \E a \in Addr : Leave(a) \/ \E n \in NodeObj : JoinNode(a, n)
  BY <1>3, LoopLocalQuiet, JoinNodeQuiet
<1>4. CASE \E p \in Proc : EnumStep(p) \/ \E n \in NodeObj : Enumerate(n, p)
  BY <1>4, EnumStepKeepsQuiet, EnumerateQuiet
<1>5. CASE Crash
  BY <1>5, CrashQuiet
<1>6. CASE UNCHANGED vars
  BY <1>6, StutterQuiet
<1> QED BY <1>1, <1>2, <1>3, <1>4, <1>5, <1>6 DEF Next

\* In a quiet environment the books are always in order.
LEMMA QuietHolds ==
  ASSUME Quiet
  PROVE  Spec => []QuietIInv
<1>1. IInv /\ ExclusiveEnumeration /\ DeviceAddresses /\ QuietIInv /\ [Next]_vars => QuietIInv'
  BY QuietStep
<1> QED BY <1>1, InitQuiet, IInvInductive, EnumerationIsExclusive, AddressesHold, PTL DEF Spec

(***************************************************************************)
(* In a quiet environment persistence is a copy of the tables once they    *)
(* are loaded.                                                             *)
(***************************************************************************)
THEOREM StoreMirrors ==
  ASSUME Quiet
  PROVE  Spec => []StoreMirrorsTable
<1>1. IInv /\ QuietIInv => StoreMirrorsTable
  <2> SUFFICES ASSUME IInv, QuietIInv, Loaded PROVE StoreMirrorsTable
    BY DEF StoreMirrorsTable
  <2>1. Unread = {} /\ \A m, s : ~Loading(m, s)
    BY DEF Loaded, QuietIInv, LoopQuiet, Unread, Loading, LoadPc
  <2>2. storedNode = {a \in Addr : table[a] # NoNode}
    BY <2>1 DEF QuietIInv, Books, Sections
  <2>3. \A a \in Addr, s \in SubId :
          store[a][s] = IF table[a] = NoNode THEN NoSection ELSE Copy(table[a], s)
    BY <2>1 DEF QuietIInv, Books, Sections
  <2> QED BY <2>2, <2>3 DEF StoreMirrorsTable, Copy
<1> QED BY <1>1, QuietHolds, IInvInductive, PTL

(***************************************************************************)
(* In a quiet environment updateNodeTable leaves the node with exactly one *)
(* device per endpoint found, and with no other.                           *)
(***************************************************************************)
THEOREM EnumerationIsComplete ==
  ASSUME Quiet
  PROVE  Spec => []EnumerationReconciles
<1>1. IInv /\ QuietIInv => EnumerationReconciles
  <2> SUFFICES ASSUME IInv, QuietIInv, NEW p \in Proc, enum[p].pc = "caps"
               PROVE  /\ {dev[d].id : d \in DevicesOn(enum[p].node)} = enum[p].inv
                      /\ Cardinality(SubsOn(enum[p].node)) = Cardinality(enum[p].inv)
                      /\ \A d \in DevicesOn(enum[p].node) :
                           dev[d].set /\ enum[p].map[dev[d].id] = d
    BY DEF EnumerationReconciles
  <2> DEFINE n == enum[p].node
             inv == enum[p].inv
             a == nodeAddr[n]
  <2>1. /\ enum[p] \in EnumRecord /\ EnumGood(enum[p]) /\ EnumWork(enum[p])
        /\ n \in NodeObj /\ InTable(n) /\ \A s \in SubId : store[a][s] = Copy(n, s)
    BY EnumeratedNode DEF QuietIInv
  <2>2. \A d \in DevicesOn(n) : dev[d].set /\ dev[d].id \in inv
    BY <2>1 DEF EnumWork
  <2>3. \A e \in inv : enum[p].map[e] \in DevicesOn(n) /\ dev[enum[p].map[e]].id = e
    BY <2>1 DEF EnumWork, EnumGood, EnumRecord, Found
  <2>4. {dev[d].id : d \in DevicesOn(n)} = inv
    BY <2>2, <2>3
  <2>5. \A s \in SubsOn(n) : s \in SubId /\ device[n][s] \in DevicesOn(n)
                             /\ store[a][s] = dev[device[n][s]].id
    BY <2>1, <2>2 DEF DevicesOn, SubsOn, Copy
  <2>6. \A s, t \in SubsOn(n) : s # t => dev[device[n][s]].id # dev[device[n][t]].id
    <3>1. a \in Addr /\ inv \subseteq Endpoint
      BY <2>1 DEF InTable, Allocated, EnumRecord
    <3> QED BY <2>2, <2>5, <3>1 DEF QuietIInv, Books, Identities
  <2>7. ASSUME NEW d \in DevicesOn(n) PROVE enum[p].map[dev[d].id] = d
    <3>1. PICK s \in SubsOn(n) : d = device[n][s]
      BY DEF DevicesOn
    <3>2. PICK t \in SubsOn(n) : enum[p].map[dev[d].id] = device[n][t]
      BY <2>2, <2>3 DEF DevicesOn
    <3>3. dev[device[n][t]].id = dev[device[n][s]].id
      BY <2>2, <2>3, <3>1, <3>2
    <3> QED BY <2>6, <3>1, <3>2, <3>3
  <2>8. Cardinality(SubsOn(n)) = Cardinality(inv)
    <3> DEFINE f == [s \in SubsOn(n) |-> dev[device[n][s]].id]
    <3>1. f \in Bijection(SubsOn(n), inv)
      <4>1. f \in [SubsOn(n) -> inv]
        BY <2>2, <2>5
      <4>2. \A s, t \in SubsOn(n) : f[s] = f[t] => s = t
        BY <2>6
      <4>3. ASSUME NEW e \in inv PROVE \E s \in SubsOn(n) : f[s] = e
        <5>1. PICK s \in SubsOn(n) : enum[p].map[e] = device[n][s]
          BY <2>3 DEF DevicesOn
        <5> QED BY <2>3, <5>1
      <4> HIDE DEF f
      <4> QED BY <4>1, <4>2, <4>3 DEF Bijection, Injection, Surjection, IsInjective
    <3>2. IsFiniteSet(SubsOn(n))
      <4>1. SubsOn(n) \in SUBSET (0 .. MaxSub) /\ 0 \in Int /\ MaxSub \in Int
        BY NodeTableAssumption DEF SubsOn, SubId
      <4>2. IsFiniteSet(0 .. MaxSub)
        BY <4>1, FS_Interval
      <4> QED BY <4>1, <4>2, FS_Subset
    <3> HIDE DEF f
    <3> QED BY <3>1, <3>2, FS_Bijection DEF ExistsBijection
  <2> QED BY <2>2, <2>4, <2>7, <2>8
<1> QED BY <1>1, QuietHolds, IInvInductive, PTL

(***************************************************************************)
(* In a quiet environment a handled leave leaves nothing behind, neither   *)
(* in persistence nor with the consumer.                                   *)
(***************************************************************************)
THEOREM LeaveForgets ==
  ASSUME Quiet
  PROVE  Spec => []LeaveForgetsNode
<1>1. IInv /\ QuietIInv => LeaveForgetsNode
  <2> SUFFICES ASSUME IInv, QuietIInv, NEW a \in Addr, loop.pc = "read", table[a] = NoNode
               PROVE  a \notin storedNode /\ \A s \in SubId : feed[a][s] = 0
    BY DEF LeaveForgetsNode
  <2>1. Unread = {}
    BY DEF QuietIInv, LoopQuiet, Unread, LoadPc
  <2>2. a \notin storedNode
    BY <2>1 DEF QuietIInv, Books, Sections
  <2>3. \A s \in SubId : feed[a][s] = 0
    BY DEF QuietIInv, Books, Told, Listed
  <2> QED BY <2>2, <2>3
<1> QED BY <1>1, QuietHolds, IInvInductive, PTL

-----------------------------------------------------------------------------
(***************************************************************************)
(* The steps of a quiet environment, as the consumer of the devices sees   *)
(* them: each changes nothing it sees, or creates a device where there was *)
(* none, gives an id to a device that has none and to no other of its      *)
(* node, or drops a device whose node leaves or whose endpoint is gone.    *)
(***************************************************************************)
SeenNothing ==
  /\ UNCHANGED <<device, store, feed>>
  /\ \A a \in Addr, s \in SubId : Listed(a, s)' <=> Listed(a, s)

SeenCreate(n, s, d) ==
  /\ InTable(n) /\ device[n][s] = NoDev /\ CreateDevice(n, s, d)
  /\ UNCHANGED <<table, nodeAddr>>

SeenIdentify(n, s, d, e) ==
  /\ InTable(n) /\ device[n][s] = d /\ SetUniqueId(d, e)
  /\ store[nodeAddr[n]][s] = NoUniqueId
  /\ \A r \in SubId : store[nodeAddr[n]][r] # e
  /\ UNCHANGED <<table, nodeAddr, device, feed>>

Gone(n, s) ==
  \/ loop.pc = "leaving" /\ loop.node = n
  \/ \E p \in Proc : enum[p].node = n /\ enum[p].pc = "removing"
                     /\ dev[device[n][s]].id \notin enum[p].inv

SeenDrop(n, s) ==
  /\ InTable(n) /\ device[n][s] # NoDev /\ DropDevice(n, s) /\ Gone(n, s)
  /\ UNCHANGED <<table, nodeAddr>>

Seen ==
  \/ SeenNothing
  \/ \E n \in NodeObj, s \in SubId :
       \/ SeenDrop(n, s)
       \/ \E d \in DevObj : SeenCreate(n, s, d) \/ \E e \in Endpoint : SeenIdentify(n, s, d, e)

\* The view depends on the tables.
LEMMA SameSeen ==
  ASSUME UNCHANGED <<table, device, store, feed>>
  PROVE  Seen
BY DEF Seen, SeenNothing, Listed

LEMMA NewNodeSeen ==
  ASSUME IInv, QuietIInv, NEW a \in Addr, NEW n \in NodeObj, NewNode(a, n),
         UNCHANGED <<device, store, feed>>
  PROVE  Seen
<1>1. \A s \in SubId : device[n][s] = NoDev
  <2>1. ~Allocated(n)
    BY NodeTableAssumption DEF NewNode, Allocated
  <2> QED BY <2>1 DEF QuietIInv, Books, Objects, InTable
<1>2. table[a] = NoNode /\ \A b \in Addr : table'[b] = IF b = a THEN n ELSE table[b]
  BY DEF NewNode, IInv, TypeOK
<1>3. \A b \in Addr, s \in SubId : Listed(b, s)' <=> Listed(b, s)
  BY <1>1, <1>2 DEF Listed
<1> QED BY <1>3 DEF Seen, SeenNothing

LEMMA LeaveNodeSeen ==
  ASSUME Quiet, IInv, QuietIInv, LeaveNode
  PROVE  Seen
<1>1. store' = store /\ UNCHANGED <<device, feed>>
  BY LeaveNodeQuiet DEF LeaveNode
<1>2. InTable(loop.node) /\ SubsOn(loop.node) = {}
  BY DEF LeaveNode, QuietIInv, LoopQuiet
<1>n. PICK n \in NodeObj : n = loop.node
  BY <1>2 DEF InTable, Allocated
<1>a. PICK a \in Addr : a = nodeAddr[n] /\ table[a] = n
  BY <1>2, <1>n DEF InTable, Allocated
<1>3. \A b \in Addr : table'[b] = IF b = a THEN NoNode ELSE table[b]
  BY <1>n, <1>a DEF LeaveNode, IInv, TypeOK
<1>4. \A s \in SubId : device[n][s] = NoDev
  BY <1>2, <1>n DEF SubsOn
<1>5. \A b \in Addr, s \in SubId : Listed(b, s)' <=> Listed(b, s)
  BY <1>1, <1>a, <1>3, <1>4 DEF Listed
<1> QED BY <1>1, <1>5 DEF Seen, SeenNothing

LEMMA LoopSeen ==
  ASSUME Quiet, IInv, DeviceAddresses, QuietIInv, Load \/ Handle
  PROVE  Seen
<1>1. CASE Boot \/ LoadNext \/ JoinAdvertise
  BY <1>1, SameSeen DEF Boot, LoadNext, JoinAdvertise, diskVars
<1>2. CASE LoadUniqueId
  <2>1. UNCHANGED store
    BY <1>2, LoadUniqueIdQuiet
  <2> QED BY <1>2, <2>1, SameSeen DEF LoadUniqueId
<1>3. ASSUME NEW a \in Addr, NEW n \in NodeObj, LoadNode(a, n) PROVE Seen
  BY <1>3, NewNodeSeen DEF LoadNode
<1>4. ASSUME NEW s \in SubId, NEW d \in DevObj, LoadDevice(s, d) PROVE Seen
  <2>1. InTable(loop.node) /\ device[loop.node][s] = NoDev
    BY <1>4 DEF LoadDevice, QuietIInv, LoopQuiet
  <2>2. PICK n \in NodeObj : n = loop.node
    BY <2>1 DEF InTable, Allocated
  <2>3. SeenCreate(n, s, d)
    BY <1>4, <2>1, <2>2 DEF LoadDevice, SeenCreate
  <2> QED BY <2>3 DEF Seen
<1>5. ASSUME NEW d \in DevObj, JoinDevice(d) PROVE Seen
  <2>1. InTable(loop.node) /\ SubsOn(loop.node) = {}
    BY <1>5 DEF JoinDevice, QuietIInv, LoopQuiet
  <2>2. PICK n \in NodeObj : n = loop.node
    BY <2>1 DEF InTable, Allocated
  <2>3. PICK s \in SubId : s = NextSub(n)
    BY NextSubIn
  <2>4. SeenCreate(n, s, d)
    BY <1>5, <2>1, <2>2, <2>3 DEF JoinDevice, SeenCreate, SubsOn
  <2> QED BY <2>4 DEF Seen
<1>6. ASSUME NEW s \in SubId, LeaveDevice(s) PROVE Seen
  <2>1. loop.pc = "leaving" /\ InTable(loop.node) /\ device[loop.node][s] # NoDev
    BY <1>6 DEF LeaveDevice, QuietIInv, LoopQuiet, SubsOn
  <2>2. PICK n \in NodeObj : n = loop.node
    BY <2>1 DEF InTable, Allocated
  <2>3. SeenDrop(n, s)
    BY <1>6, <2>1, <2>2 DEF LeaveDevice, SeenDrop, Gone
  <2> QED BY <2>3 DEF Seen
<1> QED BY <1>1, <1>2, <1>3, <1>4, <1>5, <1>6, LeaveNodeSeen DEF Load, Handle

\* setDeviceUniqueId by an enumeration, seen.
LEMMA IdentifySeen ==
  ASSUME Quiet, IInv, DeviceAddresses, QuietIInv,
         NEW p \in Proc, enum[p].pc # "idle", NEW n \in NodeObj, n = enum[p].node,
         NEW d \in DevicesOn(n), ~dev[d].set, NEW e \in Endpoint, SetUniqueId(d, e),
         \A x \in DevicesOn(n) : dev[x].id # e,
         UNCHANGED <<table, nodeAddr, device, feed>>
  PROVE  Seen
<1>1. InTable(n) /\ \A s \in SubId : store[nodeAddr[n]][s] = Copy(n, s)
  BY EnumeratedNode DEF QuietIInv
<1>2. PICK s \in SubId : device[n][s] = d /\ d # NoDev /\ d \in DevObj
  BY DEF DevicesOn, SubsOn, IInv, TypeOK
<1>3. store[nodeAddr[n]][s] = NoUniqueId
  BY <1>1, <1>2 DEF Copy
<1>4. \A r \in SubId : store[nodeAddr[n]][r] # e
  BY <1>1, Sentinels DEF Copy, DevicesOn, SubsOn
<1>5. SeenIdentify(n, s, d, e)
  BY <1>1, <1>2, <1>3, <1>4 DEF SeenIdentify
<1> QED BY <1>2, <1>5 DEF Seen

LEMMA EnumSeen ==
  ASSUME Quiet, IInv, ExclusiveEnumeration, DeviceAddresses, QuietIInv,
         NEW p \in Proc, EnumStep(p)
  PROVE  Seen
<1>0. enum[p].pc # "idle" =>
        /\ enum[p] \in EnumRecord /\ EnumGood(enum[p]) /\ EnumWork(enum[p])
        /\ enum[p].node \in NodeObj /\ InTable(enum[p].node)
  BY EnumeratedNode DEF QuietIInv
<1>1. CASE Interrogate(p) \/ CollectUnset(p) \/ MatchExisting(p) \/ AssignPick(p)
           \/ CollectStale(p) \/ TableUpdated(p) \/ Release(p)
           \/ \E s \in SubId : RemoveLookup(p, s)
  BY <1>1, SameSeen DEF Interrogate, CollectUnset, MatchExisting, AssignPick,
     CollectStale, TableUpdated, Release, RemoveLookup, enumOnly, diskVars
<1>2. CASE UpdateCapabilities(p)
  <2>1. UNCHANGED store
    BY <1>2, UpdateCapabilitiesQuiet
  <2> QED BY <1>2, <2>1, SameSeen DEF UpdateCapabilities
<1>3. CASE AssignReuse(p)
  <2>1. enum[p].pc = "assign" /\ enum[p].todo # {}
    BY <1>3 DEF AssignReuse
  <2>2. PICK n \in NodeObj : n = enum[p].node
    BY <1>0, <2>1
  <2>3. PICK e \in Endpoint : e = Least(enum[p].todo) /\ e \in enum[p].todo
    BY <1>0, <2>1, LeastIn, NodeTableAssumption DEF EnumRecord
  <2>4. PICK d \in enum[p].unset : SetUniqueId(d, e)
    BY <1>3, <2>3 DEF AssignReuse
  <2>5. d \in DevicesOn(n) /\ ~dev[d].set /\ \A x \in DevicesOn(n) : dev[x].id # e
    BY <1>0, <2>1, <2>2, <2>3, <2>4 DEF EnumWork
  <2>6. UNCHANGED <<table, nodeAddr, device, feed>>
    BY <1>3 DEF AssignReuse
  <2> QED BY <2>1, <2>2, <2>4, <2>5, <2>6, IdentifySeen
<1>4. CASE AssignIdentify(p)
  <2>1. enum[p].pc = "identify"
    BY <1>4 DEF AssignIdentify
  <2>2. PICK n \in NodeObj : n = enum[p].node
    BY <1>0, <2>1
  <2>3. PICK e \in Endpoint : e = Least(enum[p].todo) /\ e \in enum[p].todo
    BY <1>0, <2>1, LeastIn, NodeTableAssumption DEF EnumRecord, EnumGood
  <2>4. PICK d \in DevicesOn(n) : d = enum[p].map[e]
    BY <1>0, <2>1, <2>2, <2>3 DEF EnumWork
  <2>5. ~dev[d].set /\ \A x \in DevicesOn(n) : dev[x].id # e
    BY <1>0, <2>1, <2>2, <2>3, <2>4 DEF EnumWork
  <2>6. SetUniqueId(d, e) /\ UNCHANGED <<table, nodeAddr, device, feed>>
    BY <1>4, <2>3, <2>4 DEF AssignIdentify
  <2> QED BY <2>1, <2>2, <2>5, <2>6, IdentifySeen
<1>5. ASSUME NEW d \in DevObj, AssignCreate(p, d) PROVE Seen
  <2>1. enum[p].pc = "create"
    BY <1>5 DEF AssignCreate
  <2>2. PICK n \in NodeObj : n = enum[p].node
    BY <1>0, <2>1
  <2>3. PICK s \in SubId : s = enum[p].sub
    BY <1>0, <2>1 DEF EnumRecord
  <2>4. device[n][s] = NoDev /\ InTable(n)
    BY <1>0, <2>1, <2>2, <2>3 DEF EnumWork
  <2>5. SeenCreate(n, s, d)
    BY <1>5, <2>2, <2>3, <2>4 DEF AssignCreate, SeenCreate
  <2> QED BY <2>5 DEF Seen
<1>6. CASE RemoveStale(p)
  <2>1. enum[p].pc = "removing"
    BY <1>6 DEF RemoveStale
  <2>2. PICK n \in NodeObj : n = enum[p].node
    BY <1>0, <2>1
  <2>3. PICK s \in SubId : s = enum[p].sub
    BY <1>0, <2>1 DEF EnumRecord
  <2>4. /\ InTable(n) /\ device[n][s] # NoDev /\ enum[p].target = n
        /\ dev[device[n][s]].id \notin enum[p].inv
    BY <1>0, <2>1, <2>2, <2>3 DEF EnumWork, SubsOn
  <2>5. SeenDrop(n, s)
    BY <1>6, <2>1, <2>2, <2>3, <2>4 DEF RemoveStale, SeenDrop, Gone
  <2> QED BY <2>5 DEF Seen
<1> QED BY <1>1, <1>2, <1>3, <1>4, <1>5, <1>6 DEF EnumStep

LEMMA StepSeen ==
  ASSUME Quiet, IInv, ExclusiveEnumeration, DeviceAddresses, QuietIInv, [Next]_vars, ~Crash
  PROVE  Seen
<1>1. CASE \E a \in Addr, n \in NodeObj : JoinNode(a, n)
  BY <1>1, NewNodeSeen DEF JoinNode
<1>2. CASE Stop \/ (\E a \in Addr : Leave(a))
           \/ (\E p \in Proc, n \in NodeObj : Enumerate(n, p)) \/ UNCHANGED vars
  BY <1>2, SameSeen DEF Stop, Leave, Enumerate, vars, diskVars
<1> QED BY <1>1, <1>2, LoopSeen, EnumSeen DEF Next

(***************************************************************************)
(* In a quiet environment a device that stands for an endpoint is          *)
(* withdrawn only by a leave or by an enumeration that did not find the    *)
(* endpoint.                                                               *)
(***************************************************************************)
THEOREM WithdrawnWhenGone ==
  ASSUME Quiet
  PROVE  Spec => WithdrawnOnlyWhenGone
<1> DEFINE Cause(n, s) ==
             LET d == device[n][s] IN
             crashes' = crashes /\ d # NoDev /\ dev[d].set /\ device'[n][s] # d =>
               \/ loop.pc = "leaving" /\ loop.node = n
               \/ \E p \in Proc : enum[p].node = n /\ enum[p].pc = "removing"
                                  /\ dev[d].id \notin enum[p].inv
           Caused == \A n \in NodeObj, s \in SubId : Cause(n, s)
<1>1. IInv /\ ExclusiveEnumeration /\ DeviceAddresses /\ QuietIInv /\ [Next]_vars => Caused
  <2> SUFFICES ASSUME IInv, ExclusiveEnumeration, DeviceAddresses, QuietIInv, [Next]_vars,
                      NEW n \in NodeObj, NEW s \in SubId, crashes' = crashes,
                      device[n][s] # NoDev, device'[n][s] # device[n][s]
               PROVE  Gone(n, s)
    BY DEF Gone
  <2>1. ~Crash
    BY DEF Crash, IInv, TypeOK
  <2>2. CASE SeenNothing
    BY <2>2 DEF SeenNothing
  <2>3. ASSUME NEW m \in NodeObj, NEW r \in SubId, SeenDrop(m, r)
        PROVE  Gone(n, s)
    <3>1. device'[n][s] = IF n = m /\ s = r THEN NoDev ELSE device[n][s]
      BY <2>3 DEF SeenDrop, DropDevice, IInv, TypeOK
    <3> QED BY <2>3, <3>1 DEF SeenDrop
  <2>4. ASSUME NEW m \in NodeObj, NEW r \in SubId, NEW d \in DevObj, SeenCreate(m, r, d)
        PROVE  FALSE
    <3>1. device'[n][s] = IF n = m /\ s = r THEN d ELSE device[n][s]
      BY <2>4 DEF SeenCreate, CreateDevice, IInv, TypeOK
    <3> QED BY <2>4, <3>1 DEF SeenCreate
  <2>5. ASSUME NEW m \in NodeObj, NEW r \in SubId, NEW d \in DevObj, NEW e \in Endpoint,
               SeenIdentify(m, r, d, e)
        PROVE  FALSE
    BY <2>5 DEF SeenIdentify
  <2> QED BY <2>1, <2>2, <2>3, <2>4, <2>5, StepSeen DEF Seen
<1>2. IInv /\ ExclusiveEnumeration /\ DeviceAddresses /\ QuietIInv /\ [Next]_vars => [Caused]_vars
  BY <1>1
<1>3. Spec => [][Caused]_vars
  BY <1>2, QuietHolds, IInvInductive, EnumerationIsExclusive, AddressesHold, PTL DEF Spec
<1> QED BY <1>3 DEF WithdrawnOnlyWhenGone

-----------------------------------------------------------------------------
(***************************************************************************)
(* The feed of the devices.  What DeviceFeed calls live, balance and       *)
(* identity are these functions of the tables.                             *)
(***************************************************************************)
Places == Addr \X SubId
LiveView == {i \in Places : table[i[1]] # NoNode /\ device[table[i[1]]][i[2]] # NoDev}
BalanceView == [i \in Places |-> feed[i[1]][i[2]]]
IdentityView ==
  [i \in Places |-> IF store[i[1]][i[2]] \in Nat THEN store[i[1]][i[2]] ELSE -1]

\* Feed, with the views named.
LEMMA FeedViews ==
  /\ Feed!FeedInit <=> /\ LiveView = {}
                       /\ BalanceView = [i \in Places |-> 0]
                       /\ IdentityView = [i \in Places |-> -1]
  /\ UNCHANGED <<LiveView, BalanceView, IdentityView>> => UNCHANGED Feed!feedVars
  /\ LiveView' = {} /\ BalanceView' = [i \in Places |-> 0] /\ UNCHANGED IdentityView
       => Feed!FeedNext
  /\ \A i \in Places :
       /\ i \notin LiveView /\ BalanceView[i] = 0 /\ LiveView' = LiveView \cup {i}
          /\ BalanceView' = [BalanceView EXCEPT ![i] = 1] /\ UNCHANGED IdentityView
            => Feed!FeedNext
       /\ i \in LiveView /\ BalanceView[i] = 1 /\ LiveView' = LiveView \ {i}
          /\ BalanceView' = [BalanceView EXCEPT ![i] = 0]
          /\ IdentityView' = [IdentityView EXCEPT ![i] = -1]
            => Feed!FeedNext
       /\ \A e \in Endpoint :
            /\ i \in LiveView /\ IdentityView[i] = -1
            /\ \A j \in Places : j[1] = i[1] => IdentityView[j] # e
            /\ IdentityView' = [IdentityView EXCEPT ![i] = e]
            /\ UNCHANGED <<LiveView, BalanceView>>
            => Feed!FeedNext
<1>1. Feed!Id = Places /\ Feed!None = -1
  BY DEF Feed!Id, Feed!None, Places
<1>2. Feed!FeedInit <=> /\ LiveView = {}
                        /\ BalanceView = [i \in Places |-> 0]
                        /\ IdentityView = [i \in Places |-> -1]
  BY <1>1 DEF Feed!FeedInit, Places, LiveView, BalanceView, IdentityView
<1>3. UNCHANGED <<LiveView, BalanceView, IdentityView>> => UNCHANGED Feed!feedVars
  BY DEF Feed!feedVars, Places, LiveView, BalanceView, IdentityView
<1>4. LiveView' = {} /\ BalanceView' = [i \in Places |-> 0] /\ UNCHANGED IdentityView
        => Feed!Restart
  BY <1>1 DEF Feed!Restart, Places, LiveView, BalanceView, IdentityView
<1>5. ASSUME NEW i \in Places
      PROVE  /\ i \notin LiveView /\ BalanceView[i] = 0 /\ LiveView' = LiveView \cup {i}
                /\ BalanceView' = [BalanceView EXCEPT ![i] = 1] /\ UNCHANGED IdentityView
                  => Feed!Announce(i)
             /\ i \in LiveView /\ BalanceView[i] = 1 /\ LiveView' = LiveView \ {i}
                /\ BalanceView' = [BalanceView EXCEPT ![i] = 0]
                /\ IdentityView' = [IdentityView EXCEPT ![i] = -1]
                  => Feed!Withdraw(i)
  <2>1. i \notin LiveView /\ BalanceView[i] = 0 /\ LiveView' = LiveView \cup {i}
          /\ BalanceView' = [BalanceView EXCEPT ![i] = 1] /\ UNCHANGED IdentityView
            => Feed!Announce(i)
    BY DEF Feed!Announce, Places, LiveView, BalanceView, IdentityView
  <2>2. i \in LiveView /\ BalanceView[i] = 1 /\ LiveView' = LiveView \ {i}
          /\ BalanceView' = [BalanceView EXCEPT ![i] = 0]
          /\ IdentityView' = [IdentityView EXCEPT ![i] = -1]
            => Feed!Withdraw(i)
    BY <1>1 DEF Feed!Withdraw, Places, LiveView, BalanceView, IdentityView
  <2> QED BY <2>1, <2>2
<1>6. ASSUME NEW i \in Places, NEW e \in Endpoint,
             i \in LiveView, IdentityView[i] = -1,
             \A j \in Places : j[1] = i[1] => IdentityView[j] # e,
             IdentityView' = [IdentityView EXCEPT ![i] = e],
             UNCHANGED <<LiveView, BalanceView>>
      PROVE  Feed!Identify(i, e)
  BY <1>1, <1>6 DEF Feed!Identify, Places, LiveView, BalanceView, IdentityView
<1>7. ASSUME NEW i \in Places
      PROVE  /\ Feed!Announce(i) => Feed!FeedNext
             /\ Feed!Withdraw(i) => Feed!FeedNext
             /\ \A e \in Endpoint : Feed!Identify(i, e) => Feed!FeedNext
  BY <1>1 DEF Feed!FeedNext
<1>8. Feed!Restart => Feed!FeedNext
  BY DEF Feed!FeedNext
<1> QED BY <1>2, <1>3, <1>4, <1>5, <1>6, <1>7, <1>8

LEMMA ViewsAt ==
  \A a \in Addr, s \in SubId :
    /\ <<a, s>> \in LiveView <=> Listed(a, s)
    /\ BalanceView[<<a, s>>] = feed[a][s]
    /\ IdentityView[<<a, s>>] = IF store[a][s] \in Nat THEN store[a][s] ELSE -1
BY DEF LiveView, BalanceView, IdentityView, Places, Listed

\* The views are equal when they are equal everywhere.
LEMMA SameLive ==
  ASSUME \A a \in Addr, s \in SubId : Listed(a, s)' <=> Listed(a, s)
  PROVE  LiveView' = LiveView
<1>1. \A i \in Places : i[1] \in Addr /\ i[2] \in SubId
  BY DEF Places
<1>2. \A i \in Places : Listed(i[1], i[2])' <=> Listed(i[1], i[2])
  BY <1>1
<1> QED BY <1>2 DEF LiveView, Listed

LEMMA SameIdentity ==
  ASSUME \A a \in Addr, s \in SubId :
           (store'[a][s] \in Nat <=> store[a][s] \in Nat)
           /\ (store[a][s] \in Nat => store'[a][s] = store[a][s])
  PROVE  IdentityView' = IdentityView
<1>1. \A i \in Places : i[1] \in Addr /\ i[2] \in SubId
  BY DEF Places
<1>2. \A i \in Places :
        (IF store'[i[1]][i[2]] \in Nat THEN store'[i[1]][i[2]] ELSE -1)
          = (IF store[i[1]][i[2]] \in Nat THEN store[i[1]][i[2]] ELSE -1)
  BY <1>1
<1> QED BY <1>2 DEF IdentityView

\* ... or everywhere but at one place.
LEMMA OneBalance ==
  ASSUME NEW a \in Addr, NEW s \in SubId, NEW v,
         \A b \in Addr, r \in SubId :
           feed'[b][r] = IF b = a /\ r = s THEN v ELSE feed[b][r]
  PROVE  BalanceView' = [BalanceView EXCEPT ![<<a, s>>] = v]
<1>1. \A i \in Places : i[1] \in Addr /\ i[2] \in SubId /\ i = <<i[1], i[2]>>
  BY DEF Places
<1>2. \A i \in Places : feed'[i[1]][i[2]] = IF i = <<a, s>> THEN v ELSE feed[i[1]][i[2]]
  BY <1>1
<1> QED BY <1>2 DEF BalanceView

LEMMA OneIdentity ==
  ASSUME NEW a \in Addr, NEW s \in SubId, NEW v,
         \A b \in Addr, r \in SubId :
           store'[b][r] = IF b = a /\ r = s THEN v ELSE store[b][r]
  PROVE  IdentityView' = [IdentityView EXCEPT ![<<a, s>>] = IF v \in Nat THEN v ELSE -1]
<1>1. \A i \in Places : i[1] \in Addr /\ i[2] \in SubId /\ i = <<i[1], i[2]>>
  BY DEF Places
<1>2. \A i \in Places : store'[i[1]][i[2]] = IF i = <<a, s>> THEN v ELSE store[i[1]][i[2]]
  BY <1>1
<1> DEFINE w == IF v \in Nat THEN v ELSE -1
<1>3. \A i \in Places :
        (IF store'[i[1]][i[2]] \in Nat THEN store'[i[1]][i[2]] ELSE -1)
          = IF i = <<a, s>> THEN w
            ELSE IF store[i[1]][i[2]] \in Nat THEN store[i[1]][i[2]] ELSE -1
  BY <1>2
<1> HIDE DEF w
<1>4. IdentityView' = [IdentityView EXCEPT ![<<a, s>>] = w]
  BY <1>3 DEF IdentityView
<1> QED BY <1>4 DEF w

LEMMA OneLive ==
  ASSUME NEW a \in Addr, NEW s \in SubId
  PROVE  /\ (\A b \in Addr, r \in SubId : Listed(b, r)' <=> Listed(b, r) \/ (b = a /\ r = s))
              => LiveView' = LiveView \cup {<<a, s>>}
         /\ (\A b \in Addr, r \in SubId : Listed(b, r)' <=> Listed(b, r) /\ ~(b = a /\ r = s))
              => LiveView' = LiveView \ {<<a, s>>}
<1>1. \A i \in Places : i[1] \in Addr /\ i[2] \in SubId /\ i = <<i[1], i[2]>>
  BY DEF Places
<1>2. ASSUME \A b \in Addr, r \in SubId : Listed(b, r)' <=> Listed(b, r) \/ (b = a /\ r = s)
      PROVE  LiveView' = LiveView \cup {<<a, s>>}
  <2>1. \A i \in Places : Listed(i[1], i[2])' <=> Listed(i[1], i[2]) \/ i = <<a, s>>
    BY <1>1, <1>2
  <2>2. <<a, s>> \in Places
    BY DEF Places
  <2> QED BY <2>1, <2>2 DEF LiveView, Listed
<1>3. ASSUME \A b \in Addr, r \in SubId : Listed(b, r)' <=> Listed(b, r) /\ ~(b = a /\ r = s)
      PROVE  LiveView' = LiveView \ {<<a, s>>}
  <2>1. \A i \in Places : Listed(i[1], i[2])' <=> Listed(i[1], i[2]) /\ i # <<a, s>>
    BY <1>1, <1>3
  <2> QED BY <2>1 DEF LiveView, Listed
<1> QED BY <1>2, <1>3

LEMMA NothingFeed ==
  ASSUME SeenNothing
  PROVE  UNCHANGED Feed!feedVars
<1>1. UNCHANGED LiveView
  BY SameLive DEF SeenNothing
<1>2. UNCHANGED <<BalanceView, IdentityView>>
  BY DEF SeenNothing, BalanceView, IdentityView
<1> QED BY <1>1, <1>2, FeedViews

LEMMA CreateFeed ==
  ASSUME IInv, Books, NEW n \in NodeObj, NEW s \in SubId, NEW d \in DevObj, SeenCreate(n, s, d)
  PROVE  Feed!FeedNext
<1>1. PICK a \in Addr : a = nodeAddr[n] /\ table[a] = n /\ n # NoNode
  BY NodeTableAssumption DEF SeenCreate, InTable, Allocated
<1>2. /\ \A m \in NodeObj, r \in SubId :
           device'[m][r] = IF m = n /\ r = s THEN d ELSE device[m][r]
      /\ \A x \in DevObj \ {d} : dev'[x] = dev[x]
      /\ dev'[d] = [node |-> n, sub |-> s, set |-> FALSE, id |-> 0]
      /\ \A b \in Addr, r \in SubId :
           feed'[b][r] = IF b = nodeAddr[n] /\ r = s THEN feed[b][r] + 1 ELSE feed[b][r]
      /\ \A b \in Addr, r \in SubId :
           store'[b][r] = IF b = nodeAddr[n] /\ r = s /\ store[b][r] = NoSection
                          THEN NoUniqueId ELSE store[b][r]
  <2>1. Sections /\ InTable(n) /\ CreateDevice(n, s, d)
    BY DEF Books, SeenCreate
  <2> QED BY <2>1, CreateDeviceEffect
<1>3. device[n][s] = NoDev /\ d # NoDev /\ UNCHANGED table
  BY NodeTableAssumption DEF SeenCreate
<1>4. ~Listed(a, s) /\ feed[a][s] = 0
  BY <1>1, <1>3 DEF Listed, Books, Told
<1>5. \A b \in Addr, r \in SubId : Listed(b, r)' <=> Listed(b, r) \/ (b = a /\ r = s)
  BY <1>1, <1>2, <1>3, TableNode DEF Listed
<1>6. LiveView' = LiveView \cup {<<a, s>>}
  BY <1>5, OneLive
<1>7. BalanceView' = [BalanceView EXCEPT ![<<a, s>>] = 1]
  <2>1. \A b \in Addr, r \in SubId : feed'[b][r] = IF b = a /\ r = s THEN 1 ELSE feed[b][r]
    BY <1>1, <1>2, <1>4
  <2> QED BY <2>1, OneBalance
<1>8. UNCHANGED IdentityView
  <2>1. NoSection \notin Nat /\ NoUniqueId \notin Nat
    BY DEF NoSection, NoUniqueId
  <2> QED BY <1>2, <2>1, SameIdentity
<1>9. <<a, s>> \in Places /\ <<a, s>> \notin LiveView /\ BalanceView[<<a, s>>] = 0
  BY <1>4, ViewsAt DEF Places
<1> QED BY <1>6, <1>7, <1>8, <1>9, FeedViews

LEMMA DropFeed ==
  ASSUME IInv, Books, NEW n \in NodeObj, NEW s \in SubId, SeenDrop(n, s)
  PROVE  Feed!FeedNext
<1>1. PICK a \in Addr : a = nodeAddr[n] /\ table[a] = n /\ n # NoNode
  BY NodeTableAssumption DEF SeenDrop, InTable, Allocated
<1>2. /\ \A m \in NodeObj, r \in SubId :
           device'[m][r] = IF m = n /\ r = s THEN NoDev ELSE device[m][r]
      /\ \A b \in Addr, r \in SubId :
           feed'[b][r] = IF b = nodeAddr[n] /\ r = s THEN feed[b][r] - 1 ELSE feed[b][r]
      /\ \A b \in Addr, r \in SubId :
           store'[b][r] = IF b = nodeAddr[n] /\ r = s THEN NoSection ELSE store[b][r]
  <2>1. Sections /\ InTable(n) /\ device[n][s] # NoDev /\ DropDevice(n, s)
    BY DEF Books, SeenDrop
  <2> QED BY <2>1, DropDeviceEffect
<1>3. device[n][s] # NoDev /\ UNCHANGED table
  BY DEF SeenDrop
<1>4. Listed(a, s) /\ feed[a][s] = 1
  BY <1>1, <1>3 DEF Listed, Books, Told
<1>5. \A b \in Addr, r \in SubId : Listed(b, r)' <=> Listed(b, r) /\ ~(b = a /\ r = s)
  BY <1>1, <1>2, <1>3, TableNode DEF Listed
<1>6. LiveView' = LiveView \ {<<a, s>>}
  BY <1>5, OneLive
<1>7. BalanceView' = [BalanceView EXCEPT ![<<a, s>>] = 0]
  <2>1. \A b \in Addr, r \in SubId : feed'[b][r] = IF b = a /\ r = s THEN 0 ELSE feed[b][r]
    BY <1>1, <1>2, <1>4
  <2> QED BY <2>1, OneBalance
<1>8. IdentityView' = [IdentityView EXCEPT ![<<a, s>>] = -1]
  <2>1. NoSection \notin Nat
    BY DEF NoSection
  <2>2. \A b \in Addr, r \in SubId :
          store'[b][r] = IF b = a /\ r = s THEN NoSection ELSE store[b][r]
    BY <1>1, <1>2
  <2>3. IdentityView' = [IdentityView EXCEPT ![<<a, s>>] =
                           IF NoSection \in Nat THEN NoSection ELSE -1]
    BY <2>2, OneIdentity
  <2> QED BY <2>1, <2>3
<1>9. <<a, s>> \in Places /\ <<a, s>> \in LiveView /\ BalanceView[<<a, s>>] = 1
  BY <1>4, ViewsAt DEF Places
<1> QED BY <1>6, <1>7, <1>8, <1>9, FeedViews

LEMMA IdentifyFeed ==
  ASSUME Quiet, IInv, DeviceAddresses, Books, NEW n \in NodeObj, NEW s \in SubId,
         NEW d \in DevObj, NEW e \in Endpoint, SeenIdentify(n, s, d, e)
  PROVE  Feed!FeedNext
<1>1. PICK a \in Addr : a = nodeAddr[n] /\ table[a] = n /\ n # NoNode
  BY NodeTableAssumption DEF SeenIdentify, InTable, Allocated
<1>2. e \in Nat /\ NoUniqueId \notin Nat
  BY Sentinels
<1>3. \A b \in Addr, r \in SubId : store'[b][r] = IF b = a /\ r = s THEN e ELSE store[b][r]
  <2>1. Sections /\ InTable(n) /\ device[n][s] = d /\ SetUniqueId(d, e)
    BY DEF Books, SeenIdentify
  <2>2. \A b \in Addr, r \in SubId :
          store'[b][r] = IF b = nodeAddr[n] /\ r = s THEN e ELSE store[b][r]
    BY <1>2, <2>1, SetUniqueIdEffect
  <2> QED BY <1>1, <2>2
<1>4. device[n][s] # NoDev /\ UNCHANGED <<table, device, feed>>
  BY NodeTableAssumption DEF SeenIdentify
<1>5. UNCHANGED <<LiveView, BalanceView>>
  BY <1>4 DEF LiveView, BalanceView
<1>6. IdentityView' = [IdentityView EXCEPT ![<<a, s>>] = e]
  <2>1. IdentityView' = [IdentityView EXCEPT ![<<a, s>>] = IF e \in Nat THEN e ELSE -1]
    BY <1>3, OneIdentity
  <2> QED BY <1>2, <2>1
<1>7. /\ <<a, s>> \in Places /\ <<a, s>> \in LiveView /\ IdentityView[<<a, s>>] = -1
  BY <1>1, <1>2, <1>4, ViewsAt DEF Places, Listed, SeenIdentify
<1>8. ASSUME NEW j \in Places, j[1] = a PROVE IdentityView[j] # e
  <2>1. j = <<a, j[2]>> /\ j[2] \in SubId
    BY <1>8 DEF Places
  <2>2. IdentityView[<<a, j[2]>>] = IF store[a][j[2]] \in Nat THEN store[a][j[2]] ELSE -1
    BY <2>1, ViewsAt
  <2>3. store[a][j[2]] # e
    BY <1>1, <2>1 DEF SeenIdentify
  <2> QED BY <1>2, <2>1, <2>2, <2>3
<1>9. <<a, s>>[1] = a
  OBVIOUS
<1> QED BY <1>5, <1>6, <1>7, <1>8, <1>9, FeedViews

LEMMA CrashFeed ==
  ASSUME Crash
  PROVE  Feed!FeedNext
<1>1. /\ \A a \in Addr : table'[a] = NoNode
      /\ \A a \in Addr, s \in SubId : feed'[a][s] = 0
      /\ UNCHANGED store
  BY DEF Crash, diskVars
<1>2. \A i \in Places : i[1] \in Addr /\ i[2] \in SubId
  BY DEF Places
<1>3. LiveView' = {}
  BY <1>1, <1>2 DEF LiveView
<1>4. BalanceView' = [i \in Places |-> 0]
  BY <1>1, <1>2 DEF BalanceView
<1>5. UNCHANGED IdentityView
  BY <1>1 DEF IdentityView
<1> QED BY <1>3, <1>4, <1>5, FeedViews

LEMMA InitFeed == Init => Feed!FeedInit
<1> SUFFICES ASSUME Init PROVE Feed!FeedInit
  OBVIOUS
<1>1. /\ \A a \in Addr : table[a] = NoNode
      /\ \A a \in Addr, s \in SubId : feed[a][s] = 0 /\ store[a][s] = NoSection
  BY DEF Init
<1>2. (\A i \in Places : i[1] \in Addr /\ i[2] \in SubId) /\ NoSection \notin Nat
  BY DEF Places, NoSection
<1>3. LiveView = {}
  BY <1>1, <1>2 DEF LiveView
<1>4. BalanceView = [i \in Places |-> 0]
  BY <1>1, <1>2 DEF BalanceView
<1>5. IdentityView = [i \in Places |-> -1]
  BY <1>1, <1>2 DEF IdentityView
<1> QED BY <1>3, <1>4, <1>5, FeedViews

(***************************************************************************)
(* In a quiet environment the gateway keeps the promises of DeviceFeed,    *)
(* over any number of restarts.                                            *)
(***************************************************************************)
THEOREM FeedIsImplemented ==
  ASSUME Quiet
  PROVE  Spec => ImplementsDeviceFeed
<1>1. IInv /\ ExclusiveEnumeration /\ DeviceAddresses /\ QuietIInv /\ [Next]_vars
        => [Feed!FeedNext]_(Feed!feedVars)
  <2> SUFFICES ASSUME IInv, ExclusiveEnumeration, DeviceAddresses, QuietIInv, [Next]_vars
               PROVE  Feed!FeedNext \/ UNCHANGED Feed!feedVars
    OBVIOUS
  <2>1. CASE Crash
    BY <2>1, CrashFeed
  <2>2. CASE ~Crash
    <3>1. Seen /\ Books
      BY <2>2, StepSeen DEF QuietIInv
    <3> QED BY <3>1, NothingFeed, CreateFeed, DropFeed, IdentifyFeed DEF Seen
  <2> QED BY <2>1, <2>2
<1>2. Spec => Feed!FeedSpec
  BY <1>1, InitFeed, QuietHolds, IInvInductive, EnumerationIsExclusive, AddressesHold, PTL
  DEF Spec, Feed!FeedSpec
<1> QED BY <1>2 DEF ImplementsDeviceFeed
=============================================================================
