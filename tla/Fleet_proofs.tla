---------------------------- MODULE Fleet_proofs ----------------------------
(***************************************************************************)
(* Theorems about Fleet, for any nodes, apps and specs and whatever fails: *)
(* what the reconcile loop, a heal and an evacuation keep in their local   *)
(* variables agrees with the store and with Docker when they act on it.    *)
(***************************************************************************)
EXTENDS Fleet, BlueGreen_proofs, FiniteSetTheorems

-----------------------------------------------------------------------------
(* Indexes in order *)

LEMMA OrderExists ==
  ASSUME NEW is \in SUBSET Nat, IsFiniteSet(is)
  PROVE  \E s \in [1..Cardinality(is) -> is] : \A i, j \in DOMAIN s : i < j => s[i] < s[j]
<1> DEFINE Ordered(T) ==
             \E s \in [1..Cardinality(T) -> T] : \A i, j \in DOMAIN s : i < j => s[i] < s[j]
           Bad == {n \in Nat : \E T \in SUBSET Nat :
                                 IsFiniteSet(T) /\ Cardinality(T) = n /\ ~Ordered(T)}
<1>1. ASSUME Bad # {} PROVE FALSE
  <2>1. PICK n \in Bad : \A m \in Bad : n <= m
    <3>1. Bad \subseteq Nat  OBVIOUS
    <3> HIDE DEF Bad
    <3> QED  BY <1>1, <3>1, LeastExists
  <2>2. PICK T \in SUBSET Nat : IsFiniteSet(T) /\ Cardinality(T) = n /\ ~Ordered(T)
    OBVIOUS
  <2>3. T # {}
    <3>1. SUFFICES ASSUME T = {} PROVE Ordered(T)
      BY <2>2
    <3>2. Cardinality(T) = 0  BY <3>1, FS_EmptySet
    <3> DEFINE s == [i \in {} |-> 0]
    <3>3. 1..0 = {}  OBVIOUS
    <3>4. s \in [1..Cardinality(T) -> T] /\ DOMAIN s = {}
      BY <3>2, <3>3
    <3> HIDE DEF s
    <3>5. \A i, j \in DOMAIN s : i < j => s[i] < s[j]
      BY <3>4
    <3> QED  BY <3>4, <3>5
  <2>4. PICK x \in T : \A y \in T : x <= y
    BY <2>3, LeastExists
  <2> DEFINE U == T \ {x}
  <2>5. IsFiniteSet(U) /\ Cardinality(U) = n - 1 /\ n \in Nat
    BY <2>2, <2>4, FS_RemoveElement, FS_CardinalityType
  <2>6. n - 1 \in Nat
    <3>1. Cardinality(U) \in Nat  BY <2>5, FS_CardinalityType
    <3> QED  BY <2>5, <3>1
  <2>7. Ordered(U)
    <3>1. n - 1 \notin Bad  BY <2>1, <2>5
    <3>2. U \in SUBSET Nat  OBVIOUS
    <3> HIDE DEF Ordered, U
    <3> QED  BY <2>5, <2>6, <3>1, <3>2
  <2>8. PICK s \in [1..(n - 1) -> U] : \A i, j \in 1..(n - 1) : i < j => s[i] < s[j]
    BY <2>5, <2>7
  <2> DEFINE t == [i \in 1..n |-> IF i = 1 THEN x ELSE s[i - 1]]
  <2>9. \A i \in 1..n : i # 1 => i - 1 \in 1..(n - 1)
    BY <2>5
  <2>10. \A i \in 1..n : i # 1 => s[i - 1] \in U
    BY <2>8, <2>9
  <2>11. t \in [1..n -> T]
    BY <2>4, <2>10
  <2>12. ASSUME NEW i \in 1..n, NEW j \in 1..n, i < j PROVE t[i] < t[j]
    <3>1. j # 1 /\ j - 1 \in 1..(n - 1) /\ t[j] = s[j - 1] /\ s[j - 1] \in U
      BY <2>9, <2>10, <2>12
    <3>2. CASE i = 1
      <4>1. t[i] = x /\ s[j - 1] \in T /\ s[j - 1] # x  BY <3>1, <3>2
      <4>2. x \in Nat /\ s[j - 1] \in Nat /\ x <= s[j - 1]  BY <2>4, <4>1
      <4>3. x < s[j - 1]  BY <4>1, <4>2
      <4> HIDE DEF t
      <4> QED  BY <3>1, <4>1, <4>3
    <3>3. CASE i # 1
      <4>1. i - 1 \in 1..(n - 1) /\ t[i] = s[i - 1] /\ i - 1 < j - 1
        BY <2>5, <2>9, <2>12, <3>3
      <4> QED  BY <2>8, <3>1, <4>1
    <3> QED  BY <3>2, <3>3
  <2>13. Ordered(T)
    <3> HIDE DEF t
    <3>1. DOMAIN t = 1..n  BY <2>11
    <3> QED  BY <2>2, <2>11, <2>12, <3>1
  <2> QED  BY <2>2, <2>13
<1>2. Cardinality(is) \in Nat
  BY FS_CardinalityType
<1>3. Cardinality(is) \notin Bad
  BY <1>1
<1> HIDE DEF Ordered
<1>4. Ordered(is)
  BY <1>2, <1>3
<1> QED  BY <1>4 DEF Ordered

\* InOrder lists a finite set of indexes.
LEMMA InOrderLists ==
  ASSUME NEW is \in SUBSET Nat, IsFiniteSet(is)
  PROVE  /\ InOrder(is) \in Seq(Nat) /\ SeqSet(InOrder(is)) \subseteq is
         /\ is # {} => InOrder(is) # <<>>
<1> DEFINE s == InOrder(is)
<1>1. s \in [1..Cardinality(is) -> is]
  BY OrderExists DEF InOrder
<1>2. Cardinality(is) \in Nat
  BY FS_CardinalityType
<1>3. s \in [1..Cardinality(is) -> Nat]
  BY <1>1
<1>4. s \in Seq(Nat)
  BY <1>2, <1>3, SeqDef
<1>5. SeqSet(s) \subseteq is
  BY <1>1 DEF SeqSet
<1>6. ASSUME is # {} PROVE s # <<>>
  <2>1. Cardinality(is) # 0  BY <1>6, FS_EmptySet
  <2>2. 1 \in DOMAIN s  BY <1>1, <1>2, <2>1
  <2> QED  BY <2>2
<1> QED  BY <1>4, <1>5, <1>6

-----------------------------------------------------------------------------
(* What a step leaves of the table *)

\* No row goes, changes its app or its number of replicas.
RowsGrow ==
  /\ RowIds \subseteq RowIds'
  /\ \A i \in RowIds :
       rows'[i].app = rows[i].app /\ DOMAIN rows'[i].reps = DOMAIN rows[i].reps

LEMMA UnchangedRows == ASSUME UNCHANGED rows PROVE RowsGrow
BY DEF RowsGrow, RowIds

\* A step of a deploy, a removal, a request or the environment.
LEMMA NextRowsGrow == ASSUME IInv, [Next]_vars PROVE RowsGrow
<1>1. rows \in Seq(Row)
  BY DEF IInv, TypeOK, WorldTypeOK
<1>2. ASSUME NEW row \in Row, rows' = Append(rows, row) PROVE RowsGrow
  BY <1>1, <1>2 DEF RowsGrow, RowIds
<1>3. ASSUME NEW k \in RowIds, SetStatus(k, "retired") PROVE RowsGrow
  BY <1>1, <1>3 DEF RowsGrow, RowIds, SetStatus, Row
<1> QED  BY <1>2, <1>3, TableMoves, UnchangedRows

LEMMA RowReplaced ==
  ASSUME WorldTypeOK, NEW i \in RowIds, NEW row \in Row, rows' = [rows EXCEPT ![i] = row]
  PROVE  /\ rows' \in Seq(Row) /\ RowIds' = RowIds
         /\ \A k \in RowIds : rows'[k] = IF k = i THEN row ELSE rows[k]
<1>1. rows \in Seq(Row) /\ i \in 1..Len(rows)
  BY DEF WorldTypeOK, RowIds
<1>2. /\ rows' \in Seq(Row) /\ Len(rows') = Len(rows)
      /\ \A k \in 1..Len(rows) : rows'[k] = IF k = i THEN row ELSE rows[k]
  BY <1>1, ExceptSeq
<1> QED  BY <1>1, <1>2 DEF RowIds

\* UpdateReplicas: the row keeps everything but its replicas, and stays current.
LEMMA ReplicasUpdated ==
  ASSUME WorldTypeOK, NEW i \in RowIds, NEW reps \in Seq(Nat),
         rows' = [rows EXCEPT ![i].reps = reps]
  PROVE  /\ rows' \in Seq(Row) /\ RowIds' = RowIds
         /\ \A k \in RowIds : k # i => rows'[k] = rows[k]
         /\ rows'[i] = [rows[i] EXCEPT !.reps = reps] /\ rows'[i].reps = reps
         /\ \A a : CurrentDeployment(a)' = CurrentDeployment(a)
         /\ \A k \in RowIds : /\ rows'[k].app = rows[k].app /\ rows'[k].status = rows[k].status
                              /\ rows'[k].spec = rows[k].spec
<1>1. rows \in Seq(Row) /\ i \in 1..Len(rows)
  BY DEF WorldTypeOK, RowIds
<1>2. rows[i] \in Row
  BY <1>1
<1> DEFINE row == [rows[i] EXCEPT !.reps = reps]
<1>3. /\ row \in Row /\ row.reps = reps
      /\ row.app = rows[i].app /\ row.status = rows[i].status /\ row.spec = rows[i].spec
  BY <1>2 DEF Row
<1>4. rows' = [rows EXCEPT ![i] = row]
  OBVIOUS
<1> HIDE DEF row
<1>5. row \in Row
  BY <1>3
<1>6. /\ rows' \in Seq(Row) /\ RowIds' = RowIds
      /\ \A k \in RowIds : rows'[k] = IF k = i THEN row ELSE rows[k]
  BY <1>4, <1>5, RowReplaced
<1>7. \A k \in RowIds : /\ rows'[k].app = rows[k].app /\ rows'[k].status = rows[k].status
                        /\ rows'[k].spec = rows[k].spec
  BY <1>3, <1>6
<1>8. ASSUME NEW a PROVE CurrentDeployment(a)' = CurrentDeployment(a)
  <2>1. WithStatus(a, "running")' = WithStatus(a, "running")
    BY <1>6, <1>7 DEF WithStatus
  <2> QED  BY <2>1 DEF CurrentDeployment
<1> QED  BY <1>3, <1>6, <1>7, <1>8 DEF row

\* CurrentDeployment depends on the table only.
LEMMA SameCurrent ==
  ASSUME UNCHANGED rows PROVE \A a : CurrentDeployment(a)' = CurrentDeployment(a)
BY DEF CurrentDeployment, WithStatus, RowIds

-----------------------------------------------------------------------------
(* The parts of the invariant a step leaves alone *)

\* Nobody holds r.mu as BlueGreen's operations do.
LEMMA IdleIInv ==
  ASSUME IInv, pc = "idle", UNCHANGED holder, WorldTypeOK' PROVE AskedTypeOK' => IInv'
<1>1. HolderTypeOK' /\ HolderOK'
  BY DEF IInv, TypeOK, HolderTypeOK, HolderOK, holder, DeploySteps, SwapSteps, UndoSteps, RemoveSteps
<1> QED  BY <1>1 DEF IInv, TypeOK

LEMMA AtRestTyped == AtRest \in Loop /\ AtRest.at = "rest"
BY DEF AtRest, Loop

\* The loop has observed nothing else, or forgets what it has.
LEMMA LoopKept ==
  ASSUME loop \in Loop, LoopOK, RowsGrow, ContsKept, loop' \in {loop, AtRest}
  PROVE  loop' \in Loop /\ LoopOK'
<1>1. CASE loop' = loop
  BY <1>1 DEF LoopOK, RowsGrow, ContsKept
<1>2. CASE loop' = AtRest
  BY <1>2, AtRestTyped DEF LoopOK
<1> QED  BY <1>1, <1>2

-----------------------------------------------------------------------------
(* What an operation at work has in its local variables *)

LEMMA OpTyped ==
  ASSUME FInv
  PROVE  /\ op \in Op /\ op.kind \in {"none", "heal", "evac"}
         /\ op.reps \in Seq(Nat) /\ op.todo \in Seq(Nat) /\ op.fresh \in Seq(Nat)
         /\ op.row \in Nat /\ op.id \in Nat /\ op.node \in Nodes /\ op.failed \in BOOLEAN
BY DEF FInv, FleetTypeOK, Op

LEMMA WorldTyped ==
  ASSUME FInv
  PROVE  /\ WorldTypeOK /\ AskedTypeOK /\ IInv
         /\ rows \in Seq(Row) /\ conts \in Seq(Container) /\ Len(conts) \in Nat
         /\ \A i \in RowIds : /\ rows[i] \in Row /\ rows[i].app \in Apps
                              /\ rows[i].reps \in Seq(Nat) /\ SeqSet(rows[i].reps) \subseteq ContIds
<1>1. WorldTypeOK /\ AskedTypeOK /\ IInv
  BY DEF FInv, IInv, TypeOK
<1>2. rows \in Seq(Row) /\ conts \in Seq(Container) /\ Len(conts) \in Nat
  BY <1>1 DEF WorldTypeOK
<1>3. \A i \in RowIds : rows[i] \in Row
  BY <1>2 DEF RowIds
<1> QED  BY <1>1, <1>2, <1>3 DEF WorldTypeOK, Row

LEMMA WorkTyped ==
  ASSUME FInv, Working
  PROVE  /\ WorkOK /\ PlacedApart /\ pc = "idle"
         /\ op.row \in RowIds /\ App \in Apps /\ rows[op.row] \in Row
         /\ DOMAIN op.reps = DOMAIN rows[op.row].reps
         /\ SeqSet(op.reps) \subseteq ContIds /\ SeqSet(op.fresh) \subseteq ContIds
         /\ op.kind \in {"heal", "evac"}
         /\ Healing => op.at \in HealSteps
         /\ ~Healing => op.kind = "evac" /\ op.at \in EvacSteps \ {"apps"}
<1>1. OpOK /\ op.kind \in {"none", "heal", "evac"}
  BY OpTyped DEF FInv
<1>2. WorkOK /\ PlacedApart
  BY <1>1 DEF OpOK
<1>3. rows[op.row] \in Row /\ App \in Apps
  BY <1>2, WorldTyped DEF WorkOK, App
<1> QED  BY <1>1, <1>2, <1>3 DEF WorkOK, OpOK, Working, Healing

\* The replica at work.
LEMMA TodoTyped ==
  ASSUME FInv, Working, op.todo # <<>>
  PROVE  /\ Idx \in DOMAIN op.reps /\ Idx \in Nat /\ Old \in ContIds /\ Old \in SeqSet(op.reps)
         /\ Tail(op.todo) \in Seq(Nat) /\ SeqSet(Tail(op.todo)) \subseteq DOMAIN op.reps
         /\ Len(op.todo) # 1 => Tail(op.todo) # <<>>
         /\ NodeOf(Old) \in Nodes
<1>1. /\ op.reps \in Seq(Nat) /\ op.todo \in Seq(Nat) /\ SeqSet(op.todo) \subseteq DOMAIN op.reps
      /\ SeqSet(op.reps) \subseteq ContIds
  BY OpTyped, WorkTyped DEF WorkOK
<1>2. Idx \in SeqSet(op.todo) /\ Idx \in Nat
  BY <1>1 DEF Idx, SeqSet
<1>3. Tail(op.todo) \in Seq(Nat) /\ (Len(op.todo) # 1 => Tail(op.todo) # <<>>)
  <2>1. Tail(op.todo) \in Seq(Nat) /\ Len(Tail(op.todo)) = Len(op.todo) - 1
    BY <1>1, HeadTailProperties
  <2>2. ASSUME Tail(op.todo) = <<>> PROVE Len(op.todo) = 1
    <3>1. Len(Tail(op.todo)) = 0  BY <2>2, EmptySeq
    <3>2. Len(op.todo) - 1 = 0 /\ Len(op.todo) \in Nat  BY <1>1, <2>1, <3>1, LenProperties
    <3> QED  BY <3>2
  <2> QED  BY <2>1, <2>2
<1>4. SeqSet(Tail(op.todo)) \subseteq SeqSet(op.todo)
  BY <1>1 DEF SeqSet
<1>5. Old \in SeqSet(op.reps)
  BY <1>1, <1>2 DEF Old, SeqSet
<1>6. NodeOf(Old) \in Nodes
  <2>1. Old \in DOMAIN conts /\ conts \in Seq(Container)
    BY <1>1, <1>5, WorldTyped DEF ContIds
  <2>2. conts[Old] \in Container  BY <2>1
  <2> QED  BY <2>2 DEF NodeOf, Container
<1> QED  BY <1>1, <1>2, <1>3, <1>4, <1>5, <1>6

\* A move works on the replicas as they are recorded.
LEMMA MovesRecorded ==
  ASSUME FInv, Working, ~Healing PROVE op.reps = rows[op.row].reps
<1>1. op.reps \in Seq(Nat) /\ rows[op.row].reps \in Seq(Nat)
  BY OpTyped, WorkTyped, WorldTyped
<1>2. DOMAIN op.reps = DOMAIN rows[op.row].reps
  BY WorkTyped
<1>3. \A i \in DOMAIN op.reps : op.reps[i] = rows[op.row].reps[i]
  BY WorkTyped DEF WorkOK
<1> HIDE DEF FInv
<1> QED  BY <1>1, <1>2, <1>3, SeqEqual

\* The set that goes live, and is recorded.
LEMMA MergedTyped ==
  ASSUME FInv, Working, op.at # "pick"
  PROVE  /\ Merged \in Seq(Nat) /\ DOMAIN Merged = DOMAIN op.reps /\ SeqSet(Merged) \subseteq ContIds
         /\ \A i \in DOMAIN op.reps :
              \/ Merged[i] = op.reps[i]
              \/ ~Healing /\ i = Idx /\ Merged[i] = op.fresh[1]
<1>1. /\ op.reps \in Seq(Nat) /\ op.fresh \in Seq(Nat)
      /\ SeqSet(op.reps) \subseteq ContIds /\ SeqSet(op.fresh) \subseteq ContIds
  BY OpTyped, WorkTyped
<1>2. CASE Healing
  BY <1>1, <1>2 DEF Merged
<1>3. CASE ~Healing
  <2>1. op.todo # <<>> /\ op.fresh # <<>>
    BY <1>3, WorkTyped DEF WorkOK, PlacedApart
  <2>2. op.fresh[1] \in Nat /\ op.fresh[1] \in ContIds
    BY <1>1, <2>1 DEF SeqSet
  <2>3. Idx \in DOMAIN op.reps
    BY <2>1, TodoTyped
  <2>4. Merged = [op.reps EXCEPT ![Idx] = op.fresh[1]]
    BY <1>3 DEF Merged
  <2>5. Merged \in Seq(Nat) /\ DOMAIN Merged = DOMAIN op.reps
    <3>1. Idx \in 1..Len(op.reps)  BY <1>1, <2>3
    <3>2. Merged \in Seq(Nat)  BY <1>1, <2>2, <2>4, <3>1, ExceptSeq
    <3> QED  BY <2>4, <3>2
  <2>6. \A i \in DOMAIN op.reps : Merged[i] = IF i = Idx THEN op.fresh[1] ELSE op.reps[i]
    BY <2>4
  <2> HIDE DEF Merged, Idx
  <2>7. \A i \in DOMAIN op.reps : op.reps[i] \in ContIds
    BY <1>1 DEF SeqSet
  <2>8. SeqSet(Merged) \subseteq ContIds
    BY <2>2, <2>5, <2>6, <2>7 DEF SeqSet
  <2> QED  BY <1>3, <2>5, <2>6, <2>8
<1> QED  BY <1>2, <1>3

-----------------------------------------------------------------------------
(* The invariant after a step, part by part *)

HealTypes == [Apps -> [attempts: 0..MaxAttempts, waits: BOOLEAN]]

\* What the loop, the API and the environment keep of the nodes.
NodesTypeOK ==
  /\ away \subseteq Managed /\ cordoned \subseteq Managed
  /\ since \subseteq Managed /\ drained \subseteq cordoned

LEMMA FleetParts ==
  FInv <=> IInv /\ NodesTypeOK /\ op \in Op /\ loop \in Loop /\ heal \in HealTypes /\ OpOK /\ LoopOK
BY DEF FInv, FleetTypeOK, NodesTypeOK, HealTypes, IInv

LEMMA FleetPartsPrimed ==
  ASSUME IInv', NodesTypeOK', op' \in Op, loop' \in Loop, heal' \in HealTypes, OpOK', LoopOK'
  PROVE  FInv'
BY DEF FInv, FleetTypeOK, NodesTypeOK, HealTypes, IInv

\* The loop stays or forgets, and the nodes' registry is left alone.
LEMMA FleetMoves ==
  ASSUME FInv, IInv', RowsGrow, ContsKept, op' \in Op, OpOK', loop' \in {loop, AtRest},
         heal' \in HealTypes, UNCHANGED <<since, nodeVars>>
  PROVE  FInv'
<1>1. NodesTypeOK'
  BY FleetParts DEF NodesTypeOK, nodeVars
<1>2. loop' \in Loop /\ LoopOK'
  BY FleetParts, LoopKept
<1> QED  BY <1>1, <1>2, FleetPartsPrimed

LEMMA RestOK == NoOp \in Op /\ NoOp.kind = "none" /\ NoOp.at = "rest" /\ NoOp.fresh = <<>>
BY NodesAssumption, EmptySeq DEF NoOp, Op

LEMMA OpEnds == ASSUME op' = NoOp PROVE op' \in Op /\ OpOK'
BY RestOK DEF OpOK, Healing, Working

\* An operation that is not at work stays as it is, whatever BlueGreen does.
LEMMA OpWaits == ASSUME FInv, ~Working, UNCHANGED op PROVE op' \in Op /\ OpOK'
BY FleetParts DEF OpOK, Working, Healing

\* On to another step.
LEMMA OpGoes ==
  ASSUME FInv, Working, UNCHANGED <<rows, pc>>, ContsKept, NEW l, op' = [op EXCEPT !.at = l],
         Healing => l \in HealSteps,
         ~Healing => l \in EvacSteps \ {"apps"} /\ (l # "pick" => op.at # "pick"),
         l \in {"pick", "run"} => op.at \in {"pick", "run"}
  PROVE  op' \in Op /\ OpOK'
<1>1. l \in HealSteps \cup EvacSteps
  BY WorkTyped
<1>2. /\ op' \in Op /\ op'.at = l /\ op'.kind = op.kind /\ op'.row = op.row
      /\ op'.reps = op.reps /\ op'.todo = op.todo /\ op'.fresh = op.fresh
  BY <1>1, OpTyped DEF Op, HealSteps, EvacSteps
<1>3. WorkOK /\ PlacedApart /\ op.kind \in {"heal", "evac"} /\ pc = "idle"
      /\ op.reps \in Seq(Nat) /\ DOMAIN op.reps = DOMAIN rows[op.row].reps
      /\ SeqSet(op.reps) \subseteq ContIds /\ SeqSet(rows[op.row].reps) \subseteq ContIds
      /\ SeqSet(op.fresh) \subseteq ContIds
  BY OpTyped, WorkTyped, WorldTyped
<1>4. \A c \in ContIds : NodeOf(c)' = NodeOf(c)
  BY DEF ContsKept, NodeOf
<1>5. WorkOK'
  <2>1. CurrentDeployment(App)' = CurrentDeployment(App)
    BY <1>2, SameCurrent DEF App
  <2>2. RowIds' = RowIds /\ ContIds \subseteq ContIds'
    BY DEF RowIds, ContsKept
  <2> QED  BY <1>2, <1>3, <2>1, <2>2 DEF WorkOK, Healing
<1>6. PlacedApart'
  <2>1. CASE Healing
    <3>1. \A i \in DOMAIN op.reps : op.reps[i] \in ContIds /\ rows[op.row].reps[i] \in ContIds
      BY <1>3 DEF SeqSet
    <3> QED  BY <1>2, <1>3, <1>4, <2>1, <3>1 DEF PlacedApart, Healing
  <2>2. CASE ~Healing
    <3> SUFFICES ASSUME l # "pick" PROVE PlacedApart'
      BY <1>2, <2>2 DEF PlacedApart, Healing
    <3>1. \A i \in DOMAIN op.reps : op.reps[i] \in ContIds
      BY <1>3 DEF SeqSet
    <3>2. op.fresh # <<>> /\ op.at # "pick"
      BY <1>3, <2>2 DEF PlacedApart
    <3>3. op.fresh[1] \in ContIds
      BY <1>3, <3>2, OpTyped DEF SeqSet
    <3> QED  BY <1>2, <1>3, <1>4, <2>2, <3>1, <3>2, <3>3 DEF PlacedApart, Healing, Idx
  <2> QED  BY <2>1, <2>2
<1>7. OpOK'
  BY <1>2, <1>3, <1>5, <1>6 DEF OpOK, Healing, Working, HealSteps, EvacSteps
<1> QED  BY <1>2, <1>7

\* A step that touches neither the table nor r.mu leaves the operation where it was.
LEMMA OpStays ==
  ASSUME FInv, UNCHANGED <<rows, pc, op>>, ContsKept PROVE op' \in Op /\ OpOK'
<1>1. CASE Working
  <2>1. op' = [op EXCEPT !.at = op.at]
    BY OpTyped DEF Op
  <2>2. /\ Healing => op.at \in HealSteps
        /\ ~Healing => op.at \in EvacSteps \ {"apps"}
    BY <1>1, WorkTyped
  <2> QED  BY <1>1, <2>1, <2>2, OpGoes
<1>2. CASE ~Working
  BY <1>2, OpWaits
<1> QED  BY <1>1, <1>2

\* On to the next replica, or to the next app.
LEMMA MoveEnds ==
  ASSUME FInv, Working, ~Healing, UNCHANGED pc, ContsKept, NEW reps \in Seq(Nat),
         NEW failed \in BOOLEAN, NextMove(reps, failed),
         op.row \in RowIds', rows'[op.row].app = rows[op.row].app,
         \A a : CurrentDeployment(a)' = CurrentDeployment(a),
         rows'[op.row].reps = reps, SeqSet(reps) \subseteq ContIds', DOMAIN reps = DOMAIN op.reps
  PROVE  op' \in Op /\ OpOK'
<1> DEFINE last == Len(op.todo) = 1
<1>1. op' = [op EXCEPT !.todo = Tail(@), !.fresh = <<>>, !.failed = @ \/ failed,
                       !.id = 0, !.row = IF last THEN 0 ELSE @,
                       !.reps = IF last THEN <<>> ELSE reps,
                       !.at = IF last THEN "apps" ELSE "pick"]
  BY DEF NextMove
<1>2. /\ op.todo # <<>> /\ op.kind = "evac" /\ pc = "idle"
      /\ Tail(op.todo) \in Seq(Nat) /\ SeqSet(Tail(op.todo)) \subseteq DOMAIN op.reps
      /\ ~last => Tail(op.todo) # <<>>
  BY WorkTyped, TodoTyped DEF WorkOK
<1> DEFINE row == IF last THEN 0 ELSE op.row
           rest == IF last THEN <<>> ELSE reps
           at == IF last THEN "apps" ELSE "pick"
           fails == op.failed \/ failed
<1>3. /\ row \in Nat /\ rest \in Seq(Nat) /\ at \in {"apps", "pick"} /\ fails \in BOOLEAN
      /\ <<>> \in Seq(Nat) /\ Tail(op.todo) \in Seq(Nat) /\ op \in Op /\ op.kind = "evac"
  BY <1>2, OpTyped, EmptySeq
<1>4. op' = [op EXCEPT !.todo = Tail(op.todo), !.fresh = <<>>, !.failed = fails,
                       !.id = 0, !.row = row, !.reps = rest, !.at = at]
  BY <1>1
<1>5. /\ op' \in Op /\ op'.kind = "evac" /\ op'.todo = Tail(op.todo) /\ op'.fresh = <<>>
      /\ op'.row = IF last THEN 0 ELSE op.row
      /\ op'.reps = IF last THEN <<>> ELSE reps
      /\ op'.at = IF last THEN "apps" ELSE "pick"
  <2> HIDE DEF row, rest, at, fails
  <2>1. op' \in Op /\ op'.kind = "evac" /\ op'.todo = Tail(op.todo) /\ op'.fresh = <<>>
        /\ op'.row = row /\ op'.reps = rest /\ op'.at = at
    BY <1>3, <1>4 DEF Op
  <2> QED  BY <2>1 DEF row, rest, at
<1> HIDE DEF last
<1>6. CASE last
  BY <1>5, <1>6 DEF OpOK, Healing, Working, EvacSteps
<1>7. CASE ~last
  <2>1. WorkOK'
    <3>1. CurrentDeployment(App)' = op.row
      <4>1. op'.row = op.row /\ rows'[op'.row].app = rows[op.row].app
        BY <1>5, <1>7
      <4>2. App' = App /\ CurrentDeployment(App) = op.row
        BY <4>1, WorkTyped DEF WorkOK, App
      <4>3. \A a : a = App => CurrentDeployment(a)' = op.row
        BY <4>2
      <4> QED  BY <4>2, <4>3
    <3>2. SeqSet(op'.reps) \subseteq ContIds' /\ SeqSet(op'.fresh) = {}
      BY <1>5, <1>7 DEF SeqSet
    <3> QED  BY <1>2, <1>5, <1>7, <3>1, <3>2 DEF WorkOK, Healing
  <2>2. PlacedApart'
    BY <1>5, <1>7 DEF PlacedApart, Healing
  <2> QED  BY <1>5, <1>7, <2>1, <2>2 DEF OpOK, Healing, Working, EvacSteps
<1> QED  BY <1>6, <1>7

-----------------------------------------------------------------------------
(* The steps a heal and an evacuation have in common *)

LEMMA WorkStep ==
  ASSUME FInv, Working, UNCHANGED <<rows, holder, since, nodeVars>>, ContsKept, EdgeTypeOK',
         loop' \in {loop, AtRest}, heal' \in HealTypes, op' \in Op, OpOK'
  PROVE  FInv'
<1>1. pc = "idle" /\ IInv /\ WorldTypeOK /\ AskedTypeOK
  BY WorkTyped, WorldTyped
<1>2. UNCHANGED holder /\ asked' \subseteq asked
  BY DEF holder
<1>3. IInv'
  BY <1>1, <1>2, RowsUnchanged, IdleIInv
<1> QED  BY <1>3, UnchangedRows, FleetMoves

LEMMA WorkGoesOn ==
  ASSUME FInv, Working, UNCHANGED <<rows, holder>>, ContsKept, EdgeTypeOK', NEW l, OpGoto(l),
         Healing => l \in HealSteps, ~Healing => l \in EvacSteps \ {"apps", "pick"} /\ op.at # "pick",
         l \in {"pick", "run"} => op.at = "pick"
  PROVE  FInv'
<1>1. op' = [op EXCEPT !.at = l] /\ UNCHANGED <<loop, heal, since, nodeVars>> /\ pc' = pc
  BY DEF OpGoto, holder
<1>2. op' \in Op /\ OpOK'
  BY <1>1, OpGoes
<1>3. heal' \in HealTypes /\ loop' \in {loop, AtRest}
  BY <1>1, FleetParts
<1> QED  BY <1>1, <1>2, <1>3, WorkStep

LEMMA Kept ==
  ASSUME FInv, UNCHANGED conts PROVE ContsKept
BY WorldTyped, UnchangedConts

LEMMA EdgeKept ==
  ASSUME FInv, UNCHANGED edge PROVE EdgeTypeOK'
BY WorldTyped, EdgeUnchanged

\* The configurations an operation posts are well formed.
LEMMA PostTyped ==
  ASSUME FInv, NEW r \in [Domains -> SUBSET Upstream], NEW st \in SUBSET Nat,
         TryPost(r, st) \/ Applied(r, st) \/ Rejected \/ AppliedUnknown(r)
  PROVE  EdgeTypeOK'
BY WorldTyped, EdgeTyped DEF TryPost

LEMMA PostedByOp ==
  ASSUME FInv
  PROVE  /\ routes \in [Domains -> SUBSET Upstream]
         /\ stage \in SUBSET Nat /\ stage \cup {op.id} \in SUBSET Nat /\ stage \ {op.id} \in SUBSET Nat
BY WorldTyped, OpTyped DEF WorldTypeOK

LEMMA AtWork == ASSUME NEW l, AtEither(l), l # "apps" PROVE Working /\ op.at = l /\ pc = "idle"
BY DEF AtEither, Working

LEMMA OpSetStagingStep == ASSUME FInv, OpSetStaging PROVE FInv'
<1>1. Working /\ op.at = "stage" /\ UNCHANGED <<rows, conts, holder>>
  BY AtWork DEF OpSetStaging
<1>2. ContsKept /\ EdgeTypeOK'
  BY <1>1, Kept, PostTyped, PostedByOp DEF OpSetStaging
<1>3. PICK l \in {"gate", "undo"} : OpGoto(l)
  BY DEF OpSetStaging
<1> QED  BY <1>1, <1>2, <1>3, WorkGoesOn DEF HealSteps, EvacSteps

LEMMA OpGateStep == ASSUME FInv, OpGate PROVE FInv'
<1>1. Working /\ op.at = "gate" /\ UNCHANGED <<rows, conts, holder, edge>>
  BY AtWork DEF OpGate, vars, holder, edge
<1>2. ContsKept /\ EdgeTypeOK'
  BY <1>1, Kept, EdgeKept
<1>3. \/ OpGoto("undo")
      \/ Healing /\ OpGoto("flip")
      \/ ~Healing /\ OpGoto("unstage")
  BY DEF OpGate
<1> QED  BY <1>1, <1>2, <1>3, WorkGoesOn DEF HealSteps, EvacSteps

LEMMA OpUnstageStep == ASSUME FInv, OpUnstage PROVE FInv'
<1>1. Working /\ op.at = "unstage" /\ UNCHANGED <<rows, conts, holder>>
  BY AtWork DEF OpUnstage
<1>2. ContsKept /\ EdgeTypeOK'
  BY <1>1, Kept, PostTyped, PostedByOp DEF OpUnstage
<1>3. \/ Healing /\ OpGoto("save")
      \/ ~Healing /\ OpGoto("flip")
  BY DEF OpUnstage
<1> QED  BY <1>1, <1>2, <1>3, WorkGoesOn DEF HealSteps, EvacSteps

LEMMA MergedRouteTyped ==
  ASSUME FInv, Working, op.at # "pick" PROVE MergedRoute \in [Domains -> SUBSET Upstream]
<1>1. Upstreams(Merged) \subseteq Upstream
  BY MergedTyped, WorldTyped, UpstreamsType
<1>2. routes \in [Domains -> SUBSET Upstream]
  BY PostedByOp
<1> QED  BY <1>1, <1>2 DEF MergedRoute

LEMMA OpFlipStep == ASSUME FInv, OpFlip PROVE FInv'
<1>1. Working /\ op.at = "flip" /\ UNCHANGED <<rows, conts, holder>>
  BY AtWork DEF OpFlip
<1>2. ContsKept /\ EdgeTypeOK'
  BY <1>1, Kept, PostTyped, PostedByOp, MergedRouteTyped DEF OpFlip
<1>3. \/ Healing /\ (OpGoto("undo") \/ OpGoto("unstage"))
      \/ ~Healing /\ (OpGoto("discard") \/ OpGoto("drop"))
  BY DEF OpFlip
<1> QED  BY <1>1, <1>2, <1>3, WorkGoesOn DEF HealSteps, EvacSteps

LEMMA OpUndoStep == ASSUME FInv, OpUndo PROVE FInv'
<1>1. Working /\ op.at = "undo" /\ UNCHANGED <<rows, conts, holder>> /\ OpGoto("discard")
  BY AtWork DEF OpUndo
<1>2. ContsKept /\ EdgeTypeOK'
  BY <1>1, Kept, PostTyped, PostedByOp DEF OpUndo
<1> QED  BY <1>1, <1>2, WorkGoesOn DEF HealSteps, EvacSteps

LEMMA RemoveReachableConts ==
  ASSUME FInv, NEW cs, RemoveReachable(cs) PROVE ContsKept
BY WorldTyped, RemoveConts DEF RemoveReachable

\* A heal is over.
LEMMA HealEndsTyped ==
  ASSUME FInv, Working, NEW ok \in BOOLEAN, HealEnds(ok)
  PROVE  /\ op' \in Op /\ OpOK' /\ loop' \in {loop, AtRest} /\ heal' \in HealTypes
         /\ UNCHANGED <<since, nodeVars>>
<1>1. /\ op' = NoOp /\ loop' = AtRest /\ UNCHANGED <<since, nodeVars>>
      /\ heal' = [heal EXCEPT ![App] = IF ok THEN NoHeal ELSE [@ EXCEPT !.waits = TRUE]]
  BY DEF HealEnds
<1>2. heal' \in HealTypes
  <2>1. heal \in HealTypes /\ App \in Apps
    BY FleetParts, WorkTyped
  <2>2. heal[App] \in [attempts: 0..MaxAttempts, waits: BOOLEAN]
    BY <2>1 DEF HealTypes
  <2>3. [heal[App] EXCEPT !.waits = TRUE] \in [attempts: 0..MaxAttempts, waits: BOOLEAN]
    BY <2>2
  <2>4. NoHeal \in [attempts: 0..MaxAttempts, waits: BOOLEAN]
    BY AttemptsAssumption DEF NoHeal
  <2> QED  BY <1>1, <2>1, <2>3, <2>4 DEF HealTypes
<1> QED  BY <1>1, <1>2, OpEnds

\* A move has ended and its row is as it was read.
LEMMA MoveLeavesRow ==
  ASSUME FInv, Working, ~Healing, UNCHANGED <<rows, pc>>, ContsKept,
         NEW failed \in BOOLEAN, NextMove(op.reps, failed)
  PROVE  /\ op' \in Op /\ OpOK' /\ loop' \in {loop, AtRest} /\ heal' \in HealTypes
         /\ UNCHANGED <<since, nodeVars>>
<1>1. /\ op.reps \in Seq(Nat) /\ op.row \in RowIds /\ SeqSet(op.reps) \subseteq ContIds
      /\ op.reps = rows[op.row].reps /\ WorkOK
  BY OpTyped, WorkTyped, MovesRecorded
<1>2. /\ op.row \in RowIds' /\ rows'[op.row].app = rows[op.row].app
      /\ rows'[op.row].reps = op.reps /\ SeqSet(op.reps) \subseteq ContIds'
  BY <1>1 DEF RowIds, ContsKept
<1>3. \A a : CurrentDeployment(a)' = CurrentDeployment(a)
  BY SameCurrent
<1>4. op' \in Op /\ OpOK'
  BY <1>1, <1>2, <1>3, MoveEnds
<1> QED  BY <1>4, FleetParts DEF NextMove

LEMMA OpDiscardStep == ASSUME FInv, OpDiscard PROVE FInv'
<1>1. Working /\ op.at = "discard" /\ UNCHANGED <<rows, edge, holder>> /\ pc' = pc
  BY AtWork DEF OpDiscard, holder
<1>2. ContsKept /\ EdgeTypeOK'
  BY <1>1, RemoveReachableConts, EdgeKept DEF OpDiscard
<1>3. \/ Healing /\ HealEnds(FALSE)
      \/ ~Healing /\ NextMove(op.reps, TRUE)
  BY DEF OpDiscard
<1>4. /\ op' \in Op /\ OpOK' /\ loop' \in {loop, AtRest} /\ heal' \in HealTypes
      /\ UNCHANGED <<since, nodeVars>>
  BY <1>1, <1>2, <1>3, HealEndsTyped, MoveLeavesRow
<1> QED  BY <1>1, <1>2, <1>4, WorkStep

\* The row is rewritten in place.
LEMMA RowUpdated ==
  ASSUME FInv, Working, op.at # "pick", UpdateReplicas, UNCHANGED <<conts, edge, holder>>
  PROVE  /\ IInv' /\ RowsGrow /\ ContsKept /\ UNCHANGED pc
         /\ op.row \in RowIds' /\ rows'[op.row].app = rows[op.row].app
         /\ \A a : CurrentDeployment(a)' = CurrentDeployment(a)
         /\ Merged \in Seq(Nat) /\ rows'[op.row].reps = Merged /\ SeqSet(Merged) \subseteq ContIds'
         /\ DOMAIN Merged = DOMAIN op.reps
<1>1. /\ op.row \in RowIds /\ WorkOK /\ pc = "idle" /\ DOMAIN op.reps = DOMAIN rows[op.row].reps
      /\ WorldTypeOK /\ AskedTypeOK /\ IInv
  BY WorkTyped, WorldTyped
<1>2. Merged \in Seq(Nat) /\ DOMAIN Merged = DOMAIN op.reps /\ SeqSet(Merged) \subseteq ContIds
  BY MergedTyped
<1>3. rows' = [rows EXCEPT ![op.row].reps = Merged]
  BY DEF UpdateReplicas
<1> DEFINE reps == Merged
<1>4. reps \in Seq(Nat) /\ rows' = [rows EXCEPT ![op.row].reps = reps]
  BY <1>2, <1>3
<1> HIDE DEF reps
<1>5. /\ rows' \in Seq(Row) /\ RowIds' = RowIds
      /\ \A k \in RowIds : k # op.row => rows'[k] = rows[k]
      /\ rows'[op.row].reps = reps
      /\ \A a : CurrentDeployment(a)' = CurrentDeployment(a)
      /\ \A k \in RowIds : rows'[k].app = rows[k].app
  BY <1>1, <1>4, ReplicasUpdated
<1>6. \A k \in RowIds : rows'[k].reps = rows[k].reps \/ (k = op.row /\ rows'[k].reps = reps)
  BY <1>5
<1>7. ContIds' = ContIds /\ ContsKept
  BY Kept DEF ContIds
<1>8. WorldTypeOK'
  <2>1. \A k \in RowIds' : SeqSet(rows'[k].reps) \subseteq ContIds'
    BY <1>1, <1>2, <1>5, <1>6, <1>7 DEF WorldTypeOK, reps
  <2> QED  BY <1>1, <1>5, <2>1 DEF WorldTypeOK, edge
<1>9. AskedTypeOK' /\ UNCHANGED pc
  BY <1>1, <1>5 DEF AskedTypeOK, holder
<1>10. IInv'
  BY <1>1, <1>8, <1>9, IdleIInv
<1>11. RowsGrow
  BY <1>1, <1>2, <1>5, <1>6 DEF RowsGrow, reps
<1> QED  BY <1>1, <1>2, <1>5, <1>7, <1>9, <1>10, <1>11 DEF reps

LEMMA OpSaveStep == ASSUME FInv, OpSave PROVE FInv'
<1>1. Working /\ op.at = "save" /\ UNCHANGED <<conts, edge, holder>> /\ UNCHANGED pc
  BY AtWork DEF OpSave, holder
<1>2. ContsKept /\ EdgeTypeOK'
  BY <1>1, Kept, EdgeKept
<1>3. CASE UpdateReplicas
  <2>1. /\ IInv' /\ RowsGrow
        /\ op.row \in RowIds' /\ rows'[op.row].app = rows[op.row].app
        /\ \A a : CurrentDeployment(a)' = CurrentDeployment(a)
        /\ Merged \in Seq(Nat) /\ rows'[op.row].reps = Merged /\ SeqSet(Merged) \subseteq ContIds'
        /\ DOMAIN Merged = DOMAIN op.reps
    BY <1>1, <1>3, RowUpdated
  <2>2. \/ \E ok \in BOOLEAN : HealEnds(ok)
        \/ ~Healing /\ (NextMove(Merged, FALSE) \/ (UNCHANGED rows /\ NextMove(op.reps, TRUE)))
    BY DEF OpSave
  <2>3. ASSUME ~Healing, NextMove(Merged, FALSE)
        PROVE  /\ op' \in Op /\ OpOK' /\ loop' \in {loop, AtRest} /\ heal' \in HealTypes
               /\ UNCHANGED <<since, nodeVars>>
    <3>1. op' \in Op /\ OpOK'
      BY <1>1, <1>2, <2>1, <2>3, MoveEnds
    <3> QED  BY <2>3, <3>1, FleetParts DEF NextMove
  <2>4. /\ op' \in Op /\ OpOK' /\ loop' \in {loop, AtRest} /\ heal' \in HealTypes
        /\ UNCHANGED <<since, nodeVars>>
    BY <1>1, <1>2, <2>2, <2>3, HealEndsTyped, MoveLeavesRow
  <2> QED  BY <1>2, <2>1, <2>4, FleetMoves
<1>4. CASE ~UpdateReplicas
  <2>1. /\ UNCHANGED rows
        /\ (Healing /\ HealEnds(FALSE)) \/ (~Healing /\ NextMove(op.reps, TRUE))
    BY <1>4 DEF OpSave
  <2>2. /\ op' \in Op /\ OpOK' /\ loop' \in {loop, AtRest} /\ heal' \in HealTypes
        /\ UNCHANGED <<since, nodeVars>>
    BY <1>1, <1>2, <2>1, HealEndsTyped, MoveLeavesRow
  <2> QED  BY <1>1, <1>2, <2>1, <2>2, WorkStep
<1> QED  BY <1>3, <1>4

-----------------------------------------------------------------------------
(* A heal *)

LEMMA HealRemoveOldStep == ASSUME FInv, HealRemoveOld PROVE FInv'
<1>1. /\ Working /\ Healing /\ op.at = "pick" /\ UNCHANGED <<rows, edge, holder>>
  BY DEF HealRemoveOld, At, Working, Healing
<1>2. PICK l \in {"run", "undo"} : OpGoto(l)
  BY DEF HealRemoveOld
<1>3. ContsKept /\ EdgeTypeOK'
  BY <1>1, Kept, RemoveReachableConts, EdgeKept DEF HealRemoveOld
<1> QED  BY <1>1, <1>2, <1>3, WorkGoesOn DEF HealSteps

\* A container started in the place of the replica at work.
LEMMA RunOnConts ==
  ASSUME FInv, Working, op.todo # <<>>, NEW n \in Nodes, NEW id \in Nat, RunOn(n, id)
  PROVE  /\ ContsKept
         /\ Len(conts) + 1 \in ContIds' /\ Len(conts) + 1 \in Nat /\ Len(conts) + 1 \notin ContIds
         /\ conts'[Len(conts) + 1].node = n
         /\ \A c \in ContIds : NodeOf(c)' = NodeOf(c)
<1> DEFINE k == NewContainer(App, n, id, NameIdx, TRUE)
<1>1. conts \in Seq(Container) /\ Len(conts) \in Nat /\ WorldTypeOK
  BY WorldTyped
<1>2. NameIdx \in Nat /\ App \in Apps
  BY TodoTyped, WorkTyped DEF NameIdx
<1>3. k \in Container /\ k.node = n
  BY <1>2 DEF NewContainer, Container, ContState
<1>4. conts' = Append(conts, k)
  BY DEF RunOn
<1> HIDE DEF k
<1>5. ContsKept
  BY <1>1, <1>3, <1>4, AppendConts
<1>6. /\ Len(conts) + 1 \in ContIds' /\ conts'[Len(conts) + 1] = k
      /\ \A c \in ContIds : conts'[c] = conts[c]
  BY <1>1, <1>3, <1>4, ContainersAppended
<1>7. Len(conts) + 1 \notin ContIds /\ Len(conts) + 1 \in Nat
  BY <1>1 DEF ContIds
<1> QED  BY <1>3, <1>5, <1>6, <1>7 DEF NodeOf

\* A dead replica has been given its successor, on its node.
LEMMA ReplicaHealed ==
  ASSUME FInv, Working, Healing, op.todo # <<>>, UNCHANGED <<rows, pc>>,
         RunOn(NodeOf(Old), op.id), NEW l \in {"stage", "pick", "undo"},
         l = "pick" => Len(op.todo) # 1,
         op' = [op EXCEPT !.reps[Idx] = Len(conts) + 1, !.fresh = Append(@, Len(conts) + 1),
                          !.todo = Tail(@), !.at = l]
  PROVE  op' \in Op /\ OpOK' /\ ContsKept
<1> DEFINE c == Len(conts) + 1
           reps == [op.reps EXCEPT ![Idx] = c]
           fresh == Append(op.fresh, c)
<1>1. /\ Idx \in DOMAIN op.reps /\ Idx \in Nat /\ Old \in ContIds /\ NodeOf(Old) \in Nodes
      /\ Tail(op.todo) \in Seq(Nat) /\ SeqSet(Tail(op.todo)) \subseteq DOMAIN op.reps
      /\ Len(op.todo) # 1 => Tail(op.todo) # <<>>
  BY TodoTyped
<1>2. /\ op \in Op /\ op.kind = "heal" /\ op.reps \in Seq(Nat) /\ op.fresh \in Seq(Nat)
      /\ op.row \in RowIds /\ op.id \in Nat /\ pc = "idle" /\ WorkOK /\ PlacedApart
      /\ SeqSet(op.reps) \subseteq ContIds /\ SeqSet(op.fresh) \subseteq ContIds
      /\ DOMAIN op.reps = DOMAIN rows[op.row].reps /\ SeqSet(rows[op.row].reps) \subseteq ContIds
  BY OpTyped, WorkTyped, WorldTyped DEF Healing
<1>3. /\ ContsKept /\ c \in ContIds' /\ c \in Nat /\ conts'[c].node = NodeOf(Old)
      /\ \A x \in ContIds : NodeOf(x)' = NodeOf(x)
  BY <1>1, <1>2, RunOnConts
<1>4. ContIds \subseteq ContIds'
  BY <1>3 DEF ContsKept
<1> HIDE DEF c
<1>5. /\ reps \in Seq(Nat) /\ DOMAIN reps = DOMAIN op.reps
      /\ \A i \in DOMAIN op.reps : reps[i] = IF i = Idx THEN c ELSE op.reps[i]
  <2>1. op.reps \in Seq(Nat) /\ Idx \in DOMAIN op.reps /\ c \in Nat
    BY <1>1, <1>2, <1>3
  <2>2. Idx \in 1..Len(op.reps)  BY <2>1
  <2>3. reps \in Seq(Nat)  BY <2>1, <2>2, ExceptSeq
  <2> QED  BY <2>3
<1>6. fresh \in Seq(Nat) /\ c \in SeqSet(fresh) /\ SeqSet(fresh) = SeqSet(op.fresh) \cup {c}
  <2>1. op.fresh \in Seq(Nat) /\ c \in Nat
    BY <1>2, <1>3
  <2>2. fresh \in Seq(Nat) /\ Len(fresh) = Len(op.fresh) + 1 /\ Len(op.fresh) \in Nat
    BY <2>1
  <2>3. /\ DOMAIN fresh = 1..(Len(op.fresh) + 1) /\ DOMAIN op.fresh = 1..Len(op.fresh)
        /\ fresh[Len(op.fresh) + 1] = c
        /\ \A i \in 1..Len(op.fresh) : fresh[i] = op.fresh[i]
    BY <2>1
  <2> HIDE DEF fresh
  <2>4. \A n \in Nat : \A i \in 1..(n + 1) : i = n + 1 \/ i \in 1..n
    OBVIOUS
  <2>5. \A i \in DOMAIN fresh : i = Len(op.fresh) + 1 \/ i \in 1..Len(op.fresh)
    BY <2>2, <2>3, <2>4
  <2>6. Len(op.fresh) + 1 \in DOMAIN fresh
    BY <2>2, <2>3
  <2>7. \A i \in DOMAIN op.fresh : i \in DOMAIN fresh
    BY <2>2, <2>3
  <2>8. SeqSet(fresh) \subseteq SeqSet(op.fresh) \cup {c}
    BY <2>3, <2>5 DEF SeqSet
  <2>9. c \in SeqSet(fresh) /\ SeqSet(op.fresh) \subseteq SeqSet(fresh)
    BY <2>3, <2>6, <2>7 DEF SeqSet
  <2>10. SeqSet(fresh) = SeqSet(op.fresh) \cup {c}
    BY <2>8, <2>9, Zenon
  <2> QED  BY <2>2, <2>9, <2>10
<1>7. op' = [op EXCEPT !.reps = reps, !.fresh = fresh, !.todo = Tail(op.todo), !.at = l]
  BY DEF c
<1> HIDE DEF reps, fresh
<1>8. /\ op' \in Op /\ op'.kind = "heal" /\ op'.row = op.row /\ op'.reps = reps
      /\ op'.fresh = fresh /\ op'.todo = Tail(op.todo) /\ op'.at = l
  <2> DEFINE todo == Tail(op.todo)
  <2>1. todo \in Seq(Nat) /\ l \in {"run", "stage", "pick", "undo"}
    BY <1>1
  <2>2. op' = [op EXCEPT !.reps = reps, !.fresh = fresh, !.todo = todo, !.at = l]
    BY <1>7
  <2> HIDE DEF todo
  <2>3. op \in Op /\ reps \in Seq(Nat) /\ fresh \in Seq(Nat)
    BY <1>2, <1>5, <1>6
  <2>4. op' \in Op
    BY <2>1, <2>2, <2>3 DEF Op
  <2>5. /\ op'.kind = "heal" /\ op'.row = op.row /\ op'.reps = reps /\ op'.fresh = fresh
        /\ op'.todo = todo /\ op'.at = l
    BY <1>2, <2>2 DEF Op
  <2> QED  BY <2>4, <2>5 DEF todo
<1>9. SeqSet(reps) \subseteq ContIds'
  BY <1>2, <1>3, <1>4, <1>5 DEF SeqSet
<1>10. WorkOK'
  <2>1. CurrentDeployment(App)' = CurrentDeployment(App)
    BY <1>8, SameCurrent DEF App
  <2>2. \A i \in DOMAIN reps : reps[i] # rows[op.row].reps[i] => reps[i] \in SeqSet(fresh)
    BY <1>2, <1>5, <1>6 DEF WorkOK
  <2>3. RowIds' = RowIds
    BY DEF RowIds
  <2>4. SeqSet(reps) \cup SeqSet(fresh) \subseteq ContIds'
    BY <1>2, <1>3, <1>4, <1>6, <1>9
  <2>5. pc' = "idle" /\ op'.row \in RowIds' /\ CurrentDeployment(App)' = op'.row
    BY <1>2, <1>8, <2>1, <2>3 DEF WorkOK
  <2>6. DOMAIN op'.reps = DOMAIN rows'[op'.row].reps /\ SeqSet(op'.todo) \subseteq DOMAIN op'.reps
    BY <1>1, <1>2, <1>5, <1>8
  <2>7. op'.at \in {"pick", "run"} => op'.todo # <<>>
    BY <1>1, <1>8
  <2> QED  BY <1>8, <2>2, <2>4, <2>5, <2>6, <2>7 DEF WorkOK, Healing
<1>11. PlacedApart'
  <2>1. ASSUME NEW i \in DOMAIN reps
        PROVE  conts'[reps[i]].node = conts'[rows[op.row].reps[i]].node
    <3>1. op.reps[i] \in ContIds /\ rows[op.row].reps[i] \in ContIds /\ i \in DOMAIN op.reps
      BY <1>2, <1>5 DEF SeqSet
    <3>2. NodeOf(op.reps[i]) = NodeOf(rows[op.row].reps[i])
      BY <1>2, <3>1 DEF PlacedApart, Healing
    <3>3. \A x \in ContIds : conts'[x].node = NodeOf(x)
      BY <1>3 DEF NodeOf
    <3> QED  BY <1>3, <1>5, <3>1, <3>2, <3>3 DEF Old
  <2> QED  BY <1>8, <2>1 DEF PlacedApart, Healing, NodeOf
<1>12. OpOK'
  BY <1>8, <1>10, <1>11 DEF OpOK, Healing, Working, HealSteps
<1> QED  BY <1>3, <1>8, <1>12

LEMMA HealRunStep == ASSUME FInv, HealRun PROVE FInv'
<1>1. /\ Working /\ Healing /\ op.at = "run" /\ op.kind = "heal"
      /\ UNCHANGED <<rows, edge, holder, loop, heal, since, nodeVars>>
  BY DEF HealRun, At, Working, Healing
<1>2. op.todo # <<>> /\ UNCHANGED pc
  BY <1>1, WorkTyped DEF WorkOK, holder
<1>3. NodeOf(Old) \in Nodes /\ op.id \in Nat
  BY <1>1, <1>2, TodoTyped, OpTyped
<1>4. ContsKept
  BY <1>1, <1>2, <1>3, Kept, RunOnConts DEF HealRun
<1>5. op' \in Op /\ OpOK'
  <2>1. CASE op' = [op EXCEPT !.at = "undo"]
    BY <1>1, <1>2, <1>4, <2>1, OpGoes DEF HealSteps
  <2>2. ASSUME NEW l \in {"stage", "pick", "undo"}, l = "pick" => Len(op.todo) # 1,
               RunOn(NodeOf(Old), op.id),
               op' = [op EXCEPT !.reps[Idx] = Len(conts) + 1, !.fresh = Append(@, Len(conts) + 1),
                                !.todo = Tail(@), !.at = l]
        PROVE  op' \in Op /\ OpOK'
    BY <1>1, <1>2, <2>2, ReplicaHealed
  <2> QED  BY <2>1, <2>2 DEF HealRun
<1> QED
  <2>1. heal' \in HealTypes /\ loop' \in {loop, AtRest} /\ EdgeTypeOK'
    BY <1>1, FleetParts, EdgeKept
  <2> QED  BY <1>1, <1>4, <1>5, <2>1, WorkStep

-----------------------------------------------------------------------------
(* An evacuation *)

LEMMA IndexesFinite ==
  ASSUME NEW reps \in Seq(Nat), NEW is, is \subseteq DOMAIN reps
  PROVE  is \in SUBSET Nat /\ IsFiniteSet(is)
<1>1. DOMAIN reps = 1..Len(reps) /\ Len(reps) \in Nat
  OBVIOUS
<1>2. IsFiniteSet(1..Len(reps))
  BY <1>1, FS_Interval
<1> QED  BY <1>1, <1>2, FS_Subset

\* An operation that begins to work on the current row of an app.
LEMMA WorkBegins ==
  ASSUME FInv, pc = "idle", UNCHANGED <<rows, conts, pc>>, NEW a, CurrentDeployment(a) # 0,
         op' \in Op, op'.kind \in {"heal", "evac"}, op'.at = "pick", op'.row = CurrentDeployment(a),
         op'.reps = rows[CurrentDeployment(a)].reps, op'.fresh = <<>>,
         op'.todo # <<>>, SeqSet(op'.todo) \subseteq DOMAIN op'.reps
  PROVE  OpOK'
<1>1. CurrentDeployment(a) \in RowIds /\ rows[CurrentDeployment(a)].app = a
  BY WorldTyped, CurrentRow DEF WithStatus
<1>2. App' = a
  BY <1>1 DEF App
<1>3. CurrentDeployment(App)' = op'.row
  <2>1. \A x : x = App' => CurrentDeployment(x)' = CurrentDeployment(x)
    BY SameCurrent
  <2> QED  BY <1>2, <2>1
<1>4. SeqSet(op'.reps) \subseteq ContIds /\ SeqSet(op'.fresh) = {}
  BY <1>1, WorldTyped DEF SeqSet
<1>5. RowIds' = RowIds /\ ContIds' = ContIds
  BY DEF RowIds, ContIds
<1>6. WorkOK'
  BY <1>1, <1>3, <1>4, <1>5 DEF WorkOK
<1>7. PlacedApart'
  BY DEF PlacedApart, Healing, NodeOf
<1> QED  BY <1>6, <1>7 DEF OpOK, Healing, Working, HealSteps, EvacSteps

LEMMA EvacReplicasStep == ASSUME FInv, NEW a \in Apps, EvacReplicas(a) PROVE FInv'
<1> DEFINE cur == CurrentDeployment(a)
           is  == AffectedIdx(a, op.node)
<1>1. /\ op.kind = "evac" /\ op.at = "apps" /\ pc = "idle" /\ ToMove(a, op.node)
      /\ UNCHANGED <<vars, loop, heal, since, nodeVars>>
      /\ op' = [op EXCEPT !.apps = @ \ {a}, !.at = "pick", !.failed = @ \/ Unmoved,
                          !.row = cur, !.reps = rows[cur].reps, !.todo = InOrder(is)]
  BY DEF EvacReplicas, NextApp, At
<1>2. cur # 0 /\ is \subseteq DOMAIN rows[cur].reps /\ is # {}
  BY <1>1 DEF ToMove, AffectedIdx
<1>3. cur \in RowIds /\ cur \in Nat /\ rows[cur].reps \in Seq(Nat)
  BY <1>2, WorldTyped, CurrentRow, CurrentTyped
<1>4. InOrder(is) \in Seq(Nat) /\ SeqSet(InOrder(is)) \subseteq is /\ InOrder(is) # <<>>
  BY <1>2, <1>3, IndexesFinite, InOrderLists
<1>5. op.fresh = <<>> /\ op \in Op /\ Unmoved \in BOOLEAN
  BY <1>1, FleetParts DEF OpOK, Working, Unmoved
<1> HIDE DEF is, cur
<1>6. /\ op' \in Op /\ op'.kind = "evac" /\ op'.at = "pick" /\ op'.row = cur
      /\ op'.reps = rows[cur].reps /\ op'.fresh = op.fresh /\ op'.todo = InOrder(is)
  BY <1>1, <1>3, <1>4, <1>5 DEF Op
<1>7. UNCHANGED <<rows, conts, pc>>
  BY <1>1 DEF vars
<1>8. OpOK'
  BY <1>1, <1>2, <1>4, <1>5, <1>6, <1>7, WorkBegins DEF cur
<1>9. IInv'
  BY <1>1, WorldTyped, StutterIInv
<1> QED  BY <1>1, <1>6, <1>7, <1>8, <1>9, Kept, UnchangedRows, FleetParts, FleetMoves

LEMMA EvacRemoveOldStep == ASSUME FInv, EvacRemoveOld PROVE FInv'
<1>1. /\ Working /\ ~Healing /\ op.at = "drop" /\ UNCHANGED <<rows, edge, holder>>
      /\ OpGoto("save")
  BY DEF EvacRemoveOld, At, Working, Healing
<1>2. ContsKept /\ EdgeTypeOK'
  BY <1>1, RemoveReachableConts, EdgeKept DEF EvacRemoveOld
<1> QED  BY <1>1, <1>2, WorkGoesOn DEF EvacSteps

\* The replica's successor runs on a node none of the others is on.
LEMMA ReplicaMoved ==
  ASSUME FInv, Working, ~Healing, UNCHANGED <<rows, pc>>, NEW m \in NewHomes,
         RunOn(m, NextDeployID), NEW l \in {"stage", "undo"},
         op' = [op EXCEPT !.at = l, !.id = NextDeployID, !.fresh = <<Len(conts) + 1>>]
  PROVE  op' \in Op /\ OpOK'
<1> DEFINE c == Len(conts) + 1
<1>1. /\ op \in Op /\ op.kind = "evac" /\ op.todo # <<>> /\ op.row \in RowIds /\ pc = "idle"
      /\ WorkOK /\ SeqSet(op.reps) \subseteq ContIds /\ NextDeployID \in Nat
  BY OpTyped, WorkTyped, WorldTyped DEF WorkOK, NextDeployID
<1>2. m \in Nodes /\ \A j \in DOMAIN op.reps \ {Idx} : m # NodeOf(op.reps[j])
  BY DEF NewHomes, Candidates
<1>3. /\ ContsKept /\ c \in ContIds' /\ c \in Nat /\ conts'[c].node = m
      /\ \A x \in ContIds : NodeOf(x)' = NodeOf(x)
  BY <1>1, <1>2, RunOnConts
<1>4. op' = [op EXCEPT !.at = l, !.id = NextDeployID, !.fresh = <<c>>]
  OBVIOUS
<1> HIDE DEF c
<1>5. <<c>> \in Seq(Nat) /\ <<c>> # <<>> /\ SeqSet(<<c>>) = {c} /\ <<c>>[1] = c
  BY <1>3 DEF SeqSet
<1>6. /\ op' \in Op /\ op'.kind = "evac" /\ op'.at = l /\ op'.row = op.row
      /\ op'.reps = op.reps /\ op'.todo = op.todo /\ op'.fresh = <<c>>
  BY <1>1, <1>4, <1>5 DEF Op
<1>7. WorkOK'
  <2>1. CurrentDeployment(App)' = CurrentDeployment(App)
    BY <1>6, SameCurrent DEF App
  <2>2. RowIds' = RowIds /\ ContIds \subseteq ContIds'
    BY <1>3 DEF RowIds, ContsKept
  <2>3. SeqSet(op'.reps) \cup SeqSet(op'.fresh) \subseteq ContIds'
    BY <1>1, <1>3, <1>5, <1>6, <2>2
  <2>4. \A i \in DOMAIN op'.reps : op'.reps[i] = rows'[op'.row].reps[i]
    BY <1>6, MovesRecorded
  <2>5. pc' = "idle" /\ op'.row \in RowIds' /\ CurrentDeployment(App)' = op'.row
    BY <1>1, <1>6, <2>1, <2>2 DEF WorkOK
  <2>6. DOMAIN op'.reps = DOMAIN rows'[op'.row].reps /\ SeqSet(op'.todo) \subseteq DOMAIN op'.reps
    BY <1>1, <1>6 DEF WorkOK
  <2> QED  BY <1>1, <1>6, <2>3, <2>4, <2>5, <2>6 DEF WorkOK
<1>8. PlacedApart'
  <2>1. \A j \in DOMAIN op.reps : op.reps[j] \in ContIds
    BY <1>1 DEF SeqSet
  <2>2. \A x \in ContIds : conts'[x].node = NodeOf(x)
    BY <1>3 DEF NodeOf
  <2>3. \A j \in DOMAIN op.reps \ {Idx} : conts'[c].node # conts'[op.reps[j]].node
    BY <1>2, <1>3, <2>1, <2>2
  <2> QED  BY <1>5, <1>6, <2>3 DEF PlacedApart, Healing, NodeOf, Idx
<1>9. OpOK'
  BY <1>6, <1>7, <1>8 DEF OpOK, Healing, Working, EvacSteps
<1> QED  BY <1>6, <1>9

LEMMA EvacRunStep == ASSUME FInv, EvacRun PROVE FInv'
<1>1. /\ Working /\ ~Healing /\ op.at = "pick" /\ op.todo # <<>>
      /\ UNCHANGED <<rows, edge, holder>> /\ UNCHANGED pc
  <2>1. Working /\ ~Healing /\ op.at = "pick" /\ UNCHANGED <<rows, edge, holder>>
    BY DEF EvacRun, At, Working, Healing
  <2> QED  BY <2>1, WorkTyped DEF WorkOK, holder
<1>2. NewHomes \subseteq Nodes /\ NextDeployID \in Nat
  BY WorldTyped DEF NewHomes, Candidates, NextDeployID
<1>3. ContsKept
  BY <1>1, <1>2, Kept, RunOnConts DEF EvacRun
<1>4. /\ op' \in Op /\ OpOK' /\ loop' \in {loop, AtRest} /\ heal' \in HealTypes
      /\ UNCHANGED <<since, nodeVars>>
  <2>1. CASE NextMove(op.reps, TRUE)
    BY <1>1, <1>3, <2>1, MoveLeavesRow
  <2>2. ASSUME NEW m \in NewHomes, NEW l \in {"stage", "undo"}, RunOn(m, NextDeployID),
               op' = [op EXCEPT !.at = l, !.id = NextDeployID, !.fresh = <<Len(conts) + 1>>],
               UNCHANGED <<loop, heal, since, nodeVars>>
        PROVE  /\ op' \in Op /\ OpOK' /\ loop' \in {loop, AtRest} /\ heal' \in HealTypes
               /\ UNCHANGED <<since, nodeVars>>
    BY <1>1, <2>2, ReplicaMoved, FleetParts
  <2> QED  BY <2>1, <2>2 DEF EvacRun
<1> QED  BY <1>1, <1>3, <1>4, EdgeKept, WorkStep

\* The app whose turn it is has a current deployment that is to move.
LEMMA NextAppRow ==
  ASSUME FInv, NEW a \in Apps, NextApp(a)
  PROVE  /\ op.kind = "evac" /\ op.at = "apps" /\ pc = "idle" /\ ~Working
         /\ CurrentDeployment(a) \in RowIds /\ CurrentDeployment(a) \in Nat
         /\ rows[CurrentDeployment(a)].spec \in Spec0 /\ Unmoved \in BOOLEAN
<1>1. op.kind = "evac" /\ op.at = "apps" /\ pc = "idle" /\ ToMove(a, op.node)
  BY DEF NextApp, At
<1>2. CurrentDeployment(a) # 0
  BY <1>1 DEF ToMove, AffectedIdx
<1>3. CurrentDeployment(a) \in RowIds /\ CurrentDeployment(a) \in Nat
  BY <1>2, WorldTyped, CurrentRow, CurrentTyped
<1>4. rows[CurrentDeployment(a)].spec \in Spec0
  BY <1>3, WorldTyped DEF Row
<1> QED  BY <1>1, <1>3, <1>4 DEF Working, Unmoved

\* It stays between two apps.
LEMMA OpBetweenApps ==
  ASSUME FInv, op.kind = "evac", op.at = "apps", NEW apps \in SUBSET Apps, NEW row \in Nat,
         NEW failed \in BOOLEAN,
         op' = [op EXCEPT !.apps = apps, !.row = row, !.failed = failed]
  PROVE  op' \in Op /\ OpOK'
<1>1. op \in Op /\ op.fresh = <<>>
  BY FleetParts DEF OpOK, Working
<1>2. op' \in Op /\ op'.kind = "evac" /\ op'.at = "apps" /\ op'.fresh = <<>>
  BY <1>1 DEF Op
<1> QED  BY <1>2 DEF OpOK, Healing, Working, EvacSteps

LEMMA EvacRedeployStep == ASSUME FInv, NEW a \in Apps, EvacRedeploy(a) PROVE FInv'
<1>1. PICK m \in Candidates({op.node}) :
        StartDeploy([rows[CurrentDeployment(a)].spec EXCEPT !.node = m], TRUE)
  BY DEF EvacRedeploy
<1>2. /\ NextApp(a) /\ UNCHANGED <<asked, loop, heal, since, nodeVars>>
      /\ op' = [op EXCEPT !.apps = @ \ {a}, !.row = CurrentDeployment(a), !.failed = @ \/ Unmoved]
  BY DEF EvacRedeploy
<1>3. /\ op.kind = "evac" /\ op.at = "apps" /\ CurrentDeployment(a) \in Nat
      /\ rows[CurrentDeployment(a)].spec \in Spec0 /\ Unmoved \in BOOLEAN
  BY <1>2, NextAppRow
<1>4. [rows[CurrentDeployment(a)].spec EXCEPT !.node = m] \in Spec0
  BY <1>3 DEF Spec0, Candidates
<1>5. IInv'
  BY <1>1, <1>2, <1>4, WorldTyped, StartDeployStep
<1>6. UNCHANGED <<rows, conts>>
  BY <1>1 DEF StartDeploy
<1>7. op' \in Op /\ OpOK'
  <2>1. op.apps \in SUBSET Apps /\ (op.failed \/ Unmoved) \in BOOLEAN
    BY <1>3, OpTyped DEF Op
  <2> QED  BY <1>2, <1>3, <2>1, OpBetweenApps
<1> QED  BY <1>2, <1>5, <1>6, <1>7, Kept, UnchangedRows, FleetParts, FleetMoves

\* A failed row at most is appended.
LEMMA AbandonRows ==
  ASSUME FInv, NEW s \in Spec0, NEW sched, AbandonDeploy(s, sched) PROVE RowsGrow
<1> DEFINE row == NewRow("failed", s, FALSE, <<>>)
<1>1. rows \in Seq(Row) /\ row \in Row
  BY WorldTyped, FailedRow
<1>2. rows' = rows \/ rows' = Append(rows, row)
  BY DEF AbandonDeploy
<1> HIDE DEF row
<1> QED  BY <1>1, <1>2 DEF RowsGrow, RowIds

LEMMA EvacGivesUpStep == ASSUME FInv, NEW a \in Apps, EvacGivesUp(a) PROVE FInv'
<1> DEFINE s == rows[CurrentDeployment(a)].spec
<1>1. /\ NextApp(a) /\ UNCHANGED <<asked, loop, heal, since, nodeVars>>
      /\ op' = [op EXCEPT !.apps = @ \ {a}, !.row = 0, !.failed = TRUE]
      /\ \/ UNCHANGED <<rows, conts, edge, pc, job>>
         \/ AbandonDeploy(s, TRUE)
  BY DEF EvacGivesUp
<1>2. op.kind = "evac" /\ op.at = "apps" /\ pc = "idle" /\ s \in Spec0
  BY <1>1, NextAppRow
<1>3. op' \in Op /\ OpOK'
  <2>1. op.apps \in SUBSET Apps
    BY OpTyped DEF Op
  <2> QED  BY <1>1, <1>2, <2>1, OpBetweenApps
<1> HIDE DEF s
<1>4. IInv' /\ RowsGrow /\ UNCHANGED conts
  <2>1. CASE UNCHANGED <<rows, conts, edge, pc, job>>
    BY <1>1, <2>1, WorldTyped, StutterIInv, UnchangedRows DEF vars, edge
  <2>2. CASE AbandonDeploy(s, TRUE)
    BY <1>1, <1>2, <2>2, WorldTyped, AbandonDeployStep, AbandonRows DEF AbandonDeploy
  <2> QED  BY <1>1, <2>1, <2>2
<1> QED  BY <1>1, <1>3, <1>4, Kept, FleetParts, FleetMoves

\* A step of the loop, of the API's node handlers or of the nodes.
LEMMA WorldStays ==
  ASSUME FInv, UNCHANGED vars
  PROVE  IInv' /\ RowsGrow /\ ContsKept /\ UNCHANGED <<rows, conts, pc>>
<1>1. UNCHANGED <<rows, conts, pc>>
  BY DEF vars
<1> QED  BY <1>1, WorldTyped, StutterIInv, UnchangedRows, Kept

LEMMA EvacEndStep == ASSUME FInv, EvacEnd PROVE FInv'
<1>1. /\ op' = NoOp /\ UNCHANGED <<vars, away, cordoned, heal>>
      /\ drained' \in {drained, drained \cup {op.node}}
      /\ op.node \notin cordoned => drained' = drained
      /\ since' \subseteq since /\ loop' \in {loop, AtRest}
  BY DEF EvacEnd
<1>2. NodesTypeOK'
  BY <1>1, FleetParts DEF NodesTypeOK
<1>3. IInv' /\ loop' \in Loop /\ LoopOK' /\ heal' \in HealTypes
  BY <1>1, WorldStays, FleetParts, LoopKept
<1> QED  BY <1>1, <1>2, <1>3, OpEnds, FleetPartsPrimed

\* What is not at work observes nothing and is told of nothing.
LEMMA OpIdles ==
  ASSUME op' \in Op, op'.kind = "evac", op'.at = "apps", op'.fresh = <<>> PROVE OpOK'
BY DEF OpOK, Healing, Working, EvacSteps

LEMMA EvacStartStep ==
  ASSUME FInv, NEW n \in Nodes, NEW byLoop \in BOOLEAN, EvacStart(n, byLoop) PROVE FInv'
<1>1. /\ UNCHANGED <<vars, loop, heal, since, nodeVars>>
      /\ op' = [NoOp EXCEPT !.kind = "evac", !.at = "apps", !.node = n, !.byLoop = byLoop,
                            !.apps = Apps]
  BY DEF EvacStart
<1>2. op' \in Op /\ op'.kind = "evac" /\ op'.at = "apps" /\ op'.fresh = <<>>
  BY <1>1, RestOK DEF Op
<1>3. OpOK'
  BY <1>2, OpIdles
<1> QED  BY <1>1, <1>2, <1>3, WorldStays, FleetParts, FleetMoves

-----------------------------------------------------------------------------
(* The loop, the nodes, and BlueGreen's steps *)

\* The loop moves, and nothing else but the healing state.
LEMMA LoopMoves ==
  ASSUME FInv, UNCHANGED <<vars, op, since, nodeVars>>, heal' \in HealTypes,
         loop' \in Loop, LoopOK'
  PROVE  FInv'
<1>1. IInv' /\ op' \in Op /\ OpOK'
  BY WorldStays, OpStays
<1>2. NodesTypeOK'
  BY FleetParts DEF NodesTypeOK, nodeVars
<1> QED  BY <1>1, <1>2, FleetPartsPrimed

LEMMA LoopForgets ==
  ASSUME FInv, UNCHANGED <<vars, op, since, nodeVars>>, heal' \in HealTypes, loop' = AtRest
  PROVE  FInv'
<1>1. loop' \in Loop /\ LoopOK'
  BY AtRestTyped DEF LoopOK
<1> QED  BY <1>1, LoopMoves

LEMMA LoopReadStep == ASSUME FInv, NEW a \in Apps, LoopRead(a) PROVE FInv'
<1> DEFINE cur == CurrentDeployment(a)
<1>1. /\ loop' = [at |-> "read", app |-> a, row |-> cur, reps |-> rows[cur].reps] /\ cur # 0
      /\ UNCHANGED <<vars, op, heal, since, nodeVars>>
  BY DEF LoopRead
<1>2. cur \in RowIds /\ cur \in Nat /\ rows[cur].reps \in Seq(Nat) /\ SeqSet(rows[cur].reps) \subseteq ContIds
  BY <1>1, WorldTyped, CurrentRow, CurrentTyped
<1> HIDE DEF cur
<1>3. loop' \in Loop
  BY <1>1, <1>2 DEF Loop
<1>4. LoopOK'
  BY <1>1, <1>2 DEF LoopOK, RowIds, ContIds, vars
<1> QED  BY <1>1, <1>3, <1>4, FleetParts, LoopMoves

LEMMA LoopProbeStep == ASSUME FInv, LoopProbe PROVE FInv'
<1> DEFINE reached == {i \in DOMAIN loop.reps : NodeOf(loop.reps[i]) \notin away}
           dead(errs) == {i \in reached : SurfaceIsDead(loop.reps[i], i \in errs)}
<1>1. PICK idx : /\ idx \subseteq reached
                 /\ loop.at = "read" /\ UNCHANGED <<vars, op, heal, since, nodeVars>>
                 /\ loop' = CASE idx # {} -> [at |-> "dead", app |-> loop.app, row |-> loop.row, idx |-> idx]
                              [] idx = {} /\ reached = DOMAIN loop.reps -> [at |-> "well", app |-> loop.app]
                              [] OTHER -> AtRest
  <2>1. \E errs : /\ loop.at = "read" /\ UNCHANGED <<vars, op, heal, since, nodeVars>>
                  /\ loop' = CASE dead(errs) # {} -> [at |-> "dead", app |-> loop.app, row |-> loop.row,
                                                      idx |-> dead(errs)]
                               [] dead(errs) = {} /\ reached = DOMAIN loop.reps -> [at |-> "well", app |-> loop.app]
                               [] OTHER -> AtRest
    BY Zenon DEF LoopProbe
  <2>2. \A errs : dead(errs) \subseteq reached
    OBVIOUS
  <2> HIDE DEF dead, reached
  <2> QED  BY <2>1, <2>2
<1>2. /\ loop.app \in Apps /\ loop.row \in RowIds /\ loop.row \in Nat
      /\ loop.reps \in Seq(Nat) /\ DOMAIN loop.reps = DOMAIN rows[loop.row].reps
  BY <1>1, FleetParts DEF Loop, LoopOK
<1>3. idx \subseteq DOMAIN loop.reps /\ idx \subseteq Nat
  BY <1>1, <1>2
<1> HIDE DEF dead, reached
<1>4. \/ idx # {} /\ loop' = [at |-> "dead", app |-> loop.app, row |-> loop.row, idx |-> idx]
      \/ loop' = [at |-> "well", app |-> loop.app]
      \/ loop' = AtRest
  BY <1>1
<1>5. CASE idx # {} /\ loop' = [at |-> "dead", app |-> loop.app, row |-> loop.row, idx |-> idx]
  <2>1. loop' \in Loop
    BY <1>2, <1>3, <1>5 DEF Loop
  <2>2. LoopOK'
    BY <1>1, <1>2, <1>3, <1>5 DEF LoopOK, RowIds, vars
  <2> QED  BY <1>1, <2>1, <2>2, FleetParts, LoopMoves
<1>6. CASE loop' = [at |-> "well", app |-> loop.app]
  <2>1. loop' \in Loop /\ LoopOK'
    BY <1>2, <1>6 DEF Loop, LoopOK
  <2> QED  BY <1>1, <2>1, FleetParts, LoopMoves
<1> QED  BY <1>1, <1>4, <1>5, <1>6, FleetParts, LoopForgets

LEMMA NoHealTyped == NoHeal \in [attempts: 0..MaxAttempts, waits: BOOLEAN]
BY AttemptsAssumption DEF NoHeal

LEMMA LoopClearStep == ASSUME FInv, LoopClear PROVE FInv'
<1>1. heal' \in HealTypes
  BY FleetParts, NoHealTyped DEF LoopClear, HealTypes
<1> QED  BY <1>1, LoopForgets DEF LoopClear

LEMMA HealSkipStep == ASSUME FInv, HealSkip PROVE FInv'
BY FleetParts, LoopForgets DEF HealSkip

LEMMA HealStartStep == ASSUME FInv, HealStart PROVE FInv'
<1> DEFINE a == loop.app
           is == loop.idx
<1>1. /\ loop.at = "dead" /\ Free /\ CurrentDeployment(a) = loop.row /\ Eligible
      /\ op' = [NoOp EXCEPT !.kind = "heal", !.at = "pick", !.row = loop.row, !.id = NextDeployID,
                            !.reps = rows[loop.row].reps, !.todo = InOrder(is)]
      /\ heal' = [heal EXCEPT ![a].attempts = @ + 1]
      /\ UNCHANGED <<vars, loop, since, nodeVars>>
  BY DEF HealStart, StillCurrent
<1>2. /\ loop.row \in RowIds /\ a \in Apps /\ is # {} /\ is \subseteq DOMAIN rows[loop.row].reps
  BY <1>1, FleetParts DEF Loop, LoopOK
<1>3. /\ rows[loop.row].reps \in Seq(Nat) /\ loop.row \in Nat \ {0} /\ NextDeployID \in Nat
  BY <1>2, WorldTyped DEF RowIds, NextDeployID
<1>4. InOrder(is) \in Seq(Nat) /\ SeqSet(InOrder(is)) \subseteq is /\ InOrder(is) # <<>>
  BY <1>2, <1>3, IndexesFinite, InOrderLists
<1> HIDE DEF is, a
<1>5. /\ op' \in Op /\ op'.kind = "heal" /\ op'.at = "pick" /\ op'.row = loop.row
      /\ op'.reps = rows[loop.row].reps /\ op'.todo = InOrder(is) /\ op'.fresh = <<>>
  BY <1>1, <1>3, <1>4, RestOK DEF Op
<1>6. UNCHANGED <<rows, conts, pc>> /\ pc = "idle"
  BY <1>1 DEF vars, Free
<1>7. OpOK'
  BY <1>1, <1>2, <1>3, <1>4, <1>5, <1>6, WorkBegins
<1>8. heal' \in HealTypes
  <2>1. heal \in HealTypes /\ heal[a].attempts < MaxAttempts /\ heal[a].attempts \in 0..MaxAttempts
    BY <1>1, <1>2, FleetParts DEF Eligible, HealTypes, a
  <2>2. heal[a].attempts + 1 \in 0..MaxAttempts
    BY <2>1, AttemptsAssumption
  <2> QED  BY <1>1, <2>1, <2>2 DEF HealTypes
<1> QED  BY <1>1, <1>5, <1>7, <1>8, WorldStays, FleetMoves

LEMMA BackoffElapsesStep == ASSUME FInv, NEW a \in Apps, BackoffElapses(a) PROVE FInv'
<1>1. heal' \in HealTypes /\ loop' \in Loop /\ LoopOK'
  <2>1. heal \in HealTypes /\ UNCHANGED <<vars, loop>>
    BY FleetParts DEF BackoffElapses
  <2>2. heal' \in HealTypes
    BY <2>1 DEF BackoffElapses, HealTypes
  <2> QED  BY <2>1, <2>2, WorldStays, FleetParts, LoopKept
<1> QED  BY <1>1, LoopMoves DEF BackoffElapses

LEMMA LoopNodeStep == ASSUME FInv, NEW n \in Managed, LoopNode(n) PROVE FInv'
<1>1. /\ UNCHANGED <<vars, op, heal, nodeVars>>
      /\ \/ since' \in {since \ {n}, since \cup {n}} /\ UNCHANGED loop
         \/ loop' = [at |-> "failover", node |-> n] /\ UNCHANGED since
  BY DEF LoopNode
<1>2. NodesTypeOK'
  BY <1>1, FleetParts DEF NodesTypeOK, nodeVars
<1>3. IInv' /\ op' \in Op /\ OpOK' /\ heal' \in HealTypes /\ RowsGrow /\ ContsKept
  BY <1>1, WorldStays, OpStays, FleetParts
<1>4. loop' \in Loop /\ LoopOK'
  <2>1. CASE UNCHANGED loop
    BY <1>3, <2>1, FleetParts, LoopKept
  <2>2. CASE loop' = [at |-> "failover", node |-> n]
    BY <2>2, ManagedAssumption DEF Loop, LoopOK
  <2> QED  BY <1>1, <2>1, <2>2
<1> QED  BY <1>2, <1>3, <1>4, FleetPartsPrimed

LEMMA EvacFailoverStep == ASSUME FInv, EvacFailover PROVE FInv'
<1>1. loop.node \in Nodes /\ EvacStart(loop.node, TRUE)
  BY FleetParts DEF EvacFailover, Loop
<1> QED  BY <1>1, EvacStartStep

LEMMA NodeStep ==
  ASSUME FInv, NEW n \in Managed, Cordon(n) \/ Evacuate(n) \/ Uncordon(n) \/ GoAway(n) \/ ComeBack(n)
  PROVE  FInv'
<1>1. CASE Evacuate(n)
  BY <1>1, ManagedAssumption, EvacStartStep DEF Evacuate
<1>2. CASE ~Evacuate(n)
  <2>1. UNCHANGED <<vars, op, loop, heal, since>> /\ NodesTypeOK'
    BY <1>2, FleetParts DEF Cordon, Uncordon, GoAway, ComeBack, NodesTypeOK
  <2>2. IInv' /\ op' \in Op /\ OpOK' /\ loop' \in Loop /\ LoopOK' /\ heal' \in HealTypes
    BY <2>1, WorldStays, OpStays, LoopKept, FleetParts
  <2> QED  BY <2>1, <2>2, FleetPartsPrimed
<1> QED  BY <1>1, <1>2

\* A request is a step of BlueGreen; but for a question, it waits for r.mu.
LEMMA FleetRequestIsRequest ==
  ASSUME FleetRequest
  PROVE  Next /\ UNCHANGED fleet /\ (op = NoOp \/ UNCHANGED <<rows, pc>>)
<1>1. UNCHANGED fleet /\ (Free \/ UNCHANGED <<rows, pc>>)
  BY DEF FleetRequest, AskRollback, AskScale, world
<1>2. Request
  BY DEF FleetRequest, Request
<1> QED  BY <1>1, <1>2 DEF Next, Free

LEMMA BlueGreenMoves ==
  ASSUME FInv, Next PROVE IInv' /\ RowsGrow /\ ContsKept
BY WorldTyped, NextIInv, NextRowsGrow, NextKeepsConts

LEMMA FleetRequestStep == ASSUME FInv, FleetRequest PROVE FInv'
<1>1. IInv' /\ RowsGrow /\ ContsKept /\ UNCHANGED <<away, cordoned, op, loop, heal, since, drained>>
  BY FleetRequestIsRequest, BlueGreenMoves DEF fleet
<1>2. op' \in Op /\ OpOK'
  BY <1>1, FleetRequestIsRequest, OpEnds, OpStays
<1> QED  BY <1>1, <1>2, FleetParts, FleetMoves DEF nodeVars

LEMMA FleetDeployStep == ASSUME FInv, FleetDeploy PROVE FInv'
<1>1. /\ Next /\ pc # "idle" /\ UNCHANGED <<op, loop, since, nodeVars>>
      /\ \/ heal' = heal
         \/ \E a : heal' = [heal EXCEPT ![a] = NoHeal]
  <2>1. (Deploy \/ Remove) => pc # "idle"
    BY DEF Deploy, Remove, RunReplica, RunReplicaFails, SetStaging, HealthGate, Flip, RemoveStaging,
       RetireOldSet, RetireOldRow, RecordRunning, UndoStaging, Discard, RecordFailed,
       RemoveContainers, RemoveRoute, RetireRemoved
  <2> QED  BY <2>1 DEF FleetDeploy, Next
<1>2. op' \in Op /\ OpOK'
  BY <1>1, WorkTyped, OpWaits
<1>3. heal' \in HealTypes
  BY <1>1, FleetParts, NoHealTyped DEF HealTypes
<1> QED  BY <1>1, <1>2, <1>3, BlueGreenMoves, FleetMoves

LEMMA FleetEnvironmentStep == ASSUME FInv, FleetEnvironment PROVE FInv'
<1>1. Next
  BY DEF FleetEnvironment, Next, Environment
<1>2. IInv' /\ RowsGrow /\ ContsKept
  BY <1>1, BlueGreenMoves
<1>3. CASE (Cancel \/ \E c \in ContIds : Die(c)) /\ UNCHANGED fleet
  <2>1. UNCHANGED <<rows, pc>> /\ UNCHANGED <<away, cordoned, op, loop, heal, since, drained>>
    BY <1>3 DEF Cancel, Die, world, fleet
  <2> QED  BY <1>2, <2>1, OpStays, FleetParts, FleetMoves DEF nodeVars
<1>4. CASE /\ op' = NoOp /\ loop' = AtRest /\ since' = {}
           /\ heal' = [a \in Apps |-> NoHeal] /\ UNCHANGED nodeVars
  <2>1. NodesTypeOK' /\ heal' \in HealTypes /\ loop' \in Loop /\ LoopOK'
    BY <1>4, FleetParts, NoHealTyped, AtRestTyped DEF NodesTypeOK, nodeVars, HealTypes, LoopOK
  <2> QED  BY <1>2, <1>4, <2>1, OpEnds, FleetPartsPrimed
<1> QED  BY <1>3, <1>4 DEF FleetEnvironment

-----------------------------------------------------------------------------
(* Theorems *)

LEMMA InitFInv == FleetInit => FInv
<1> SUFFICES ASSUME FleetInit PROVE FInv
  OBVIOUS
<1>1. IInv
  BY InitIInv DEF FleetInit
<1>2. NodesTypeOK /\ heal \in HealTypes /\ loop \in Loop /\ LoopOK
  BY NoHealTyped, AtRestTyped DEF FleetInit, NodesTypeOK, HealTypes, LoopOK
<1>3. op \in Op /\ OpOK
  BY RestOK DEF FleetInit, OpOK, Healing, Working
<1> QED  BY <1>1, <1>2, <1>3, FleetParts

LEMMA NextFInv == FInv /\ [FleetNext]_all => FInv'
<1> SUFFICES ASSUME FInv, [FleetNext]_all PROVE FInv'
  OBVIOUS
<1>1. CASE Common
  BY <1>1, OpSetStagingStep, OpGateStep, OpUnstageStep, OpFlipStep, OpUndoStep, OpDiscardStep,
     OpSaveStep DEF Common
<1>2. CASE Heal
  BY <1>2, HealRemoveOldStep, HealRunStep DEF Heal
<1>3. CASE Evac
  BY <1>3, EvacRedeployStep, EvacGivesUpStep, EvacReplicasStep, EvacRunStep, EvacRemoveOldStep,
     EvacEndStep DEF Evac
<1>4. CASE LoopProbe \/ LoopLocks
  BY <1>4, LoopProbeStep, LoopClearStep, HealSkipStep, HealStartStep, EvacFailoverStep DEF LoopLocks
<1>5. CASE \E a \in Apps : LoopRead(a) \/ BackoffElapses(a)
  BY <1>5, LoopReadStep, BackoffElapsesStep
<1>6. CASE \E n \in Managed : LoopNode(n) \/ Cordon(n) \/ Evacuate(n)
                                \/ Uncordon(n) \/ GoAway(n) \/ ComeBack(n)
  BY <1>6, LoopNodeStep, NodeStep
<1>7. CASE FleetRequest \/ FleetDeploy \/ FleetEnvironment
  BY <1>7, FleetRequestStep, FleetDeployStep, FleetEnvironmentStep
<1>8. CASE UNCHANGED all
  <2>1. UNCHANGED <<vars, op, since, nodeVars, heal, loop>>
    BY <1>8 DEF all, fleet, nodeVars
  <2>2. loop' \in Loop /\ LoopOK' /\ heal' \in HealTypes
    BY <2>1, WorldStays, LoopKept, FleetParts
  <2> QED  BY <2>1, <2>2, LoopMoves
<1> QED  BY <1>1, <1>2, <1>3, <1>4, <1>5, <1>6, <1>7, <1>8 DEF FleetNext, Operation

\* The inductive invariant holds, whatever fails and whichever nodes go away.
THEOREM FleetInductive == FleetSpec => []FInv
BY InitFInv, NextFInv, PTL DEF FleetSpec

\* Types: the loop, a heal and an evacuation name rows and containers that exist,
\* and the count of heals never passes its limit.
THEOREM FleetTypes == FleetSpec => []FleetTypeOK
<1>1. FInv => FleetTypeOK  BY DEF FInv
<1> QED  BY <1>1, FleetInductive, PTL

\* A heal or a move only ever works on what is its app's current deployment, and
\* on the replicas this lists: nothing gets in between the read under r.mu and the
\* write.
THEOREM CurrentRowOnly == FleetSpec => []WorksOnCurrentRow
<1>1. FInv => WorksOnCurrentRow
  <2> SUFFICES ASSUME FInv, op.row # 0, op.at # "apps" PROVE WorksOnCurrentRow
    BY DEF WorksOnCurrentRow
  <2>1. Working
    BY FleetParts DEF OpOK, Working, NoOp
  <2> QED  BY <2>1, WorkTyped DEF WorkOK, WorksOnCurrentRow
<1> QED  BY <1>1, FleetInductive, PTL

-----------------------------------------------------------------------------
(* Spread *)

\* A heal or a move writes its row.
Saves == OpSave /\ UpdateReplicas

\* Every other step leaves the replicas of every row as they are.
LEMMA NextKeepsReplicas ==
  ASSUME IInv, [Next]_vars
  PROVE  \A i \in RowIds : i \in RowIds' /\ rows'[i].reps = rows[i].reps
<1>1. rows \in Seq(Row)
  BY DEF IInv, TypeOK, WorldTypeOK
<1>2. ASSUME NEW row \in Row, rows' = Append(rows, row)
      PROVE  \A i \in RowIds : i \in RowIds' /\ rows'[i].reps = rows[i].reps
  BY <1>1, <1>2 DEF RowIds
<1>3. ASSUME NEW k \in RowIds, SetStatus(k, "retired")
      PROVE  \A i \in RowIds : i \in RowIds' /\ rows'[i].reps = rows[i].reps
  BY <1>1, <1>3 DEF RowIds, SetStatus, Row
<1>4. CASE UNCHANGED rows
  BY <1>4 DEF RowIds
<1> QED  BY <1>2, <1>3, <1>4, TableMoves

LEMMA FleetKeepsReplicas ==
  ASSUME FInv, [FleetNext]_all, ~Saves
  PROVE  ContsKept /\ \A i \in RowIds : i \in RowIds' /\ rows'[i].reps = rows[i].reps
<1> DEFINE Same == \A i \in RowIds : i \in RowIds' /\ rows'[i].reps = rows[i].reps
<1>1. ASSUME UNCHANGED rows PROVE Same
  BY <1>1 DEF RowIds
<1>2. ASSUME [Next]_vars PROVE ContsKept /\ Same
  BY <1>2, WorldTyped, NextKeepsReplicas, NextKeepsConts
<1> HIDE DEF Same
<1>3. CASE OpSetStaging \/ OpGate \/ OpUnstage \/ OpFlip \/ OpUndo \/ OpSave
  <2>1. UNCHANGED <<rows, conts>>
    BY <1>3 DEF OpSetStaging, OpGate, OpUnstage, OpFlip, OpUndo, OpSave, Saves, vars
  <2> QED  BY <1>1, <2>1, Kept DEF Same
<1>4. CASE OpDiscard \/ HealRemoveOld \/ EvacRemoveOld
  <2>1. UNCHANGED rows /\ ContsKept
    BY <1>4, RemoveReachableConts, Kept DEF OpDiscard, HealRemoveOld, EvacRemoveOld
  <2> QED  BY <1>1, <2>1 DEF Same
<1>5. CASE HealRun \/ EvacRun
  <2>1. Working /\ op.todo # <<>> /\ UNCHANGED rows
    <3>1. Working /\ op.at \in {"pick", "run"} /\ UNCHANGED rows
      BY <1>5 DEF HealRun, EvacRun, At, Working
    <3> QED  BY <3>1, WorkTyped DEF WorkOK
  <2>2. NewHomes \subseteq Nodes /\ NextDeployID \in Nat /\ op.id \in Nat /\ NodeOf(Old) \in Nodes
    BY <2>1, WorldTyped, OpTyped, TodoTyped DEF NewHomes, Candidates, NextDeployID
  <2>3. ContsKept
    BY <1>5, <2>1, <2>2, RunOnConts, Kept DEF HealRun, EvacRun
  <2> QED  BY <1>1, <2>1, <2>3 DEF Same
<1>6. CASE \E a \in Apps : EvacRedeploy(a) \/ EvacGivesUp(a) \/ EvacReplicas(a)
  <2> PICK a \in Apps : EvacRedeploy(a) \/ EvacGivesUp(a) \/ EvacReplicas(a)
    BY <1>6
  <2>1. CASE EvacRedeploy(a) \/ EvacReplicas(a)
    <3>1. UNCHANGED <<rows, conts>>
      BY <2>1 DEF EvacRedeploy, EvacReplicas, StartDeploy, vars
    <3> QED  BY <1>1, <3>1, Kept DEF Same
  <2>2. CASE EvacGivesUp(a)
    <3> DEFINE s == rows[CurrentDeployment(a)].spec
               row == NewRow("failed", s, FALSE, <<>>)
    <3>1. rows \in Seq(Row) /\ s \in Spec0
      BY <2>2, WorldTyped, NextAppRow DEF EvacGivesUp
    <3>2. row \in Row /\ UNCHANGED conts /\ (rows' = rows \/ rows' = Append(rows, row))
      BY <2>2, <3>1, FailedRow DEF EvacGivesUp, AbandonDeploy
    <3> HIDE DEF row
    <3>3. \A i \in RowIds : i \in RowIds' /\ rows'[i].reps = rows[i].reps
      BY <3>1, <3>2 DEF RowIds
    <3> QED  BY <3>2, <3>3, Kept DEF Same
  <2> QED  BY <2>1, <2>2
<1>7. CASE FleetRequest \/ FleetDeploy \/ FleetEnvironment
  <2>1. Next
    BY <1>7, FleetRequestIsRequest DEF FleetDeploy, FleetEnvironment, Next, Environment
  <2> QED  BY <1>2, <2>1 DEF Same
<1>8. CASE \/ UNCHANGED all \/ LoopProbe \/ LoopLocks \/ EvacEnd
           \/ \E a \in Apps : LoopRead(a) \/ BackoffElapses(a)
           \/ \E n \in Managed : LoopNode(n) \/ Cordon(n) \/ Evacuate(n)
                                   \/ Uncordon(n) \/ GoAway(n) \/ ComeBack(n)
  <2>1. UNCHANGED vars
    BY <1>8 DEF all, LoopProbe, LoopLocks, LoopClear, HealSkip, HealStart, EvacFailover, EvacStart,
       EvacEnd, LoopRead, BackoffElapses, LoopNode, Cordon, Evacuate, Uncordon, GoAway, ComeBack
  <2> QED  BY <1>2, <2>1 DEF Same
<1> QED
  BY <1>3, <1>4, <1>5, <1>6, <1>7, <1>8 DEF FleetNext, Operation, Common, Heal, Evac, Same

\* The set a heal or a move records is spread as the one it replaces.
LEMMA SavedSpread ==
  ASSUME FInv, Saves, OnDistinctNodes(rows[op.row].reps, conts)
  PROVE  \A i, j \in DOMAIN Merged : i # j => conts'[Merged[i]].node # conts'[Merged[j]].node
<1>1. Working /\ op.at = "save" /\ UNCHANGED conts
  BY AtWork DEF Saves, OpSave
<1>2. /\ PlacedApart /\ DOMAIN op.reps = DOMAIN rows[op.row].reps /\ DOMAIN Merged = DOMAIN op.reps
      /\ \A i \in DOMAIN op.reps :
           \/ Merged[i] = op.reps[i]
           \/ ~Healing /\ i = Idx /\ Merged[i] = op.fresh[1]
  BY <1>1, WorkTyped, MergedTyped
<1>3. CASE Healing
  BY <1>1, <1>2, <1>3 DEF OnDistinctNodes, PlacedApart, NodeOf
<1>4. CASE ~Healing
  <2>1. op.reps = rows[op.row].reps
    BY <1>1, <1>4, MovesRecorded
  <2>2. \A j \in DOMAIN op.reps \ {Idx} : NodeOf(op.fresh[1]) # NodeOf(op.reps[j])
    BY <1>1, <1>2, <1>4 DEF PlacedApart
  <2> QED  BY <1>1, <1>2, <1>4, <2>1, <2>2 DEF OnDistinctNodes, NodeOf
<1> QED  BY <1>3, <1>4

\* A heal keeps its replica's node and a move avoids those of the others: a set
\* that was spread over distinct nodes stays so, whatever else happens.
THEOREM StaysSpread == FleetSpec => SpreadKept
<1>1. ASSUME FInv, [FleetNext]_all, NEW i \in RowIds, OnDistinctNodes(rows[i].reps, conts)
      PROVE  OnDistinctNodes(rows'[i].reps, conts')
  <2>1. \A x \in RowIds : SeqSet(rows[x].reps) \subseteq ContIds
    BY <1>1, WorldTyped
  <2>2. ASSUME ContsKept, rows'[i].reps = rows[i].reps
        PROVE  OnDistinctNodes(rows'[i].reps, conts')
    <3>1. \A k \in DOMAIN rows[i].reps : rows[i].reps[k] \in ContIds
      BY <2>1 DEF SeqSet
    <3> QED  BY <1>1, <2>2, <3>1 DEF OnDistinctNodes, ContsKept
  <2>3. CASE Saves
    <3>1. Working /\ op.at = "save" /\ UNCHANGED <<conts, edge, holder>> /\ UpdateReplicas
      BY <2>3, AtWork DEF Saves, OpSave
    <3>2. rows'[op.row].reps = Merged /\ ContsKept
      BY <1>1, <3>1, RowUpdated
    <3>3. CASE i = op.row
      BY <1>1, <2>3, <3>2, <3>3, SavedSpread DEF OnDistinctNodes
    <3>4. CASE i # op.row
      <4>1. rows'[i] = rows[i]
        BY <3>1, <3>4, <1>1 DEF UpdateReplicas, RowIds
      <4> QED  BY <2>2, <3>2, <4>1
    <3> QED  BY <3>3, <3>4
  <2>4. CASE ~Saves
    BY <1>1, <2>2, <2>4, FleetKeepsReplicas
  <2> QED  BY <2>3, <2>4
<1>2. FInv /\ [FleetNext]_all =>
        [\A i \in RowIds :
           OnDistinctNodes(rows[i].reps, conts) => OnDistinctNodes(rows'[i].reps, conts')]_all
  BY <1>1
<1> QED  BY <1>2, FleetInductive, PTL DEF FleetSpec, SpreadKept

=============================================================================
